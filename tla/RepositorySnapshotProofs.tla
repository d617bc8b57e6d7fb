---------------------- MODULE RepositorySnapshotProofs ----------------------
(***************************************************************************)
(* Proofs about RepositorySnapshot, for any stores, limits and changes of  *)
(* the private tree: what is published is the frozen commit, and the tree  *)
(* is bounded at every moment.                                             *)
(*                                                                         *)
(* The commit is the set of its chains of entries (Chains).  The walk is   *)
(* compared with it chain by chain: each is on disk already or waits       *)
(* behind an entry of an open tree.                                        *)
(***************************************************************************)
EXTENDS RepositorySnapshot, SequenceTheorems, FiniteSetTheorems, TLAPS

NodeNames == DOMAIN Fold
Data      == [blob : DOMAIN Size \cup {"none"}, size : Nat]
Nodes     == [path : Seq(NodeNames), kind : {"dir", "file", "link"}, exec : BOOLEAN,
              mode : {"private", "read_only"}, data : Data]
Frames    == [tree : Trees, path : Seq(NodeNames), next : Nat \ {0}]

(* The private tree is still the walk's own.                               *)
Walking == pc \in {"enter", "entry", "create", "write"}

TypedOK ==
  /\ store \in Stores /\ head \in DOMAIN Root
  /\ pc \in {"collect", "enter", "entry", "create", "write", "hash", "published",
             "counted", "reading", "refused"}
  /\ stack \in Seq(Frames) /\ Len(stack) <= MaxDepth + 1
  /\ files \in 0..MaxFiles /\ trees \in 0..MaxFiles /\ bytes \in 0..MaxBytes
  /\ disk \in [DOMAIN disk -> Nodes] /\ IsFiniteSet(DOMAIN disk)
  /\ tampers \in 0..MaxTampers
  /\ pc \notin {"published", "counted", "reading", "refused"} => tampers = 0

(* What each step of the walk has in hand.                                 *)
Key == Paths(EntryPath)
HandOK ==
  /\ pc = "collect" => stack = <<>> /\ disk = <<>>
  /\ pc = "hash" => stack = <<>>
  /\ pc \in {"entry", "create", "write"} => stack # <<>>
  /\ pc \in {"create", "write"} =>
       /\ Top.next <= Len(Entries) /\ Entry.mode \in {"100644", "100755"}
       /\ Size[Entry.id] <= MaxFileBytes /\ Key \in seen
  /\ pc = "write" =>
       /\ Key \in DOMAIN disk /\ disk[Key].kind = "file" /\ disk[Key].path = EntryPath
       /\ disk[Key].exec = (Entry.mode = "100755")
       /\ disk[Key].data.blob = Entry.id /\ disk[Key].data.size <= Size[Entry.id]
  /\ Walking => DOMAIN disk \subseteq seen

(* A tree that is open, or is about to be: its directory is on disk under  *)
(* its path, and a chain of entries leads to it.                           *)
NamesOf(c) == [i \in DOMAIN c |-> c[i].name]
Opened(path, tree) ==
  /\ path # <<>> => Paths(path) \in DOMAIN disk /\ disk[Paths(path)].path = path
  /\ \E c \in Chains : /\ path = NamesOf(c) /\ tree = TreeOf(c, Len(c) + 1)
                       /\ c # <<>> => Last(c).mode = "40000"
OpenOK ==
  /\ Walking => \A j \in DOMAIN stack : /\ Opened(stack[j].path, stack[j].tree)
                                        /\ Len(stack[j].path) = j - 1
  /\ pc = "enter" => Opened(NextPath, NextTree) /\ Len(NextPath) = Len(stack)

(* Nothing is on disk but what a chain leads to, except the file that is   *)
(* being written.                                                          *)
Intact   == pc \in {"collect", "enter", "entry", "create", "write", "hash"}
SoundOK  == Intact => \A k \in DOMAIN disk : \/ pc = "write" /\ k = Key
                                             \/ \E c \in Chains \ {<<>>} : Shown(k) = Item(c)

(* A chain is on disk, or an entry of an open tree that it goes through is *)
(* still to come, or the tree that is about to be opened.                  *)
Done(c) == \E k \in DOMAIN disk : Shown(k) = Item(c)
Through(c, path, tree) ==
  /\ Len(path) < Len(c) /\ \A i \in DOMAIN path : path[i] = c[i].name
  /\ TreeOf(c, Len(path) + 1) = tree
WaitsAt(c, f) ==
  /\ Through(c, f.path, f.tree)
  /\ \E m \in DOMAIN store[f.tree] : m >= f.next /\ c[Len(f.path) + 1] = store[f.tree][m]
Waits(c) == \/ \E j \in DOMAIN stack : WaitsAt(c, stack[j])
            \/ pc = "enter" /\ Through(c, NextPath, NextTree)
CompleteOK == Walking \/ pc = "hash" => \A c \in Chains \ {<<>>} : Done(c) \/ Waits(c)

(* The counters run beside what is on disk.                                *)
Dirs == DOMAIN disk \ RegularFiles
CountsOK ==
  /\ Intact =>
       /\ Cardinality(RegularFiles) = files - (IF pc = "create" THEN 1 ELSE 0)
       /\ Cardinality(Dirs) = trees - (IF pc \in {"collect", "enter"} THEN 0 ELSE 1)
       /\ DiskBytes = bytes - (IF pc = "create" THEN Size[Entry.id]
                               ELSE IF pc = "write" THEN Size[Entry.id] - disk[Key].data.size
                               ELSE 0)
  /\ tampers = 0 =>
       /\ Cardinality(RegularFiles) <= MaxFiles /\ Cardinality(Dirs) <= MaxFiles
       /\ DiskBytes <= MaxBytes /\ IsFiniteSet(Stored)
       /\ \A k \in DOMAIN disk : Len(k) <= MaxDepth + 1
       /\ \A k \in RegularFiles : disk[k].data.size <= MaxFileBytes

EvidenceOK ==
  pc \in {"published", "counted", "reading"} /\ tampers = 0 =>
    /\ Listing = Contents
    /\ evidence.files = Cardinality(RegularFiles) /\ evidence.bytes = DiskBytes

IInv == TypedOK /\ HandOK /\ OpenOK /\ SoundOK /\ CompleteOK /\ CountsOK /\ EvidenceOK

-----------------------------------------------------------------------------
LEMMA Limits ==
  /\ MaxFiles \in Nat \ {0} /\ MaxBytes \in Nat /\ MaxFileBytes \in Nat
  /\ MaxDepth \in Nat /\ MaxTampers \in Nat
BY RepositorySnapshotAssumption

-----------------------------------------------------------------------------
(* The store and its chains.                                               *)

Objects == [mode : STRING, name : NodeNames, id : Trees \cup DOMAIN Size]

LEMMA StoreTyped ==
  ASSUME store \in Stores
  PROVE  /\ \A t \in Trees : store[t] \in Seq(Objects) /\ DOMAIN store[t] = 1..Len(store[t])
         /\ RootTree \in Trees
         /\ \A t \in Trees, i \in Nat \ {0} : i <= Len(store[t]) =>
              /\ store[t][i] \in Objects /\ store[t][i] \in AllEntries
              /\ store[t][i] \in Range(store[t])
         /\ \A e \in AllEntries :
              /\ e \in Objects /\ (e.mode = "40000" => e.id \in Trees)
              /\ e.mode \in {"100644", "100755"} => e.id \in DOMAIN Size
<1>1. store \in [Trees -> Seq(Objects)]
  BY RepositorySnapshotAssumption DEF Objects, NodeNames
<1>2. \A t \in Trees : store[t] \in Seq(Objects) /\ DOMAIN store[t] = 1..Len(store[t])
  BY <1>1, LenProperties
<1>3. RootTree \in Trees
  BY RepositorySnapshotAssumption DEF RootTree
<1>4. \A t \in Trees : \A i \in DOMAIN store[t] :
        /\ store[t][i] \in Objects
        /\ store[t][i].mode = "40000" => store[t][i].id \in Trees
        /\ store[t][i].mode \in {"100644", "100755"} => store[t][i].id \in DOMAIN Size
  <2>1. ASSUME NEW t \in Trees, NEW i \in DOMAIN store[t]
        PROVE  store[t][i] \in Objects
    BY <1>2, ElementOfSeq, <2>1
  <2>. QED BY <2>1, RepositorySnapshotAssumption
<1>5. \A t \in Trees : Range(store[t]) = {store[t][i] : i \in DOMAIN store[t]}
  BY DEF Range
<1>6. \A e \in AllEntries : \E t \in Trees : \E i \in DOMAIN store[t] : e = store[t][i]
  BY <1>5 DEF AllEntries
<1>7. \A t \in Trees : \A i \in DOMAIN store[t] :
        store[t][i] \in AllEntries /\ store[t][i] \in Range(store[t])
  BY <1>5 DEF AllEntries
<1>8. \A t \in Trees, i \in Nat \ {0} : i <= Len(store[t]) => i \in DOMAIN store[t]
  BY <1>2, LenProperties
<1>9. \A e \in AllEntries :
        /\ e \in Objects /\ (e.mode = "40000" => e.id \in Trees)
        /\ e.mode \in {"100644", "100755"} => e.id \in DOMAIN Size
  BY <1>4, <1>6
<1>. QED BY <1>2, <1>3, <1>4, <1>7, <1>8, <1>9

LEMMA ChainTyped ==
  ASSUME store \in Stores, NEW c \in Chains
  PROVE  /\ c \in Seq(AllEntries) /\ DOMAIN c = 1..Len(c) /\ Len(c) <= MaxDepth + 2 /\ Leads(c)
         /\ Len(c) \in Nat /\ \A i \in DOMAIN c : c[i] \in AllEntries
         /\ c # <<>> => Len(c) \in DOMAIN c /\ Last(c) = c[Len(c)]
         /\ NamesOf(c) \in Seq(NodeNames) /\ Len(NamesOf(c)) = Len(c)
         /\ \A i \in DOMAIN c : NamesOf(c)[i] = c[i].name
         /\ (c # <<>> => Last(c).mode = "40000") => TreeOf(c, Len(c) + 1) \in Trees
<1>1. PICK n \in 0..MaxDepth + 2 : c \in [1..n -> AllEntries]
  BY DEF Chains
<1>2. n \in Nat /\ MaxDepth \in Nat /\ n <= MaxDepth + 2
  BY <1>1, RepositorySnapshotAssumption
<1>3. c \in Seq(AllEntries) /\ Len(c) = n /\ DOMAIN c = 1..n
  BY <1>1, <1>2, IsASeq, LenProperties
<1>4. Leads(c)
  BY DEF Chains
<1>5. \A e \in AllEntries : e.name \in NodeNames
  BY StoreTyped DEF Objects
<1>6. NamesOf(c) \in [1..n -> NodeNames]
  BY <1>1, <1>5 DEF NamesOf
<1>7. NamesOf(c) \in Seq(NodeNames) /\ Len(NamesOf(c)) = n
  BY <1>2, <1>6, IsASeq, LenProperties
<1>8. c # <<>> => n # 0
  BY <1>3, EmptySeq
<1>9. c # <<>> => Len(c) \in DOMAIN c /\ Last(c) = c[Len(c)]
  BY <1>2, <1>3, <1>8 DEF Last
<1>10. ASSUME c # <<>> => Last(c).mode = "40000"
       PROVE  TreeOf(c, Len(c) + 1) \in Trees
  <2>1. CASE c = <<>>
    BY <2>1, StoreTyped DEF TreeOf
  <2>2. CASE c # <<>>
    <3>1. Last(c) \in AllEntries
      BY <1>1, <1>3, <1>9, <2>2
    <3>2. TreeOf(c, Len(c) + 1) = c[Len(c)].id
      BY <1>2, <1>3, <1>8, <2>2 DEF TreeOf
    <3>. QED BY <1>9, <1>10, <2>2, <3>1, <3>2, StoreTyped
  <2>. QED BY <2>1, <2>2
<1>. QED BY <1>1, <1>2, <1>3, <1>4, <1>7, <1>9, <1>10 DEF NamesOf

(* An entry of the tree that a chain leads to continues the chain.         *)
LEMMA Extend ==
  ASSUME store \in Stores, NEW c \in Chains, Len(c) <= MaxDepth + 1,
         c # <<>> => Last(c).mode = "40000",
         NEW e \in Range(store[TreeOf(c, Len(c) + 1)])
  PROVE  /\ Append(c, e) \in Chains \ {<<>>} /\ Last(Append(c, e)) = e
         /\ Len(Append(c, e)) = Len(c) + 1
         /\ NamesOf(Append(c, e)) = Append(NamesOf(c), e.name)
         /\ TreeOf(Append(c, e), Len(c) + 2) = e.id
<1> DEFINE d == Append(c, e)
<1>1. /\ c \in Seq(AllEntries) /\ DOMAIN c = 1..Len(c) /\ Leads(c) /\ Len(c) \in Nat
      /\ TreeOf(c, Len(c) + 1) \in Trees
      /\ c # <<>> => Last(c) = c[Len(c)]
      /\ NamesOf(c) \in Seq(NodeNames) /\ Len(NamesOf(c)) = Len(c)
      /\ \A i \in DOMAIN c : NamesOf(c)[i] = c[i].name
  BY ChainTyped
<1>2. e \in AllEntries
  BY <1>1 DEF AllEntries
<1>3. /\ d \in Seq(AllEntries) /\ Len(d) = Len(c) + 1 /\ DOMAIN d = 1..Len(c) + 1
      /\ \A i \in 1..Len(c) : d[i] = c[i]
      /\ d[Len(c) + 1] = e /\ d # <<>>
  BY <1>1, <1>2, AppendProperties, LenProperties
<1> HIDE DEF d
<1>4. Len(c) + 1 \in 0..MaxDepth + 2 /\ d \in [1..Len(c) + 1 -> AllEntries]
  BY <1>1, <1>3, RepositorySnapshotAssumption, LenProperties
<1>5. \A i \in 1..Len(c) + 1 : TreeOf(d, i) = TreeOf(c, i)
  BY <1>1, <1>3 DEF TreeOf
<1>6. Leads(d)
  <2> SUFFICES ASSUME NEW i \in 1..Len(c) + 1
               PROVE  (i > 1 => d[i - 1].mode = "40000") /\ d[i] \in Range(store[TreeOf(d, i)])
    BY <1>3 DEF Leads
  <2>1. CASE i \in 1..Len(c)
    BY <1>1, <1>3, <1>5, <2>1 DEF Leads
  <2>2. CASE i = Len(c) + 1
    <3>1. i > 1 => c # <<>> /\ d[i - 1] = c[Len(c)]
      BY <1>1, <1>3, <2>2
    <3>2. TreeOf(d, i) = TreeOf(c, Len(c) + 1) /\ d[i] = e
      BY <1>3, <1>5, <2>2
    <3>3. c # <<>> => Last(c).mode = "40000"
      OBVIOUS
    <3>4. e \in Range(store[TreeOf(c, Len(c) + 1)])
      OBVIOUS
    <3>. QED BY ONLY <1>1, <2>2, <3>1, <3>2, <3>3, <3>4
  <2>. QED BY <1>1, <2>1, <2>2
<1>7. d \in Chains \ {<<>>}
  BY <1>3, <1>4, <1>6 DEF Chains
<1>8. Last(d) = e
  BY <1>3 DEF Last
<1>9. NamesOf(d) = Append(NamesOf(c), e.name)
  <2>1. e.name \in NodeNames
    BY <1>2, StoreTyped DEF Objects
  <2> DEFINE p == Append(NamesOf(c), e.name)
  <2>2. /\ p \in Seq(NodeNames) /\ Len(p) = Len(c) + 1 /\ p[Len(c) + 1] = e.name
        /\ \A i \in 1..Len(c) : p[i] = NamesOf(c)[i]
    BY <1>1, <2>1, AppendProperties
  <2>3. /\ NamesOf(d) \in Seq(NodeNames) /\ Len(NamesOf(d)) = Len(c) + 1
        /\ \A i \in 1..Len(c) + 1 : NamesOf(d)[i] = d[i].name
    BY <1>3, <1>7, ChainTyped
  <2> HIDE DEF p
  <2>4. ASSUME NEW i \in 1..Len(c) + 1
        PROVE  NamesOf(d)[i] = p[i]
    <3>1. CASE i \in 1..Len(c)
      BY <1>1, <1>3, <2>2, <2>3, <3>1
    <3>2. CASE i = Len(c) + 1
      BY <1>3, <2>2, <2>3, <3>2
    <3>. QED BY <1>1, <3>1, <3>2
  <2>5. NamesOf(d) = p
    BY <2>2, <2>3, <2>4, SeqEqual
  <2>. QED BY <2>5 DEF p
<1>10. TreeOf(d, Len(c) + 2) = e.id
  BY <1>1, <1>3 DEF TreeOf
<1>. QED BY <1>3, <1>7, <1>8, <1>9, <1>10 DEF d

LEMMA EmptyChain ==
  /\ <<>> \in Chains /\ NamesOf(<<>>) = <<>> /\ TreeOf(<<>>, Len(<<>>) + 1) = RootTree
<1>1. 0 \in 0..MaxDepth + 2 /\ <<>> \in [1..0 -> AllEntries]
  BY RepositorySnapshotAssumption
<1>2. Leads(<<>>)
  BY DEF Leads
<1>. QED BY <1>1, <1>2 DEF Chains, NamesOf, TreeOf

LEMMA ChainsKept ==
  ASSUME store' = store
  PROVE  Chains' = Chains /\ Contents' = Contents
<1>1. AllEntries' = AllEntries
  BY DEF AllEntries
<1>2. \A c : Leads(c)' = Leads(c)
  BY DEF Leads
<1>3. Chains' = Chains
  BY <1>1, <1>2 DEF Chains
<1>. QED BY <1>3 DEF Contents

LEMMA DiskKept ==
  ASSUME disk' = disk
  PROVE  /\ RegularFiles' = RegularFiles /\ Dirs' = Dirs /\ Stored' = Stored
         /\ DiskBytes' = DiskBytes /\ Listing' = Listing
         /\ \A k : Shown(k)' = Shown(k)
<1>1. RegularFiles' = RegularFiles
  BY DEF RegularFiles
<1>2. Dirs' = Dirs
  BY <1>1 DEF Dirs
<1>3. Stored' = Stored
  BY <1>1 DEF Stored
<1>4. DiskBytes' = DiskBytes
  BY <1>3 DEF DiskBytes
<1>5. Listing' = Listing
  BY DEF Listing, Shown
<1>6. \A k : Shown(k)' = Shown(k)
  BY DEF Shown
<1>. QED BY <1>1, <1>2, <1>3, <1>4, <1>5, <1>6

-----------------------------------------------------------------------------
(* The open trees.                                                         *)

LEMMA TopTyped ==
  ASSUME TypedOK, OpenOK, Walking, stack # <<>>
  PROVE  /\ Top \in Frames /\ Top = stack[Len(stack)] /\ Len(stack) \in DOMAIN stack
         /\ DOMAIN stack = 1..Len(stack) /\ Len(stack) \in Nat \ {0}
         /\ Entries \in Seq(Objects) /\ DOMAIN Entries = 1..Len(Entries) /\ Len(Entries) \in Nat
         /\ Opened(Top.path, Top.tree) /\ Len(Top.path) = Len(stack) - 1
         /\ Top.path \in Seq(NodeNames) /\ Top.tree \in Trees /\ Top.next \in Nat \ {0}
         /\ \A j \in DOMAIN stack : stack[j] \in Frames
<1>1. stack \in Seq(Frames) /\ store \in Stores
  BY DEF TypedOK
<1>2. DOMAIN stack = 1..Len(stack) /\ Len(stack) \in Nat \ {0} /\ Len(stack) \in DOMAIN stack
  BY <1>1, LenProperties, EmptySeq
<1>3. Top = stack[Len(stack)]
  BY DEF Top, Last
<1>4. \A j \in DOMAIN stack : stack[j] \in Frames
  <2>1. ASSUME NEW j \in DOMAIN stack PROVE stack[j] \in Frames
    BY <1>1, <1>2, <2>1, ElementOfSeq
  <2>. QED BY <2>1
<1>5. Top \in Frames
  BY <1>2, <1>3, <1>4
<1>6. Top.path \in Seq(NodeNames) /\ Top.tree \in Trees /\ Top.next \in Nat \ {0}
  BY <1>5 DEF Frames
<1>7. Entries \in Seq(Objects)
  BY <1>1, <1>6, StoreTyped DEF Entries
<1>8. DOMAIN Entries = 1..Len(Entries) /\ Len(Entries) \in Nat
  BY <1>7, LenProperties
<1>9. Opened(Top.path, Top.tree) /\ Len(Top.path) = Len(stack) - 1
  <2>1. Len(stack) \in DOMAIN stack
    BY <1>2
  <2>2. \A j \in DOMAIN stack : Opened(stack[j].path, stack[j].tree) /\ Len(stack[j].path) = j - 1
    BY DEF OpenOK
  <2>. QED BY ONLY <1>3, <2>1, <2>2
<1>. QED BY ONLY <1>2, <1>3, <1>4, <1>5, <1>6, <1>7, <1>8, <1>9, Zenon

LEMMA EntryTyped ==
  ASSUME TypedOK, OpenOK, Walking, stack # <<>>, Top.next <= Len(Entries)
  PROVE  /\ Entry \in Objects /\ Entry \in Range(store[Top.tree]) /\ Top.next \in DOMAIN Entries
         /\ Entry.mode = "40000" => Entry.id \in Trees
         /\ Entry.mode \in {"100644", "100755"} => Entry.id \in DOMAIN Size /\ Size[Entry.id] \in Nat
         /\ EntryPath \in Seq(NodeNames) /\ Len(EntryPath) = Len(stack) /\ EntryPath # <<>>
         /\ \A i \in 1..Len(stack) - 1 : EntryPath[i] = Top.path[i]
         /\ EntryPath[Len(stack)] = Entry.name
         /\ Len(Key) = Len(stack)
<1>1. /\ Len(stack) \in Nat \ {0} /\ Entries \in Seq(Objects) /\ DOMAIN Entries = 1..Len(Entries)
      /\ Len(Top.path) = Len(stack) - 1 /\ Top.path \in Seq(NodeNames)
      /\ Top.tree \in Trees /\ Top.next \in Nat \ {0} /\ Len(Entries) \in Nat
  BY TopTyped, Zenon
<1>2. /\ Entry \in Objects /\ Entry \in AllEntries /\ Entry \in Range(store[Top.tree])
      /\ Top.next \in DOMAIN Entries
  BY <1>1, StoreTyped DEF Entry, Entries, TypedOK
<1>3. /\ Entry.mode = "40000" => Entry.id \in Trees
      /\ Entry.mode \in {"100644", "100755"} => Entry.id \in DOMAIN Size /\ Size[Entry.id] \in Nat
  BY <1>2, StoreTyped, RepositorySnapshotAssumption DEF TypedOK
<1>4. Entry.name \in NodeNames
  BY <1>2 DEF Objects
<1>5. /\ EntryPath \in Seq(NodeNames) /\ Len(EntryPath) = Len(stack)
      /\ \A i \in 1..Len(stack) - 1 : EntryPath[i] = Top.path[i]
      /\ EntryPath[Len(stack)] = Entry.name
  BY <1>1, <1>4, AppendProperties DEF EntryPath
<1>6. EntryPath # <<>> /\ DOMAIN EntryPath = 1..Len(stack)
  BY <1>1, <1>5, LenProperties, EmptySeq
<1>7. Len(Key) = Len(stack)
  <2>1. Key \in [1..Len(stack) -> {Fold[EntryPath[i]] : i \in DOMAIN EntryPath}]
    BY <1>6 DEF Key, Paths
  <2>. QED BY <1>1, <2>1, IsASeq, LenProperties
<1>. QED BY <1>2, <1>3, <1>5, <1>6, <1>7, Zenon

(* The walk has gone on by one entry.                                      *)
LEMMA Advanced ==
  ASSUME stack \in Seq(Frames), stack # <<>>, Advance
  PROVE  /\ stack' \in Seq(Frames) /\ Len(stack') = Len(stack) /\ stack' # <<>>
         /\ \A j \in 1..Len(stack) - 1 : stack'[j] = stack[j]
         /\ stack'[Len(stack)] = [tree |-> Top.tree, path |-> Top.path, next |-> Top.next + 1]
         /\ DOMAIN stack' = DOMAIN stack /\ Last(stack') = stack'[Len(stack)]
<1> DEFINE f == [Top EXCEPT !.next = @ + 1]
<1>1. DOMAIN stack = 1..Len(stack) /\ Len(stack) \in Nat \ {0}
  BY LenProperties, EmptySeq
<1>2. Top \in Frames
  BY <1>1, ElementOfSeq DEF Top, Last
<1>3. f \in Frames /\ f = [tree |-> Top.tree, path |-> Top.path, next |-> Top.next + 1]
  <2>1. Top = [tree |-> Top.tree, path |-> Top.path, next |-> Top.next]
    BY ONLY <1>2 DEF Frames
  <2>2. f = [tree |-> Top.tree, path |-> Top.path, next |-> Top.next + 1]
    BY ONLY <2>1
  <2>3. Top.tree \in Trees /\ Top.path \in Seq(NodeNames) /\ Top.next + 1 \in Nat \ {0}
    BY ONLY <1>2 DEF Frames
  <2>. QED BY ONLY <2>2, <2>3 DEF Frames
<1> HIDE DEF f
<1>4. /\ Front(stack) \in Seq(Frames) /\ Len(Front(stack)) = Len(stack) - 1
      /\ \A j \in 1..Len(stack) - 1 : Front(stack)[j] = stack[j]
  <2>1. 1 \in 1..Len(stack) + 1 /\ Len(stack) - 1 \in 0..Len(stack)
    BY <1>1
  <2>. QED BY <1>1, <2>1, SubSeqProperties DEF Front
<1>5. stack' = Append(Front(stack), f)
  BY <1>3, <1>4, AppendIsConcat DEF Advance, f
<1>6. /\ stack' \in Seq(Frames) /\ Len(stack') = Len(stack)
      /\ \A j \in 1..Len(stack) - 1 : stack'[j] = Front(stack)[j]
      /\ stack'[Len(stack)] = f
  <2>1. /\ stack' \in Seq(Frames) /\ Len(stack') = Len(stack) - 1 + 1
        /\ \A j \in 1..Len(stack) - 1 : stack'[j] = Front(stack)[j]
        /\ stack'[Len(stack) - 1 + 1] = f
    BY ONLY <1>3, <1>4, <1>5, AppendProperties
  <2>. QED BY ONLY <1>1, <2>1
<1>7. stack' # <<>> /\ DOMAIN stack' = DOMAIN stack
  BY <1>1, <1>6, LenProperties, EmptySeq
<1>8. Last(stack') = stack'[Len(stack)]
  BY <1>6 DEF Last
<1>. QED BY <1>3, <1>4, <1>6, <1>7, <1>8

(* What is open stays open while the tree only grows.                      *)
LEMMA OpenedKept ==
  ASSUME store' = store, NEW path, NEW tree, Opened(path, tree),
         \A k \in DOMAIN disk : k \in DOMAIN disk' /\ disk'[k].path = disk[k].path
  PROVE  Opened(path, tree)'
<1>1. Chains' = Chains
  BY ChainsKept
<1>. QED BY <1>1 DEF Opened

LEMMA DoneKept ==
  ASSUME NEW c, Done(c),
         \A k \in DOMAIN disk : k \in DOMAIN disk' /\ (Shown(k)' = Shown(k) \/ Shown(k) # Item(c))
  PROVE  Done(c)'
BY DEF Done

LEMMA WaitsAtKept ==
  ASSUME store' = store, NEW c, NEW f
  PROVE  WaitsAt(c, f)' <=> WaitsAt(c, f)
BY DEF WaitsAt, Through

(* A chain through the tree of the frame, to its next entry, ends there    *)
(* with the item of that entry or goes on into its tree.                   *)
LEMMA AtEntry ==
  ASSUME TypedOK, OpenOK, Walking, stack # <<>>, Top.next <= Len(Entries),
         NEW c \in Chains \ {<<>>}, Through(c, Top.path, Top.tree), c[Len(stack)] = Entry
  PROVE  /\ Len(c) = Len(stack) => Last(c) = Entry /\ NamesOf(c) = EntryPath
         /\ Len(c) > Len(stack) => Entry.mode = "40000" /\ Through(c, EntryPath, Entry.id)
<1>1. /\ c \in Seq(AllEntries) /\ DOMAIN c = 1..Len(c) /\ Leads(c) /\ Len(c) \in Nat
      /\ Last(c) = c[Len(c)] /\ NamesOf(c) \in Seq(NodeNames) /\ Len(NamesOf(c)) = Len(c)
      /\ \A i \in DOMAIN c : NamesOf(c)[i] = c[i].name
  BY ChainTyped DEF TypedOK
<1>2. /\ Len(stack) \in Nat \ {0} /\ Len(Top.path) = Len(stack) - 1 /\ Top.path \in Seq(NodeNames)
  BY TopTyped, Zenon
<1>3. /\ EntryPath \in Seq(NodeNames) /\ Len(EntryPath) = Len(stack)
      /\ \A i \in 1..Len(stack) - 1 : EntryPath[i] = Top.path[i]
      /\ EntryPath[Len(stack)] = Entry.name
  BY EntryTyped
<1>4. Len(c) >= Len(stack) /\ \A i \in 1..Len(stack) - 1 : Top.path[i] = c[i].name
  BY <1>1, <1>2, LenProperties DEF Through
<1>5. ASSUME NEW i \in 1..Len(stack)
      PROVE  EntryPath[i] = c[i].name
  BY <1>2, <1>3, <1>4
<1>6. ASSUME Len(c) = Len(stack)
      PROVE  NamesOf(c) = EntryPath
  <2>1. \A i \in 1..Len(stack) : NamesOf(c)[i] = EntryPath[i]
    BY <1>1, <1>5, <1>6
  <2>. QED BY <1>1, <1>3, <1>6, <2>1, SeqEqual
<1>7. ASSUME Len(c) > Len(stack)
      PROVE  Entry.mode = "40000" /\ Through(c, EntryPath, Entry.id)
  <2>1. Len(stack) + 1 \in DOMAIN c /\ Len(stack) + 1 > 1
    BY <1>1, <1>2, <1>7
  <2>2. c[Len(stack) + 1 - 1].mode = "40000"
    BY <1>1, <2>1 DEF Leads
  <2>3. Entry.mode = "40000"
    BY <1>2, <2>2
  <2>4. TreeOf(c, Len(stack) + 1) = Entry.id
    BY <1>2 DEF TreeOf
  <2>. QED BY <1>3, <1>5, <1>7, <2>3, <2>4, LenProperties DEF Through
<1>. QED BY <1>1, <1>6, <1>7

LEMMA HandKept ==
  ASSUME store' = store, stack' = stack
  PROVE  /\ Top' = Top /\ Entries' = Entries /\ Entry' = Entry /\ EntryPath' = EntryPath
         /\ Key' = Key
<1>1. Top' = Top
  BY DEF Top, Last
<1>2. Entries' = Entries
  BY <1>1 DEF Entries
<1>3. Entry' = Entry
  BY <1>1, <1>2 DEF Entry
<1>4. EntryPath' = EntryPath
  BY <1>1, <1>3 DEF EntryPath
<1>5. Key' = Key
  BY <1>4 DEF Key, Paths
<1>. QED BY <1>1, <1>2, <1>3, <1>4, <1>5

(* The parts of the invariant that a step inside one tree keeps.           *)
LEMMA OpenKept ==
  ASSUME OpenOK, Walking, store' = store, stack' = stack, pc' # "enter",
         \A k \in DOMAIN disk : k \in DOMAIN disk' /\ disk'[k].path = disk[k].path
  PROVE  OpenOK'
<1> SUFFICES ASSUME NEW j \in DOMAIN stack
             PROVE  Opened(stack[j].path, stack[j].tree)' /\ Len(stack[j].path) = j - 1
  BY DEF OpenOK
<1>1. Opened(stack[j].path, stack[j].tree) /\ Len(stack[j].path) = j - 1
  BY DEF OpenOK
<1>2. Chains' = Chains
  BY ChainsKept
<1>. QED BY <1>1, <1>2 DEF Opened

LEMMA SoundKept ==
  ASSUME SoundOK, Intact, store' = store, disk' = disk, pc # "write", pc' # "write"
  PROVE  SoundOK'
<1>1. Chains' = Chains
  BY ChainsKept
<1>2. \A k : Shown(k)' = Shown(k)
  BY DiskKept
<1>. QED BY <1>1, <1>2 DEF SoundOK

LEMMA CompleteKept ==
  ASSUME CompleteOK, Walking \/ pc = "hash", store' = store, stack' = stack, disk' = disk,
         pc # "enter"
  PROVE  CompleteOK'
<1> SUFFICES ASSUME NEW c \in Chains \ {<<>>} PROVE (Done(c) \/ Waits(c))'
  <2>1. Chains' = Chains
    BY ChainsKept
  <2>. QED BY <2>1 DEF CompleteOK
<1>1. Done(c) \/ \E j \in DOMAIN stack : WaitsAt(c, stack[j])
  BY DEF CompleteOK, Waits
<1>2. \A k : Shown(k)' = Shown(k)
  BY DiskKept
<1>3. CASE Done(c)
  BY <1>2, <1>3 DEF Done
<1>4. CASE \E j \in DOMAIN stack : WaitsAt(c, stack[j])
  BY <1>4 DEF Waits, WaitsAt, Through
<1>. QED BY <1>1, <1>3, <1>4

LEMMA TypedKept ==
  ASSUME TypedOK, UNCHANGED <<store, head, stack, files, bytes, trees, disk, tampers>>,
         pc' \in {"collect", "enter", "entry", "create", "write", "hash", "published",
                  "counted", "reading", "refused"},
         pc \in {"published", "counted", "reading", "refused"} => pc' \in {"published", "counted", "reading", "refused"}
  PROVE  TypedOK'
BY DEF TypedOK

LEMMA BoundsKept ==
  ASSUME CountsOK, disk' = disk, tampers' = tampers, ~Intact'
  PROVE  CountsOK'
<1>1. RegularFiles' = RegularFiles /\ Dirs' = Dirs /\ Stored' = Stored /\ DiskBytes' = DiskBytes
  BY DiskKept
<1>. QED BY <1>1 DEF CountsOK

LEMMA RefuseStep ==
  ASSUME IInv, Refuse
  PROVE  IInv'
<1>1. /\ UNCHANGED <<store, head, stack, pending, seen, files, bytes, trees, disk, evidence, tampers>>
      /\ pc' = "refused" /\ ~Intact' /\ ~Walking'
  BY DEF Refuse, counters, Intact, Walking
<1>2. TypedOK'
  BY <1>1, TypedKept DEF IInv
<1>3. HandOK' /\ OpenOK' /\ SoundOK' /\ CompleteOK' /\ EvidenceOK'
  BY <1>1 DEF HandOK, OpenOK, SoundOK, CompleteOK, EvidenceOK
<1>4. CountsOK'
  BY <1>1, BoundsKept DEF IInv
<1>. QED BY <1>2, <1>3, <1>4 DEF IInv

(* HEAD has no part in the walk.                                           *)
LEMMA Still ==
  ASSUME IInv, head' \in DOMAIN Root,
         UNCHANGED <<store, pc, stack, pending, seen, files, bytes, trees, disk, evidence, tampers>>
  PROVE  IInv'
<1> USE DEF IInv
<1>1. /\ Top' = Top /\ Entries' = Entries /\ Entry' = Entry /\ EntryPath' = EntryPath
      /\ Key' = Key
  BY HandKept
<1>2. /\ RegularFiles' = RegularFiles /\ Dirs' = Dirs /\ Stored' = Stored
      /\ DiskBytes' = DiskBytes /\ Listing' = Listing /\ \A k : Shown(k)' = Shown(k)
  BY DiskKept
<1>3. Chains' = Chains /\ Contents' = Contents
  BY ChainsKept
<1>4. TypedOK'
  BY DEF TypedOK
<1>5. HandOK'
  BY <1>1 DEF HandOK, Walking
<1>6. OpenOK'
  <2>1. \A p, t : Opened(p, t)' = Opened(p, t)
    BY <1>3 DEF Opened
  <2>2. NextPath' = NextPath /\ NextTree' = NextTree
    BY DEF NextPath, NextTree, Last
  <2>. QED BY <2>1, <2>2 DEF OpenOK, Walking
<1>7. SoundOK'
  BY <1>1, <1>2, <1>3 DEF SoundOK, Intact
<1>8. CompleteOK'
  <2>1. \A c : Done(c)' = Done(c)
    BY <1>2 DEF Done
  <2>2. NextPath' = NextPath /\ NextTree' = NextTree
    BY DEF NextPath, NextTree, Last
  <2>3. \A c : Waits(c)' = Waits(c)
    BY <2>2 DEF Waits, WaitsAt, Through
  <2>. QED BY <1>3, <2>1, <2>3 DEF CompleteOK, Walking
<1>9. CountsOK'
  BY <1>1, <1>2 DEF CountsOK, Intact
<1>10. EvidenceOK'
  BY <1>2, <1>3 DEF EvidenceOK
<1>. QED BY <1>4, <1>5, <1>6, <1>7, <1>8, <1>9, <1>10

-----------------------------------------------------------------------------
(* The walk, step by step.                                                 *)

LEMMA CollectStateStep ==
  ASSUME IInv, CollectState
  PROVE  IInv'
<1> USE DEF IInv
<1>1. CASE head # Frozen
  BY <1>1, RefuseStep DEF CollectState
<1>2. CASE head = Frozen
  <2>1. /\ pc = "collect" /\ pc' = "enter" /\ stack = <<>> /\ disk = <<>>
        /\ UNCHANGED <<store, head, stack, pending, seen, files, bytes, trees, disk, evidence, tampers>>
    BY <1>2 DEF CollectState, counters, HandOK
  <2>2. NextPath' = <<>> /\ NextTree' = RootTree /\ DOMAIN disk' = {} /\ Walking' /\ Intact'
        /\ DOMAIN stack' = {} /\ Len(stack') = 0
    BY <2>1 DEF NextPath, NextTree, Walking, Intact
  <2>3. TypedOK'
    BY <2>1, TypedKept
  <2>4. HandOK'
    BY <2>1, <2>2 DEF HandOK
  <2>5. OpenOK'
    <3>1. Opened(<<>>, RootTree)'
      <4>1. <<>> \in Chains' /\ NamesOf(<<>>) = <<>> /\ TreeOf(<<>>, Len(<<>>) + 1) = RootTree
        BY <2>1, EmptyChain, ChainsKept
      <4>. QED BY <4>1 DEF Opened
    <3>2. Opened(NextPath, NextTree)'
      BY <2>2, <3>1 DEF Opened
    <3>. QED BY <2>2, <3>2 DEF OpenOK
  <2>6. SoundOK'
    BY <2>2 DEF SoundOK
  <2>7. CompleteOK'
    <3> SUFFICES ASSUME NEW c \in Chains' \ {<<>>} PROVE Waits(c)'
      BY DEF CompleteOK
    <3>1. c \in Chains
      BY <2>1, ChainsKept
    <3>2. Len(c) \in Nat /\ Len(c) # 0
      BY <3>1, ChainTyped, EmptySeq DEF TypedOK
    <3>3. Through(c, <<>>, RootTree)
      BY <3>2 DEF Through, TreeOf
    <3>. QED BY <2>1, <2>2, <3>3 DEF Waits, Through
  <2>8. CountsOK'
    <3>1. RegularFiles' = RegularFiles /\ Dirs' = Dirs /\ Stored' = Stored /\ DiskBytes' = DiskBytes
      BY <2>1, DiskKept
    <3>. QED BY <2>1, <2>2, <3>1 DEF CountsOK, Intact
  <2>9. EvidenceOK'
    BY <2>1 DEF EvidenceOK
  <2>. QED BY <2>3, <2>4, <2>5, <2>6, <2>7, <2>8, <2>9
<1>. QED BY <1>1, <1>2

LEMMA EnterTreeStep ==
  ASSUME IInv, EnterTree
  PROVE  IInv'
<1> USE DEF IInv
<1>1. CASE ~MayEnter
  BY <1>1, RefuseStep DEF EnterTree
<1>2. CASE MayEnter
  <2> DEFINE f == [tree |-> NextTree, path |-> NextPath, next |-> 1]
  <2>1. /\ pc = "enter" /\ pc' = "entry" /\ stack' = Append(stack, f) /\ trees' = trees + 1
        /\ Len(stack) <= MaxDepth /\ trees + 1 <= MaxFiles
        /\ UNCHANGED <<store, head, pending, seen, files, bytes, disk, evidence, tampers>>
    BY <1>2 DEF EnterTree, MayEnter
  <2>2. Opened(NextPath, NextTree) /\ Len(NextPath) = Len(stack)
    BY <2>1 DEF OpenOK
  <2>3. NextPath \in Seq(NodeNames) /\ NextTree \in Trees
    <3>1. PICK c \in Chains : /\ NextPath = NamesOf(c) /\ NextTree = TreeOf(c, Len(c) + 1)
                              /\ c # <<>> => Last(c).mode = "40000"
      BY <2>2 DEF Opened
    <3>. QED BY <3>1, ChainTyped DEF TypedOK
  <2>4. f \in Frames /\ f.path = NextPath /\ f.tree = NextTree /\ f.next = 1
    BY <2>3 DEF Frames
  <2> HIDE DEF f
  <2>5. stack \in Seq(Frames) /\ store \in Stores /\ Len(stack) \in Nat /\ DOMAIN stack = 1..Len(stack)
    BY LenProperties DEF TypedOK
  <2>6. /\ stack' \in Seq(Frames) /\ Len(stack') = Len(stack) + 1 /\ stack' # <<>>
        /\ DOMAIN stack' = 1..Len(stack) + 1 /\ stack'[Len(stack) + 1] = f
        /\ \A j \in DOMAIN stack : stack'[j] = stack[j]
    BY <2>1, <2>4, <2>5, AppendProperties, LenProperties
  <2>7. Walking /\ Walking' /\ Intact /\ Intact'
    BY <2>1 DEF Walking, Intact
  <2>8. TypedOK'
    BY <2>1, <2>6, Limits DEF TypedOK
  <2>9. HandOK'
    BY <2>1, <2>6, <2>7 DEF HandOK
  <2>10. OpenOK'
    <3> SUFFICES ASSUME NEW j \in DOMAIN stack'
                 PROVE  Opened(stack[j].path, stack[j].tree)' /\ Len(stack'[j].path) = j - 1
      BY <2>1 DEF OpenOK
    <3>1. \/ j \in DOMAIN stack /\ stack'[j] = stack[j]
          \/ j = Len(stack) + 1 /\ stack'[j] = f
      BY <2>5, <2>6
    <3>2. Opened(stack'[j].path, stack'[j].tree) /\ Len(stack'[j].path) = j - 1
      BY <2>2, <2>4, <2>5, <2>7, <3>1 DEF OpenOK
    <3>3. Chains' = Chains
      BY <2>1, ChainsKept
    <3>. QED BY <2>1, <3>2, <3>3 DEF Opened
  <2>11. SoundOK'
    BY <2>1, <2>7, SoundKept
  <2>12. CompleteOK'
    <3> SUFFICES ASSUME NEW c \in Chains' \ {<<>>} PROVE (Done(c) \/ Waits(c))'
      BY DEF CompleteOK
    <3>1. c \in Chains \ {<<>>}
      BY <2>1, ChainsKept
    <3>2. CASE Done(c)
      BY <2>1, <3>2 DEF Done, Shown
    <3>3. CASE \E j \in DOMAIN stack : WaitsAt(c, stack[j])
      <4>1. PICK j \in DOMAIN stack : WaitsAt(c, stack[j])
        BY <3>3
      <4>2. j \in DOMAIN stack' /\ stack'[j] = stack[j]
        BY <2>5, <2>6, <4>1
      <4>. QED BY <2>1, <4>1, <4>2 DEF Waits, WaitsAt, Through
    <3>4. CASE Through(c, NextPath, NextTree)
      <4>1. /\ Len(c) \in Nat /\ DOMAIN c = 1..Len(c) /\ Leads(c)
        BY <2>5, <3>1, ChainTyped
      <4>2. Len(NextPath) + 1 \in DOMAIN c
        BY <2>2, <2>5, <3>4, <4>1 DEF Through
      <4>3. c[Len(NextPath) + 1] \in Range(store[NextTree])
        BY <3>4, <4>1, <4>2 DEF Through, Leads
      <4>4. PICK m \in DOMAIN store[NextTree] : c[Len(NextPath) + 1] = store[NextTree][m]
        BY <4>3 DEF Range
      <4>5. m >= 1
        BY <2>3, <2>5, <4>4, StoreTyped
      <4>6. WaitsAt(c, f)
        BY <2>4, <3>4, <4>4, <4>5 DEF WaitsAt
      <4>7. Len(stack) + 1 \in DOMAIN stack' /\ stack'[Len(stack) + 1] = f
        BY <2>5, <2>6
      <4>. QED BY <2>1, <4>6, <4>7 DEF Waits, WaitsAt, Through
    <3>. QED BY <2>7, <3>1, <3>2, <3>3, <3>4 DEF CompleteOK, Waits
  <2>13. CountsOK'
    <3>1. RegularFiles' = RegularFiles /\ Dirs' = Dirs /\ Stored' = Stored /\ DiskBytes' = DiskBytes
      BY <2>1, DiskKept
    <3>2. trees \in Nat
      BY DEF TypedOK
    <3>3. Cardinality(Dirs) = trees /\ Cardinality(RegularFiles) = files - 0 /\ DiskBytes = bytes - 0
      BY <2>1, <2>7, <3>2 DEF CountsOK
    <3>. QED BY <2>1, <2>7, <3>1, <3>2, <3>3 DEF CountsOK
  <2>14. EvidenceOK'
    BY <2>1 DEF EvidenceOK
  <2>. QED BY <2>8, <2>9, <2>10, <2>11, <2>12, <2>13, <2>14
<1>. QED BY <1>1, <1>2

LEMMA TakeFileStep ==
  ASSUME IInv, TakeFile
  PROVE  IInv'
<1> USE DEF IInv
<1>1. /\ pc = "entry" /\ pc' = "create" /\ Top.next <= Len(Entries)
      /\ Entry.mode \in {"100644", "100755"} /\ WithinLimits
      /\ seen' = seen \cup {Key} /\ files' = files + 1 /\ bytes' = bytes + Size[Entry.id]
      /\ UNCHANGED <<store, head, stack, trees, disk, evidence, tampers>>
  BY DEF TakeFile, Key
<1>2. Walking /\ Walking' /\ Intact /\ Intact' /\ stack # <<>>
  BY <1>1 DEF Walking, Intact, HandOK
<1>3. Size[Entry.id] \in Nat
  BY <1>1, <1>2, EntryTyped
<1>4. /\ Top' = Top /\ Entries' = Entries /\ Entry' = Entry /\ EntryPath' = EntryPath
      /\ Key' = Key
  BY <1>1, HandKept
<1>5. TypedOK'
  <2>1. files' \in 0..MaxFiles /\ bytes' \in 0..MaxBytes
    <3>1. files \in Nat /\ bytes \in Nat
      BY ONLY TypedOK, Limits DEF TypedOK
    <3>. QED BY ONLY <1>1, <1>3, <3>1, Limits DEF WithinLimits
  <2>. QED BY ONLY TypedOK, <1>1, <2>1 DEF TypedOK
<1>6. HandOK'
  BY <1>1, <1>2, <1>4 DEF HandOK, WithinLimits
<1>7. OpenOK'
  BY <1>1, <1>2, OpenKept
<1>8. SoundOK'
  BY <1>1, <1>2, SoundKept
<1>9. CompleteOK'
  BY <1>1, <1>2, CompleteKept
<1>10. CountsOK'
  <2>1. RegularFiles' = RegularFiles /\ Dirs' = Dirs /\ Stored' = Stored /\ DiskBytes' = DiskBytes
    BY <1>1, DiskKept
  <2>2. files \in Nat /\ bytes \in Nat /\ trees \in Nat
    BY DEF TypedOK
  <2>3. Cardinality(Dirs) = trees - 1 /\ Cardinality(RegularFiles) = files /\ DiskBytes = bytes
    BY <1>1, <1>2, <2>2 DEF CountsOK
  <2>4. files' - 1 = files /\ bytes' - Size[Entry.id] = bytes /\ trees' = trees
    BY <1>1, <1>3, <2>2
  <2>. QED BY <1>1, <1>4, <2>1, <2>3, <2>4 DEF CountsOK
<1>11. EvidenceOK'
  BY <1>1 DEF EvidenceOK
<1>. QED BY <1>5, <1>6, <1>7, <1>8, <1>9, <1>10, <1>11

LEMMA LeaveTreeStep ==
  ASSUME IInv, LeaveTree
  PROVE  IInv'
<1> USE DEF IInv
<1>1. /\ pc = "entry" /\ Top.next > Len(Entries) /\ stack' = Front(stack)
      /\ pc' = IF Len(stack) = 1 THEN "hash" ELSE "entry"
      /\ UNCHANGED <<store, head, pending, seen, files, bytes, trees, disk, evidence, tampers>>
  BY DEF LeaveTree, counters
<1>2. Walking /\ Intact /\ Intact' /\ stack # <<>>
  BY <1>1, Zenon DEF Walking, Intact, HandOK
<1>3. /\ Top = stack[Len(stack)] /\ DOMAIN stack = 1..Len(stack) /\ Len(stack) \in Nat \ {0}
      /\ DOMAIN Entries = 1..Len(Entries) /\ Len(Entries) \in Nat /\ Top.next \in Nat \ {0}
  BY <1>2, TopTyped, Zenon
<1>4. /\ stack' \in Seq(Frames) /\ Len(stack') = Len(stack) - 1
      /\ DOMAIN stack' = 1..Len(stack) - 1
      /\ \A j \in 1..Len(stack) - 1 : stack'[j] = stack[j]
  <2>1. 1 \in 1..Len(stack) + 1 /\ Len(stack) - 1 \in 0..Len(stack) /\ stack \in Seq(Frames)
    BY <1>3 DEF TypedOK
  <2>2. /\ stack' \in Seq(Frames) /\ Len(stack') = Len(stack) - 1
        /\ \A j \in 1..Len(stack) - 1 : stack'[j] = stack[j]
    BY <1>1, <1>3, <2>1, SubSeqProperties DEF Front
  <2>. QED BY <2>2, LenProperties
<1>5. Len(stack) = 1 <=> stack' = <<>>
  BY <1>3, <1>4, EmptySeq
<1>6. TypedOK'
  <2>1. Len(stack') <= MaxDepth + 1
    BY <1>3, <1>4, Limits DEF TypedOK
  <2>2. pc' \in {"entry", "hash"}
    BY <1>1
  <2>. QED BY ONLY TypedOK, <1>1, <1>4, <2>1, <2>2 DEF TypedOK
<1>7. HandOK'
  BY <1>1, <1>2, <1>5 DEF HandOK, Walking
<1>8. OpenOK'
  <2> SUFFICES ASSUME NEW j \in DOMAIN stack'
               PROVE  Opened(stack[j].path, stack[j].tree)' /\ Len(stack'[j].path) = j - 1
    BY <1>1 DEF OpenOK
  <2>1. j \in DOMAIN stack /\ stack'[j] = stack[j]
    BY <1>3, <1>4
  <2>2. Opened(stack[j].path, stack[j].tree) /\ Len(stack[j].path) = j - 1
    BY <1>2, <2>1 DEF OpenOK
  <2>3. Chains' = Chains
    BY <1>1, ChainsKept
  <2>. QED BY <1>1, <2>1, <2>2, <2>3 DEF Opened
<1>9. SoundOK'
  BY <1>1, <1>2, SoundKept
<1>10. CompleteOK'
  <2> SUFFICES ASSUME NEW c \in Chains' \ {<<>>} PROVE (Done(c) \/ Waits(c))'
    BY DEF CompleteOK
  <2>1. c \in Chains \ {<<>>}
    BY <1>1, ChainsKept
  <2>2. Done(c) \/ \E j \in DOMAIN stack : WaitsAt(c, stack[j])
    BY <1>1, <1>2, <2>1 DEF CompleteOK, Waits
  <2>3. CASE Done(c)
    BY <1>1, <2>3 DEF Done, Shown
  <2>4. CASE \E j \in DOMAIN stack : WaitsAt(c, stack[j])
    <3>1. PICK j \in DOMAIN stack : WaitsAt(c, stack[j])
      BY <2>4
    <3>2. j # Len(stack)
      <4>1. ~WaitsAt(c, Top)
        BY <1>1, <1>3 DEF WaitsAt, Entries
      <4>. QED BY <1>3, <3>1, <4>1
    <3>3. j \in DOMAIN stack' /\ stack'[j] = stack[j]
      BY <1>3, <1>4, <3>1, <3>2
    <3>. QED BY <1>1, <3>1, <3>3 DEF Waits, WaitsAt, Through
  <2>. QED BY <2>2, <2>3, <2>4
<1>11. CountsOK'
  <2>1. RegularFiles' = RegularFiles /\ Dirs' = Dirs /\ Stored' = Stored /\ DiskBytes' = DiskBytes
    BY <1>1, DiskKept
  <2>. QED BY <1>1, <1>2, <2>1 DEF CountsOK
<1>12. EvidenceOK'
  BY <1>1 DEF EvidenceOK
<1>. QED BY <1>6, <1>7, <1>8, <1>9, <1>10, <1>11, <1>12

-----------------------------------------------------------------------------
(* The private tree grows.                                                 *)

LEMMA Added ==
  ASSUME disk \in [DOMAIN disk -> Nodes], IsFiniteSet(DOMAIN disk),
         NEW key, key \notin DOMAIN disk, NEW node \in Nodes, AddNode(key, node)
  PROVE  /\ DOMAIN disk' = DOMAIN disk \cup {key} /\ disk'[key] = node
         /\ \A k \in DOMAIN disk : k \in DOMAIN disk' /\ disk'[k] = disk[k] /\ Shown(k)' = Shown(k)
         /\ disk' \in [DOMAIN disk' -> Nodes] /\ IsFiniteSet(DOMAIN disk')
<1>1. DOMAIN disk' = DOMAIN disk \cup {key} /\ disk'[key] = node
  BY DEF AddNode
<1>2. \A k \in DOMAIN disk : k \in DOMAIN disk' /\ disk'[k] = disk[k]
  BY DEF AddNode
<1>3. \A k \in DOMAIN disk : Shown(k)' = Shown(k)
  BY <1>2 DEF Shown
<1>4. disk' \in [DOMAIN disk' -> Nodes]
  BY <1>1, <1>2 DEF AddNode
<1>5. IsFiniteSet(DOMAIN disk')
  BY <1>1, FS_AddElement
<1>. QED BY <1>1, <1>2, <1>3, <1>4, <1>5

LEMMA AddedDirectory ==
  ASSUME disk \in [DOMAIN disk -> Nodes], IsFiniteSet(DOMAIN disk),
         NEW key, key \notin DOMAIN disk, NEW node \in Nodes, AddNode(key, node),
         node.kind = "dir"
  PROVE  /\ RegularFiles' = RegularFiles /\ Cardinality(Dirs') = Cardinality(Dirs) + 1
         /\ Stored' = Stored /\ DiskBytes' = DiskBytes
<1>1. /\ DOMAIN disk' = DOMAIN disk \cup {key} /\ disk'[key] = node
      /\ \A k \in DOMAIN disk : disk'[k] = disk[k]
  BY Added
<1>2. RegularFiles' = RegularFiles
  BY <1>1 DEF RegularFiles
<1>3. Dirs' = Dirs \cup {key} /\ key \notin Dirs
  BY <1>1, <1>2 DEF Dirs, RegularFiles
<1>4. IsFiniteSet(Dirs)
  BY FS_Subset DEF Dirs
<1>5. Cardinality(Dirs') = Cardinality(Dirs) + 1
  BY <1>3, <1>4, FS_AddElement
<1>6. Stored' = Stored
  <2>1. \A k \in RegularFiles : disk'[k] = disk[k]
    BY <1>1 DEF RegularFiles
  <2>. QED BY <1>2, <2>1 DEF Stored
<1>7. DiskBytes' = DiskBytes
  BY <1>6 DEF DiskBytes
<1>. QED BY <1>2, <1>5, <1>6, <1>7

LEMMA AddedFile ==
  ASSUME disk \in [DOMAIN disk -> Nodes], IsFiniteSet(DOMAIN disk),
         NEW key, key \notin DOMAIN disk, NEW node \in Nodes, AddNode(key, node),
         node.kind = "file", node.data.size = 0
  PROVE  /\ RegularFiles' = RegularFiles \cup {key}
         /\ Cardinality(RegularFiles') = Cardinality(RegularFiles) + 1
         /\ Dirs' = Dirs /\ Stored' = Stored /\ DiskBytes' = DiskBytes
<1>1. /\ DOMAIN disk' = DOMAIN disk \cup {key} /\ disk'[key] = node
      /\ \A k \in DOMAIN disk : disk'[k] = disk[k]
  BY Added
<1>2. RegularFiles' = RegularFiles \cup {key} /\ key \notin RegularFiles
  BY <1>1 DEF RegularFiles
<1>3. Dirs' = Dirs
  BY <1>1, <1>2 DEF Dirs, RegularFiles
<1>4. IsFiniteSet(RegularFiles)
  BY FS_Subset DEF RegularFiles
<1>5. Cardinality(RegularFiles') = Cardinality(RegularFiles) + 1
  BY <1>2, <1>4, FS_AddElement
<1>6. Stored' = Stored
  <2>1. \A k \in RegularFiles : disk'[k] = disk[k]
    BY <1>1 DEF RegularFiles
  <2>2. {key} \X (1..disk'[key].data.size) = {}
    BY <1>1
  <2>. QED BY <1>2, <2>1, <2>2 DEF Stored
<1>7. DiskBytes' = DiskBytes
  BY <1>6 DEF DiskBytes
<1>. QED BY <1>2, <1>3, <1>5, <1>6, <1>7

(* A new directory or file gets the path that the entry has in the commit. *)
LEMMA SpelledAsWalked ==
  ASSUME TypedOK, OpenOK, Walking, stack # <<>>
  PROVE  Spelled(Entry.name) = EntryPath
BY TopTyped, Zenon DEF Spelled, EntryPath, Opened

(* The chain of the entry in hand.                                         *)
LEMMA EntryChain ==
  ASSUME TypedOK, OpenOK, Walking, stack # <<>>, Top.next <= Len(Entries)
  PROVE  \E c \in Chains \ {<<>>} :
           /\ Last(c) = Entry /\ NamesOf(c) = EntryPath /\ TreeOf(c, Len(c) + 1) = Entry.id
<1>1. /\ Len(stack) \in Nat \ {0} /\ Len(Top.path) = Len(stack) - 1 /\ Opened(Top.path, Top.tree)
  BY TopTyped, Zenon
<1>2. PICK c \in Chains : /\ Top.path = NamesOf(c) /\ Top.tree = TreeOf(c, Len(c) + 1)
                          /\ c # <<>> => Last(c).mode = "40000"
  BY <1>1 DEF Opened
<1>3. Len(c) = Len(stack) - 1 /\ store \in Stores
  BY <1>1, <1>2, ChainTyped DEF TypedOK
<1>4. Len(c) <= MaxDepth + 1 /\ Len(c) \in Nat
  BY <1>1, <1>3, Limits DEF TypedOK
<1>5. Entry \in Range(store[TreeOf(c, Len(c) + 1)])
  BY <1>2, EntryTyped
<1> DEFINE d == Append(c, Entry)
<1>6. /\ d \in Chains \ {<<>>} /\ Last(d) = Entry /\ Len(d) = Len(c) + 1
      /\ NamesOf(d) = Append(NamesOf(c), Entry.name) /\ TreeOf(d, Len(c) + 2) = Entry.id
  BY ONLY <1>2, <1>3, <1>4, <1>5, Extend
<1>7. NamesOf(d) = EntryPath
  BY <1>2, <1>6 DEF EntryPath
<1>8. Len(d) + 1 = Len(c) + 2
  BY <1>4, <1>6
<1>. QED BY <1>6, <1>7, <1>8, Zenon

LEMMA AdvancedFrames ==
  ASSUME TypedOK, OpenOK, Walking, stack # <<>>, Advance
  PROVE  /\ stack' \in Seq(Frames) /\ Len(stack') = Len(stack) /\ stack' # <<>>
         /\ DOMAIN stack' = DOMAIN stack /\ Last(stack').path = Top.path
         /\ \A j \in DOMAIN stack : stack'[j].path = stack[j].path /\ stack'[j].tree = stack[j].tree
<1>1. stack \in Seq(Frames)
  BY DEF TypedOK
<1>2. /\ stack' \in Seq(Frames) /\ Len(stack') = Len(stack) /\ stack' # <<>>
      /\ \A j \in 1..Len(stack) - 1 : stack'[j] = stack[j]
      /\ stack'[Len(stack)] = [tree |-> Top.tree, path |-> Top.path, next |-> Top.next + 1]
      /\ DOMAIN stack' = DOMAIN stack /\ Last(stack') = stack'[Len(stack)]
  BY ONLY <1>1, stack # <<>>, Advance, Advanced, Zenon
<1>3. Top = stack[Len(stack)] /\ DOMAIN stack = 1..Len(stack) /\ Len(stack) \in Nat \ {0}
  BY TopTyped, Zenon
<1>4. stack'[Len(stack)].path = Top.path /\ stack'[Len(stack)].tree = Top.tree
  BY ONLY <1>2
<1>5. \A j \in 1..Len(stack) : j \in 1..Len(stack) - 1 \/ j = Len(stack)
  <2>1. \A n \in Nat \ {0} : \A j \in 1..n : j \in 1..n - 1 \/ j = n
    OBVIOUS
  <2>. QED BY ONLY <1>3, <2>1, Zenon
<1>6. ASSUME NEW j \in DOMAIN stack
      PROVE  stack'[j].path = stack[j].path /\ stack'[j].tree = stack[j].tree
  BY ONLY <1>2, <1>3, <1>4, <1>5, <1>6, Zenon
<1>. QED BY ONLY <1>2, <1>4, <1>6, Zenon

(* A chain that waits at an open tree still waits once the walk has gone   *)
(* on, unless it goes through the entry just taken.                        *)
LEMMA StillWaits ==
  ASSUME TypedOK, OpenOK, Walking, stack # <<>>, Top.next <= Len(Entries), Advance,
         store' = store, NEW c, NEW j \in DOMAIN stack, WaitsAt(c, stack[j])
  PROVE  \/ Waits(c)'
         \/ c[Len(stack)] = Entry /\ Through(c, Top.path, Top.tree)
<1> DEFINE n == Len(stack)
           f == [tree |-> Top.tree, path |-> Top.path, next |-> Top.next + 1]
<1>1. /\ DOMAIN stack' = DOMAIN stack /\ \A i \in 1..n - 1 : stack'[i] = stack[i]
      /\ stack'[n] = f
  <2>1. stack \in Seq(Frames)
    BY Zenon DEF TypedOK
  <2>. QED BY ONLY <2>1, stack # <<>>, Advance, Advanced
<1>2. /\ Top = stack[n] /\ DOMAIN stack = 1..n /\ n \in Nat \ {0} /\ n \in DOMAIN stack
      /\ Len(Top.path) = n - 1 /\ Top.next \in Nat \ {0} /\ DOMAIN Entries = 1..Len(Entries)
  BY TopTyped, Zenon
<1>3. ASSUME NEW i \in DOMAIN stack, WaitsAt(c, stack'[i])
      PROVE  Waits(c)'
  BY <1>1, <1>3 DEF Waits, WaitsAt, Through
<1> HIDE DEF n, f
<1>4. CASE j # n
  <2>1. j \in 1..n - 1
    BY <1>2, <1>4
  <2>2. stack'[j] = stack[j]
    BY ONLY <1>1, <2>1
  <2>. QED BY <1>3, <2>2
<1>5. CASE j = n
  <2>1. Through(c, Top.path, Top.tree)
    BY <1>2, <1>5 DEF WaitsAt
  <2>2. PICK m \in DOMAIN Entries : m >= Top.next /\ c[Len(Top.path) + 1] = Entries[m]
    BY <1>2, <1>5 DEF WaitsAt, Entries
  <2>3. Len(Top.path) + 1 = n
    BY ONLY <1>2
  <2>4. CASE m = Top.next
    BY <2>1, <2>2, <2>3, <2>4 DEF Entry, n
  <2>5. CASE m # Top.next
    <3>1. m >= Top.next + 1
      BY ONLY <1>2, <2>2, <2>5
    <3>2. f.path = Top.path /\ f.tree = Top.tree /\ f.next = Top.next + 1
      BY DEF f
    <3>3. WaitsAt(c, f)
      BY ONLY <2>1, <2>2, <3>1, <3>2 DEF WaitsAt, Entries
    <3>. QED BY ONLY <1>1, <1>2, <1>3, <3>3
  <2>. QED BY <2>4, <2>5
<1>. QED BY <1>4, <1>5

LEMMA TakeDirectoryStep ==
  ASSUME IInv, TakeDirectory
  PROVE  IInv'
<1> USE DEF IInv
<1>0. PICK key, e, p : key = Key /\ e = Entry /\ p = EntryPath
  OBVIOUS
<1> DEFINE node == Node(p, "dir", TRUE, "none", 0)
<1>1. /\ pc = "entry" /\ pc' = "enter" /\ Top.next <= Len(Entries) /\ e.mode = "40000"
      /\ key \notin seen /\ seen' = seen \cup {key} /\ pending' = e /\ Advance
      /\ UNCHANGED <<store, head, files, bytes, trees, evidence, tampers>>
  BY <1>0 DEF TakeDirectory, Acceptable, Key, counters
<1>2. Walking /\ Walking' /\ Intact /\ Intact' /\ stack # <<>> /\ stack \in Seq(Frames)
  BY <1>1 DEF Walking, Intact, HandOK, TypedOK
<1>3. key \notin DOMAIN disk
  BY <1>1, <1>2 DEF HandOK
<1>4. AddNode(key, node)
  BY <1>0, <1>1, <1>2, <1>3, SpelledAsWalked DEF TakeDirectory, Key
<1>5. /\ p \in Seq(NodeNames) /\ Len(p) = Len(stack) /\ p # <<>>
      /\ Len(key) = Len(stack) /\ e.id \in Trees /\ key = Paths(p)
  BY <1>0, <1>1, <1>2, EntryTyped DEF Key
<1>6. /\ node \in Nodes /\ node.kind = "dir" /\ node.path = p /\ node.exec = TRUE
      /\ node.data = [blob |-> "none", size |-> 0]
  BY <1>5 DEF Node, Nodes, Data
<1> HIDE DEF node
<1>7. disk \in [DOMAIN disk -> Nodes] /\ IsFiniteSet(DOMAIN disk) /\ store \in Stores
  BY DEF TypedOK
<1>8. /\ DOMAIN disk' = DOMAIN disk \cup {key} /\ disk'[key] = node
      /\ \A k \in DOMAIN disk : k \in DOMAIN disk' /\ disk'[k] = disk[k] /\ Shown(k)' = Shown(k)
      /\ disk' \in [DOMAIN disk' -> Nodes] /\ IsFiniteSet(DOMAIN disk')
  BY ONLY <1>3, <1>4, <1>6, <1>7, Added, Zenon
<1>9. /\ stack' \in Seq(Frames) /\ Len(stack') = Len(stack) /\ stack' # <<>>
      /\ DOMAIN stack' = DOMAIN stack /\ Last(stack').path = Top.path
      /\ \A j \in DOMAIN stack : stack'[j].path = stack[j].path /\ stack'[j].tree = stack[j].tree
  BY <1>1, <1>2, AdvancedFrames
<1>10. Len(stack) \in Nat \ {0}
  BY <1>2, TopTyped, Zenon
<1>11. NextPath' = p /\ NextTree' = e.id
  BY <1>0, <1>1, <1>9 DEF NextPath, NextTree, EntryPath
<1>12. PICK d \in Chains \ {<<>>} :
         Last(d) = e /\ NamesOf(d) = p /\ TreeOf(d, Len(d) + 1) = e.id
  BY <1>0, <1>1, <1>2, EntryChain
<1>13. Chains' = Chains
  BY <1>1, ChainsKept
<1>14. Shown(key)' = [path |-> p, kind |-> "dir", exec |-> TRUE,
                     data |-> [blob |-> "none", size |-> 0]]
  BY <1>6, <1>8 DEF Shown
<1>15. \A c : Last(c) = e /\ NamesOf(c) = p => Item(c) = Shown(key)'
  BY <1>1, <1>14 DEF Item, NamesOf
<1>16. TypedOK'
  <2>1. Len(stack') <= MaxDepth + 1
    BY <1>9 DEF TypedOK
  <2>. QED BY ONLY TypedOK, <1>1, <1>8, <1>9, <2>1 DEF TypedOK
<1>17. HandOK'
  <2>1. DOMAIN disk' \subseteq seen'
    BY <1>1, <1>2, <1>8 DEF HandOK
  <2>. QED BY <1>1, <2>1 DEF HandOK
<1>18. OpenOK'
  <2>1. \A k \in DOMAIN disk : k \in DOMAIN disk' /\ disk'[k].path = disk[k].path
    BY <1>8
  <2>2. ASSUME NEW j \in DOMAIN stack'
        PROVE  Opened(stack[j].path, stack[j].tree)' /\ Len(stack'[j].path) = j - 1
    <3>1. stack'[j].path = stack[j].path /\ stack'[j].tree = stack[j].tree /\ j \in DOMAIN stack
      BY ONLY <1>9, <2>2
    <3>2. Opened(stack[j].path, stack[j].tree) /\ Len(stack[j].path) = j - 1
      BY <1>2, <3>1 DEF OpenOK
    <3>. QED BY <1>13, <2>1, <3>1, <3>2 DEF Opened
  <2>3. Opened(NextPath, NextTree)'
    <3>1. Paths(p) \in DOMAIN disk' /\ disk'[Paths(p)].path = p
      BY <1>5, <1>6, <1>8
    <3>2. Last(d).mode = "40000" /\ d \in Chains' /\ p = NamesOf(d) /\ e.id = TreeOf(d, Len(d) + 1)
      BY <1>1, <1>12, <1>13
    <3>. QED BY <1>11, <3>1, <3>2 DEF Opened
  <2>4. Len(NextPath') = Len(stack')
    BY <1>5, <1>9, <1>11
  <2>. QED BY <2>2, <2>3, <2>4 DEF OpenOK
<1>19. SoundOK'
  <2> SUFFICES ASSUME NEW k \in DOMAIN disk' PROVE (\E c \in Chains \ {<<>>} : Shown(k) = Item(c))'
    BY DEF SoundOK
  <2>1. CASE k = key
    BY <1>12, <1>13, <1>15, <2>1
  <2>2. CASE k \in DOMAIN disk
    BY <1>1, <1>2, <1>8, <1>13, <2>2 DEF SoundOK
  <2>. QED BY <1>8, <2>1, <2>2
<1>20. CompleteOK'
  <2> SUFFICES ASSUME NEW c \in Chains \ {<<>>} PROVE (Done(c) \/ Waits(c))'
    BY <1>13 DEF CompleteOK
  <2>1. Done(c) \/ \E j \in DOMAIN stack : WaitsAt(c, stack[j])
    BY <1>1, <1>2 DEF CompleteOK, Waits
  <2>2. CASE Done(c)
    BY <1>8, <2>2 DEF Done
  <2>3. CASE \E j \in DOMAIN stack : WaitsAt(c, stack[j])
    <3>1. PICK j \in DOMAIN stack : WaitsAt(c, stack[j])
      BY <2>3
    <3>2. Waits(c)' \/ (c[Len(stack)] = e /\ Through(c, Top.path, Top.tree))
      BY <1>0, <1>1, <1>2, <3>1, StillWaits
    <3>3. CASE c[Len(stack)] = e /\ Through(c, Top.path, Top.tree)
      <4>1. /\ Len(c) = Len(stack) => Last(c) = e /\ NamesOf(c) = p
            /\ Len(c) > Len(stack) => Through(c, p, e.id)
        BY <1>0, <1>1, <1>2, <3>3, AtEntry, Zenon
      <4>2. Len(c) \in Nat /\ Len(Top.path) < Len(c) /\ Len(Top.path) = Len(stack) - 1
        BY <1>2, <1>7, <3>3, ChainTyped, TopTyped, Zenon DEF Through
      <4>3. CASE Len(c) = Len(stack)
        BY <1>8, <1>15, <4>1, <4>3 DEF Done
      <4>4. CASE Len(c) > Len(stack)
        BY <1>1, <1>11, <4>1, <4>4 DEF Waits, Through
      <4>. QED BY <1>10, <4>2, <4>3, <4>4
    <3>. QED BY <3>2, <3>3
  <2>. QED BY <2>1, <2>2, <2>3
<1>21. CountsOK'
  <2>1. /\ RegularFiles' = RegularFiles /\ Cardinality(Dirs') = Cardinality(Dirs) + 1
        /\ Stored' = Stored /\ DiskBytes' = DiskBytes
    BY ONLY <1>3, <1>4, <1>6, <1>7, AddedDirectory
  <2>2. trees \in Nat /\ trees <= MaxFiles
    BY Limits DEF TypedOK
  <2>3. /\ Cardinality(Dirs) = trees - 1 /\ Cardinality(RegularFiles) = files - 0
        /\ DiskBytes = bytes - 0
    BY <1>1, <1>2 DEF CountsOK
  <2>4. Cardinality(Dirs') = trees - 0 /\ Cardinality(Dirs') <= MaxFiles
    BY <2>1, <2>2, <2>3
  <2>5. ASSUME tampers = 0, NEW k \in DOMAIN disk'
        PROVE  Len(k) <= MaxDepth + 1
    BY <1>5, <1>8, <2>5 DEF CountsOK, TypedOK
  <2>6. ASSUME tampers = 0, NEW k \in RegularFiles'
        PROVE  disk'[k].data.size <= MaxFileBytes
    BY <1>8, <2>1, <2>6 DEF CountsOK, RegularFiles
  <2>. QED BY <1>1, <2>1, <2>3, <2>4, <2>5, <2>6 DEF CountsOK
<1>22. EvidenceOK'
  BY <1>1 DEF EvidenceOK
<1>. QED BY <1>16, <1>17, <1>18, <1>19, <1>20, <1>21, <1>22

(* A file appears empty: no entry of the commit lists it yet.              *)
LEMMA CreateFileStep ==
  ASSUME IInv, CreateFile
  PROVE  IInv'
<1> USE DEF IInv
<1>0. PICK key, e, p : key = Key /\ e = Entry /\ p = EntryPath
  OBVIOUS
<1> DEFINE node == Node(p, "file", e.mode = "100755", e.id, 0)
<1>1. /\ pc = "create" /\ Walking /\ Intact /\ stack # <<>> /\ Top.next <= Len(Entries)
      /\ e.mode \in {"100644", "100755"} /\ Size[e.id] <= MaxFileBytes /\ key \in seen
  BY <1>0 DEF CreateFile, Walking, Intact, HandOK
<1>2. CASE key \in DOMAIN disk
  BY <1>0, <1>2, RefuseStep DEF CreateFile, Key
<1>3. CASE key \notin DOMAIN disk
  <2>1. /\ AddNode(key, node) /\ pc' = "write"
        /\ UNCHANGED <<store, head, stack, pending, seen, files, bytes, trees, evidence, tampers>>
    BY <1>0, <1>1, <1>3, SpelledAsWalked DEF CreateFile, Key, counters
  <2>2. Walking' /\ Intact'
    BY <2>1 DEF Walking, Intact
  <2>3. Top' = Top /\ Entries' = Entries /\ Entry' = e /\ EntryPath' = p /\ Key' = key
    BY <1>0, <2>1, HandKept
  <2>4. /\ p \in Seq(NodeNames) /\ Len(key) = Len(stack) /\ e.id \in DOMAIN Size
        /\ Size[e.id] \in Nat
    BY <1>0, <1>1, EntryTyped
  <2>5. node \in Nodes
    <3>1. (e.mode = "100755") \in BOOLEAN
      OBVIOUS
    <3>. QED BY <2>4, <3>1 DEF Node, Nodes, Data
  <2>6. /\ node.kind = "file" /\ node.path = p /\ node.exec = (e.mode = "100755")
        /\ node.data.blob = e.id /\ node.data.size = 0
    BY DEF Node
  <2> HIDE DEF node
  <2>7. disk \in [DOMAIN disk -> Nodes] /\ IsFiniteSet(DOMAIN disk)
    BY DEF TypedOK
  <2>8. /\ DOMAIN disk' = DOMAIN disk \cup {key} /\ disk'[key] = node
        /\ \A k \in DOMAIN disk : k \in DOMAIN disk' /\ disk'[k] = disk[k] /\ Shown(k)' = Shown(k)
        /\ disk' \in [DOMAIN disk' -> Nodes] /\ IsFiniteSet(DOMAIN disk')
    BY ONLY <1>3, <2>1, <2>5, <2>7, Added
  <2>9. TypedOK'
    BY ONLY TypedOK, <1>1, <2>1, <2>8 DEF TypedOK
  <2>10. HandOK'
    <3>1. DOMAIN disk' \subseteq seen'
      BY <1>1, <2>1, <2>8 DEF HandOK
    <3>2. disk'[key].path = p /\ disk'[key].kind = "file" /\ disk'[key].exec = (e.mode = "100755")
      BY <2>6, <2>8
    <3>3. disk'[key].data.blob = e.id /\ disk'[key].data.size <= Size[e.id]
      BY <2>4, <2>6, <2>8
    <3>. QED BY <1>1, <2>1, <2>3, <2>8, <3>1, <3>2, <3>3 DEF HandOK
  <2>11. OpenOK'
    BY <1>1, <2>1, <2>8, OpenKept
  <2>12. Chains' = Chains
    BY <2>1, ChainsKept
  <2>13. SoundOK'
    <3> SUFFICES ASSUME NEW k \in DOMAIN disk', k # key
                 PROVE  (\E c \in Chains \ {<<>>} : Shown(k) = Item(c))'
      BY <2>1, <2>3 DEF SoundOK
    <3>. QED BY <1>1, <2>8, <2>12 DEF SoundOK
  <2>14. CompleteOK'
    <3> SUFFICES ASSUME NEW c \in Chains \ {<<>>} PROVE (Done(c) \/ Waits(c))'
      BY <2>12 DEF CompleteOK
    <3>1. Done(c) \/ \E j \in DOMAIN stack : WaitsAt(c, stack[j])
      BY <1>1 DEF CompleteOK, Waits
    <3>2. CASE Done(c)
      BY <2>8, <3>2 DEF Done
    <3>3. CASE \E j \in DOMAIN stack : WaitsAt(c, stack[j])
      BY <2>1, <3>3 DEF Waits, WaitsAt, Through
    <3>. QED BY <3>1, <3>2, <3>3
  <2>15. CountsOK'
    <3>1. /\ RegularFiles' = RegularFiles \cup {key}
          /\ Cardinality(RegularFiles') = Cardinality(RegularFiles) + 1
          /\ Dirs' = Dirs /\ Stored' = Stored /\ DiskBytes' = DiskBytes
      BY ONLY <1>3, <2>1, <2>5, <2>6, <2>7, AddedFile
    <3>2. /\ Cardinality(RegularFiles) = files - 1 /\ Cardinality(Dirs) = trees - 1
          /\ DiskBytes = bytes - Size[e.id]
      BY <1>0, <1>1 DEF CountsOK
    <3>3. files \in Nat /\ files <= MaxFiles
      BY Limits DEF TypedOK
    <3>4. Cardinality(RegularFiles') = files - 0 /\ Cardinality(RegularFiles') <= MaxFiles
      BY <3>1, <3>2, <3>3
    <3>5. DiskBytes' = bytes - (Size[e.id] - disk'[key].data.size)
      BY <2>4, <2>6, <2>8, <3>1, <3>2
    <3>6. ASSUME tampers = 0, NEW k \in DOMAIN disk'
          PROVE  Len(k) <= MaxDepth + 1
      BY <2>4, <2>8, <3>6 DEF CountsOK, TypedOK
    <3>7. ASSUME tampers = 0, NEW k \in RegularFiles'
          PROVE  disk'[k].data.size <= MaxFileBytes
      <4>1. CASE k = key
        BY <2>6, <2>8, <4>1, Limits
      <4>2. CASE k # key
        BY <2>8, <3>1, <3>7, <4>2 DEF CountsOK, RegularFiles
      <4>. QED BY <4>1, <4>2
    <3>8. tampers' = 0 => /\ Cardinality(RegularFiles') <= MaxFiles
                          /\ Cardinality(Dirs') <= MaxFiles
                          /\ DiskBytes' <= MaxBytes /\ IsFiniteSet(Stored')
      BY <2>1, <3>1, <3>4 DEF CountsOK
    <3>. QED BY <2>1, <2>3, <3>1, <3>2, <3>4, <3>5, <3>6, <3>7, <3>8 DEF CountsOK
  <2>16. EvidenceOK'
    BY <2>1 DEF EvidenceOK
  <2>. QED BY <2>9, <2>10, <2>11, <2>13, <2>14, <2>15, <2>16
<1>. QED BY <1>2, <1>3

(* A file grows: only its own bytes are new.                               *)
LEMMA Grown ==
  ASSUME disk \in [DOMAIN disk -> Nodes], IsFiniteSet(Stored),
         NEW key \in RegularFiles, NEW n \in Nat,
         disk' = [disk EXCEPT ![key].data.size = @ + n]
  PROVE  /\ DOMAIN disk' = DOMAIN disk /\ disk' \in [DOMAIN disk' -> Nodes]
         /\ \A k \in DOMAIN disk \ {key} : disk'[k] = disk[k] /\ Shown(k)' = Shown(k)
         /\ disk'[key] = [disk[key] EXCEPT !.data.size = @ + n]
         /\ RegularFiles' = RegularFiles /\ Dirs' = Dirs
         /\ IsFiniteSet(Stored') /\ DiskBytes' = DiskBytes + n
<1> DEFINE s == disk[key].data.size
           new == {key} \X (s + 1 .. s + n)
<1>1. key \in DOMAIN disk /\ disk[key] \in Nodes /\ disk[key].kind = "file"
  BY DEF RegularFiles
<1>2. s \in Nat
  BY <1>1 DEF Nodes, Data
<1>3. /\ DOMAIN disk' = DOMAIN disk /\ disk'[key] = [disk[key] EXCEPT !.data.size = @ + n]
      /\ \A k \in DOMAIN disk \ {key} : disk'[k] = disk[k]
  BY <1>1
<1>4. /\ disk'[key] \in Nodes /\ disk'[key].kind = "file" /\ disk'[key].data.size = s + n
  <2> DEFINE d == disk[key]
             f == [d EXCEPT !.data.size = @ + n]
  <2>1. d \in Nodes /\ d.kind = "file" /\ d.data \in Data /\ d.data.size \in Nat
    BY <1>1 DEF Nodes, Data
  <2>2. f = [d EXCEPT !.data = [d.data EXCEPT !.size = @ + n]]
    BY <2>1 DEF Nodes, Data
  <2>3. [d.data EXCEPT !.size = @ + n] \in Data
    BY <2>1 DEF Data
  <2>4. f \in Nodes /\ f.kind = "file" /\ f.data.size = d.data.size + n
    BY <2>1, <2>2, <2>3 DEF Nodes, Data
  <2>. QED BY <1>3, <2>4
<1>5. disk' \in [DOMAIN disk' -> Nodes]
  <2>1. \A k \in DOMAIN disk' : disk'[k] \in Nodes
    BY <1>3, <1>4
  <2>2. disk' = [k \in DOMAIN disk' |-> disk'[k]]
    OBVIOUS
  <2>. QED BY ONLY <2>1, <2>2
<1>6. \A k \in DOMAIN disk \ {key} : Shown(k)' = Shown(k)
  BY <1>3 DEF Shown
<1>7. RegularFiles' = RegularFiles
  <2>1. \A k \in DOMAIN disk : disk'[k].kind = disk[k].kind
    BY <1>1, <1>3, <1>4
  <2>. QED BY <1>3, <2>1 DEF RegularFiles
<1>8. Dirs' = Dirs
  BY <1>3, <1>7 DEF Dirs
<1>9. Stored' = Stored \cup new
  <2>1. \A k \in RegularFiles : k # key => disk'[k].data.size = disk[k].data.size
    BY <1>3 DEF RegularFiles
  <2>2. 1..s + n = (1..s) \cup (s + 1 .. s + n)
    BY <1>2
  <2>3. {key} \X (1..disk'[key].data.size) = ({key} \X (1..s)) \cup new
    BY <1>4, <2>2
  <2> HIDE DEF s, new
  <2>4. \A x : x \in Stored' <=> \E k \in RegularFiles : x \in {k} \X (1..disk'[k].data.size)
    BY <1>7 DEF Stored
  <2>5. \A x : x \in Stored <=> \E k \in RegularFiles : x \in {k} \X (1..disk[k].data.size)
    BY DEF Stored
  <2>6. {key} \X (1..disk[key].data.size) = {key} \X (1..s)
    BY DEF s
  <2>7. ASSUME NEW x PROVE x \in Stored' <=> x \in Stored \cup new
    <3>1. ASSUME NEW k \in RegularFiles, k # key
          PROVE  {k} \X (1..disk'[k].data.size) = {k} \X (1..disk[k].data.size)
      BY <2>1, <3>1
    <3>. QED BY <2>3, <2>4, <2>5, <2>6, <3>1
  <2>. QED BY <2>7
<1>10. IsFiniteSet(new) /\ Cardinality(new) = n
  <2>1. IsFiniteSet(s + 1 .. s + n) /\ Cardinality(s + 1 .. s + n) = n
    <3>1. \A a, b \in Int : /\ IsFiniteSet(a..b)
                             /\ Cardinality(a..b) = IF a > b THEN 0 ELSE b - a + 1
      BY ONLY FS_Interval
    <3>2. \A i \in Nat : /\ IsFiniteSet(i + 1 .. i + n)
                          /\ Cardinality(i + 1 .. i + n) = n
      <4> TAKE i \in Nat
      <4>1. PICK a \in Int, b \in Int : a = i + 1 /\ b = i + n
        OBVIOUS
      <4>2. (IF a > b THEN 0 ELSE b - a + 1) = n
        BY <4>1
      <4>3. IsFiniteSet(a..b) /\ Cardinality(a..b) = n
        BY <3>1, <4>2
      <4>. QED BY <4>1, <4>3
    <3>. QED BY ONLY <1>2, <3>2, Zenon
  <2>2. IsFiniteSet({key}) /\ Cardinality({key}) = 1
    BY FS_Singleton
  <2> HIDE DEF s
  <2>3. IsFiniteSet(new) /\ Cardinality(new) = 1 * n
    <3>1. /\ IsFiniteSet({key} \X (s + 1 .. s + n))
          /\ Cardinality({key} \X (s + 1 .. s + n))
               = Cardinality({key}) * Cardinality(s + 1 .. s + n)
      BY ONLY <2>1, <2>2, FS_Product, Zenon
    <3>. QED BY ONLY <2>1, <2>2, <3>1, Zenon DEF new
  <2>4. 1 * n = n
    OBVIOUS
  <2>. QED BY ONLY <2>3, <2>4, Zenon
<1>11. Stored \cap new = {}
  <2>1. \A x \in Stored : \E k \in RegularFiles : x \in {k} \X (1..disk[k].data.size)
    BY DEF Stored
  <2>2. ASSUME NEW x \in Stored, x \in new PROVE FALSE
    BY <1>2, <2>1, <2>2
  <2>. QED BY <2>2
<1> HIDE DEF s, new
<1>12. IsFiniteSet(Stored') /\ Cardinality(Stored') = Cardinality(Stored) + n
  <2>1. Stored \cap new = {} /\ Cardinality({}) = 0
    BY <1>11, FS_EmptySet
  <2>2. Cardinality(Stored) \in Nat
    BY FS_CardinalityType
  <2>. QED BY <1>9, <1>10, <2>1, <2>2, FS_Union
<1>. QED BY <1>3, <1>5, <1>6, <1>7, <1>8, <1>12 DEF DiskBytes

LEMMA WriteMore ==
  ASSUME IInv, pc = "write", pc' = pc, NEW n \in Nat, n <= Size[Entry.id] - disk[Key].data.size,
         disk' = [disk EXCEPT ![Key].data.size = @ + n],
         UNCHANGED <<store, head, stack, pending, seen, files, bytes, trees, evidence, tampers>>
  PROVE  IInv'
<1> USE DEF IInv
<1>0. PICK key, e, p : key = Key /\ e = Entry /\ p = EntryPath
  OBVIOUS
<1>1. /\ Walking /\ Walking' /\ Intact /\ Intact' /\ stack # <<>> /\ Top.next <= Len(Entries)
      /\ e.mode \in {"100644", "100755"} /\ Size[e.id] <= MaxFileBytes /\ key \in seen
      /\ key \in DOMAIN disk /\ disk[key].kind = "file" /\ disk[key].path = p
      /\ disk[key].exec = (e.mode = "100755")
      /\ disk[key].data.blob = e.id /\ disk[key].data.size <= Size[e.id]
      /\ DOMAIN disk \subseteq seen
  BY <1>0 DEF Walking, Intact, HandOK
<1>2. Top' = Top /\ Entries' = Entries /\ Entry' = e /\ EntryPath' = p /\ Key' = key
  BY <1>0, HandKept
<1>3. Size[e.id] \in Nat
  BY <1>0, <1>1, EntryTyped
<1>4. disk \in [DOMAIN disk -> Nodes] /\ IsFiniteSet(DOMAIN disk) /\ tampers = 0
  BY DEF TypedOK
<1>5. key \in RegularFiles /\ disk[key] \in Nodes /\ IsFiniteSet(Stored)
  BY <1>1, <1>4 DEF RegularFiles, CountsOK
<1>6. disk' = [disk EXCEPT ![key].data.size = @ + n]
  BY <1>0
<1>7. /\ DOMAIN disk' = DOMAIN disk /\ disk' \in [DOMAIN disk' -> Nodes]
      /\ \A k \in DOMAIN disk \ {key} : disk'[k] = disk[k] /\ Shown(k)' = Shown(k)
      /\ disk'[key] = [disk[key] EXCEPT !.data.size = @ + n]
      /\ RegularFiles' = RegularFiles /\ Dirs' = Dirs
      /\ IsFiniteSet(Stored') /\ DiskBytes' = DiskBytes + n
  BY ONLY <1>4, <1>5, <1>6, n \in Nat, Grown
<1>8. disk[key].data \in Data /\ disk[key].data.size \in Nat
  BY <1>5 DEF Nodes, Data
<1>9. /\ disk'[key].kind = disk[key].kind /\ disk'[key].path = disk[key].path
      /\ disk'[key].exec = disk[key].exec /\ disk'[key].data.blob = disk[key].data.blob
      /\ disk'[key].data.size = disk[key].data.size + n
  BY <1>5, <1>7, <1>8 DEF Nodes, Data
<1>10. disk'[key].data.size <= Size[e.id]
  BY <1>0, <1>3, <1>8, <1>9
<1>11. Chains' = Chains
  BY ChainsKept
<1>12. TypedOK'
  BY ONLY TypedOK, <1>4, <1>7, pc' = pc, UNCHANGED <<store, head, stack, files, bytes,
     trees, tampers>>
     DEF TypedOK
<1>13. HandOK'
  BY <1>1, <1>2, <1>7, <1>9, <1>10 DEF HandOK
<1>14. OpenOK'
  <2>1. \A k \in DOMAIN disk : k \in DOMAIN disk' /\ disk'[k].path = disk[k].path
    BY <1>7, <1>9
  <2>. QED BY <1>1, <2>1, OpenKept
<1>15. SoundOK'
  <2> SUFFICES ASSUME NEW k \in DOMAIN disk', k # key
               PROVE  (\E c \in Chains \ {<<>>} : Shown(k) = Item(c))'
    BY <1>2 DEF SoundOK
  <2>. QED BY <1>0, <1>1, <1>7, <1>11 DEF SoundOK
<1>16. CompleteOK'
  <2> SUFFICES ASSUME NEW c \in Chains \ {<<>>} PROVE (Done(c) \/ Waits(c))'
    BY <1>11 DEF CompleteOK
  <2>1. Done(c) \/ \E j \in DOMAIN stack : WaitsAt(c, stack[j])
    BY <1>1 DEF CompleteOK, Waits
  <2>2. CASE \E j \in DOMAIN stack : WaitsAt(c, stack[j])
    BY <2>2 DEF Waits, WaitsAt, Through
  <2>3. CASE Done(c)
    <3>1. PICK k \in DOMAIN disk : Shown(k) = Item(c)
      BY <2>3 DEF Done
    <3>2. CASE k # key
      BY <1>7, <3>1, <3>2 DEF Done
    <3>3. CASE k = key
      <4>1. /\ disk[key].kind = Item(c).kind /\ disk[key].data = Item(c).data
        BY <3>1, <3>3 DEF Shown
      <4>2. Last(c).mode # "40000"
        BY <1>1, <4>1 DEF Item
      <4>3. disk[key].data = [blob |-> Last(c).id, size |-> Size[Last(c).id]]
        BY <4>1, <4>2 DEF Item
      <4>4. disk[key].data.size = Size[e.id]
        BY <1>1, <4>3
      <4>5. n = 0
        BY <1>0, <1>3, <4>4
      <4>6. disk'[key].data = disk[key].data
        BY <1>5, <1>7, <1>8, <4>5 DEF Nodes, Data
      <4>7. Shown(key)' = Shown(key)
        BY <1>9, <4>6 DEF Shown
      <4>. QED BY <1>7, <3>1, <3>3, <4>7 DEF Done
    <3>. QED BY <3>2, <3>3
  <2>. QED BY <2>1, <2>2, <2>3
<1>17. CountsOK'
  <2>1. /\ Cardinality(RegularFiles) = files - 0 /\ Cardinality(Dirs) = trees - 1
        /\ DiskBytes = bytes - (Size[e.id] - disk[key].data.size)
    BY <1>0, <1>1 DEF CountsOK
  <2>2. bytes \in Nat /\ bytes <= MaxBytes
    BY Limits DEF TypedOK
  <2>3. DiskBytes' = bytes - (Size[e.id] - disk'[key].data.size)
    BY <1>3, <1>7, <1>8, <1>9, <2>1, <2>2
  <2>4. DiskBytes' <= MaxBytes
    BY <1>3, <1>8, <1>9, <1>10, <2>2, <2>3, Limits
  <2>5. ASSUME NEW k \in RegularFiles'
        PROVE  disk'[k].data.size <= MaxFileBytes
    <3>1. CASE k = key
      BY <1>1, <1>3, <1>8, <1>9, <1>10, <3>1, Limits
    <3>2. CASE k # key
      BY <1>4, <1>7, <2>5, <3>2 DEF CountsOK, RegularFiles
    <3>. QED BY <3>1, <3>2
  <2>6. /\ Cardinality(RegularFiles) <= MaxFiles /\ Cardinality(Dirs) <= MaxFiles
        /\ \A k \in DOMAIN disk : Len(k) <= MaxDepth + 1
    BY <1>4 DEF CountsOK
  <2>. QED BY <1>2, <1>7, <2>1, <2>3, <2>4, <2>5, <2>6 DEF CountsOK
<1>18. EvidenceOK'
  BY DEF EvidenceOK
<1>. QED BY <1>12, <1>13, <1>14, <1>15, <1>16, <1>17, <1>18

(* A file is whole: from here on the entry lists it.                       *)
LEMMA WriteEnds ==
  ASSUME IInv, pc = "write", pc' = "entry", Written, Advance,
         UNCHANGED <<store, head, pending, seen, files, bytes, trees, disk, evidence, tampers>>
  PROVE  IInv'
<1> USE DEF IInv
<1>0. PICK key, e, p : key = Key /\ e = Entry /\ p = EntryPath
  OBVIOUS
<1>1. /\ Walking /\ Walking' /\ Intact /\ Intact' /\ stack # <<>> /\ Top.next <= Len(Entries)
      /\ e.mode \in {"100644", "100755"}
      /\ key \in DOMAIN disk /\ disk[key].kind = "file" /\ disk[key].path = p
      /\ disk[key].exec = (e.mode = "100755")
      /\ disk[key].data.blob = e.id /\ disk[key].data.size = Size[e.id]
      /\ DOMAIN disk \subseteq seen
  BY <1>0 DEF Walking, Intact, HandOK, Written, Key
<1>2. Size[e.id] \in Nat
  BY <1>0, <1>1, EntryTyped
<1>3. disk[key] \in Nodes /\ store \in Stores
  BY <1>1 DEF TypedOK
<1>4. disk[key].data \in Data
  BY <1>3 DEF Nodes
<1>5. disk[key].data = [blob |-> e.id, size |-> Size[e.id]]
  BY <1>1, <1>4 DEF Data
<1>6. Shown(key) = [path |-> p, kind |-> "file", exec |-> e.mode = "100755",
                   data |-> [blob |-> e.id, size |-> Size[e.id]]]
  BY <1>1, <1>5 DEF Shown
<1>7. \A c : Last(c) = e /\ NamesOf(c) = p => Item(c) = Shown(key)
  <2>1. e.mode # "40000" /\ (e.mode \in {"40000", "100755"}) = (e.mode = "100755")
    BY <1>1
  <2>. QED BY <1>6, <2>1 DEF Item, NamesOf
<1>8. PICK d \in Chains \ {<<>>} : Last(d) = e /\ NamesOf(d) = p
  BY <1>0, <1>1, EntryChain
<1>9. /\ stack' \in Seq(Frames) /\ Len(stack') = Len(stack) /\ stack' # <<>>
      /\ DOMAIN stack' = DOMAIN stack /\ Last(stack').path = Top.path
      /\ \A j \in DOMAIN stack : stack'[j].path = stack[j].path /\ stack'[j].tree = stack[j].tree
  BY <1>1, AdvancedFrames
<1>10. Chains' = Chains
  BY ChainsKept
<1>11. /\ RegularFiles' = RegularFiles /\ Dirs' = Dirs /\ Stored' = Stored
       /\ DiskBytes' = DiskBytes /\ \A k : Shown(k)' = Shown(k)
  BY DiskKept
<1>12. TypedOK'
  <2>1. Len(stack') <= MaxDepth + 1
    BY <1>9 DEF TypedOK
  <2>. QED BY ONLY TypedOK, <1>9, <2>1, pc = "write", pc' = "entry",
               UNCHANGED <<store, head, files, bytes, trees, disk, tampers>> DEF TypedOK
<1>13. HandOK'
  BY <1>1, <1>9 DEF HandOK
<1>14. OpenOK'
  <2>1. ASSUME NEW j \in DOMAIN stack'
        PROVE  Opened(stack[j].path, stack[j].tree)' /\ Len(stack'[j].path) = j - 1
    <3>1. stack'[j].path = stack[j].path /\ stack'[j].tree = stack[j].tree /\ j \in DOMAIN stack
      BY ONLY <1>9, <2>1
    <3>2. Opened(stack[j].path, stack[j].tree) /\ Len(stack[j].path) = j - 1
      BY <1>1, <3>1 DEF OpenOK
    <3>. QED BY <1>10, <3>1, <3>2 DEF Opened
  <2>. QED BY <2>1 DEF OpenOK
<1>15. SoundOK'
  <2> SUFFICES ASSUME NEW k \in DOMAIN disk PROVE \E c \in Chains \ {<<>>} : Shown(k) = Item(c)
    BY <1>10, <1>11 DEF SoundOK
  <2>. QED BY <1>0, <1>1, <1>7, <1>8 DEF SoundOK
<1>16. CompleteOK'
  <2> SUFFICES ASSUME NEW c \in Chains \ {<<>>} PROVE Done(c) \/ Waits(c)'
    BY <1>10, <1>11 DEF CompleteOK, Done
  <2>1. Done(c) \/ \E j \in DOMAIN stack : WaitsAt(c, stack[j])
    BY <1>1 DEF CompleteOK, Waits
  <2>2. ASSUME NEW j \in DOMAIN stack, WaitsAt(c, stack[j])
        PROVE  Done(c) \/ Waits(c)'
    <3>1. Waits(c)' \/ (c[Len(stack)] = e /\ Through(c, Top.path, Top.tree))
      BY <1>0, <1>1, <2>2, StillWaits
    <3>2. CASE c[Len(stack)] = e /\ Through(c, Top.path, Top.tree)
      <4>1. /\ Len(c) = Len(stack) => Last(c) = e /\ NamesOf(c) = p
            /\ Len(c) > Len(stack) => e.mode = "40000"
        BY <1>0, <1>1, <3>2, AtEntry, Zenon
      <4>2. /\ Len(c) \in Nat /\ Len(Top.path) < Len(c) /\ Len(Top.path) = Len(stack) - 1
            /\ Len(stack) \in Nat
        BY <1>1, <1>3, <3>2, ChainTyped, TopTyped, Zenon DEF Through
      <4>3. Len(c) = Len(stack)
        BY <1>1, <4>1, <4>2
      <4>. QED BY <1>1, <1>7, <4>1, <4>3 DEF Done
    <3>. QED BY <3>1, <3>2
  <2>. QED BY <2>1, <2>2
<1>17. CountsOK'
  <2>1. DiskBytes = bytes - (Size[e.id] - disk[key].data.size)
    BY <1>0, <1>1 DEF CountsOK
  <2>2. bytes \in Nat
    BY Limits DEF TypedOK
  <2>3. DiskBytes = bytes - 0
    BY <1>1, <1>2, <2>1, <2>2
  <2>4. Cardinality(RegularFiles) = files - 0 /\ Cardinality(Dirs) = trees - 1
    BY <1>1 DEF CountsOK
  <2>. QED BY <1>11, <2>3, <2>4 DEF CountsOK
<1>18. EvidenceOK'
  BY DEF EvidenceOK
<1>. QED BY <1>12, <1>13, <1>14, <1>15, <1>16, <1>17, <1>18

LEMMA WriteFileStep ==
  ASSUME IInv, WriteFile
  PROVE  IInv'
<1>1. CASE Refuse
  BY <1>1, RefuseStep
<1>2. CASE Written /\ pc' = "entry" /\ Advance
           /\ UNCHANGED <<store, head, pending, seen, counters, disk, evidence, tampers>>
  BY <1>2, WriteEnds DEF WriteFile, counters
<1>3. CASE \E n \in 1..Size[Entry.id] - disk[Key].data.size :
             /\ disk' = [disk EXCEPT ![Key].data.size = @ + n]
             /\ UNCHANGED <<store, head, pc, stack, pending, seen, counters, evidence, tampers>>
  <2>1. PICK n \in 1..Size[Entry.id] - disk[Key].data.size :
             /\ disk' = [disk EXCEPT ![Key].data.size = @ + n]
             /\ UNCHANGED <<store, head, pc, stack, pending, seen, counters, evidence, tampers>>
    BY <1>3
  <2>2. Size[Entry.id] \in Nat /\ disk[Key].data.size \in Nat
    <3>1. /\ TypedOK /\ OpenOK /\ Walking /\ stack # <<>> /\ Top.next <= Len(Entries)
          /\ Entry.mode \in {"100644", "100755"} /\ Key \in DOMAIN disk
      BY DEF WriteFile, IInv, HandOK, Walking
    <3>2. disk[Key] \in Nodes
      BY <3>1 DEF TypedOK
    <3>. QED BY <3>1, <3>2, EntryTyped DEF Nodes, Data
  <2>3. n \in Nat /\ n <= Size[Entry.id] - disk[Key].data.size
    BY <2>2
  <2>. QED BY <2>1, <2>3, WriteMore DEF WriteFile, counters
<1>. QED BY <1>1, <1>2, <1>3 DEF WriteFile, Key

-----------------------------------------------------------------------------
(* The end of the walk: what is on disk is what the chains lead to.        *)

LEMMA WholeCommit ==
  ASSUME IInv, pc = "hash"
  PROVE  /\ Listing = Contents /\ Cardinality(RegularFiles) = files /\ DiskBytes = bytes
         /\ stack = <<>> /\ tampers = 0
<1> USE DEF IInv
<1>1. stack = <<>> /\ Intact /\ tampers = 0
  BY DEF HandOK, TypedOK, Intact
<1>2. DOMAIN stack = {}
  BY <1>1
<1>3. \A k \in DOMAIN disk : \E c \in Chains \ {<<>>} : Shown(k) = Item(c)
  BY <1>1 DEF SoundOK
<1>4. \A c \in Chains \ {<<>>} : \E k \in DOMAIN disk : Shown(k) = Item(c)
  BY <1>2 DEF CompleteOK, Waits, Done
<1>5. Listing = {Shown(k) : k \in DOMAIN disk}
  BY DEF Listing, Shown
<1>6. Listing = Contents
  BY ONLY <1>3, <1>4, <1>5 DEF Contents
<1>7. Cardinality(RegularFiles) = files - 0 /\ DiskBytes = bytes - 0 /\ files \in Nat /\ bytes \in Nat
  BY <1>1, Limits DEF CountsOK, TypedOK
<1>. QED BY <1>1, <1>6, <1>7

LEMMA PublishStep ==
  ASSUME IInv, Publish
  PROVE  IInv'
<1> USE DEF IInv
<1>1. /\ pc = "hash" /\ pc' = "published" /\ ~Intact' /\ ~Walking'
      /\ evidence'.files = files /\ evidence'.bytes = bytes
      /\ disk' = [k \in DOMAIN disk |-> [disk[k] EXCEPT !.mode = "read_only"]]
      /\ UNCHANGED <<store, head, stack, pending, seen, files, bytes, trees, tampers>>
  BY DEF Publish, Intact, Walking, counters
<1>2. /\ Listing = Contents /\ Cardinality(RegularFiles) = files /\ DiskBytes = bytes
      /\ stack = <<>> /\ tampers = 0
  BY <1>1, WholeCommit
<1>3. Contents' = Contents
  BY <1>1, ChainsKept
<1>4. disk \in [DOMAIN disk -> Nodes] /\ DOMAIN disk' = DOMAIN disk
  BY <1>1 DEF TypedOK
<1>5. ASSUME NEW k \in DOMAIN disk
      PROVE  /\ disk'[k] \in Nodes /\ disk'[k].path = disk[k].path /\ disk'[k].kind = disk[k].kind
             /\ disk'[k].exec = disk[k].exec /\ disk'[k].data = disk[k].data
  <2>1. disk[k] \in Nodes /\ disk'[k] = [disk[k] EXCEPT !.mode = "read_only"]
    BY <1>1, <1>4
  <2>. QED BY <2>1 DEF Nodes
<1>6. disk' \in [DOMAIN disk' -> Nodes]
  BY <1>1, <1>4, <1>5
<1>7. Listing' = Listing
  <2>1. \A k \in DOMAIN disk : Shown(k)' = Shown(k)
    BY <1>5 DEF Shown
  <2>2. Listing = {Shown(k) : k \in DOMAIN disk} /\ Listing' = {Shown(k)' : k \in DOMAIN disk'}
    BY DEF Listing, Shown
  <2>. QED BY <1>4, <2>1, <2>2
<1>8. RegularFiles' = RegularFiles
  BY <1>4, <1>5 DEF RegularFiles
<1>9. Dirs' = Dirs
  BY <1>4, <1>8 DEF Dirs
<1>10. Stored' = Stored
  <2>1. \A k \in RegularFiles : disk'[k].data = disk[k].data
    BY <1>5 DEF RegularFiles
  <2>. QED BY <1>8, <2>1 DEF Stored
<1>11. DiskBytes' = DiskBytes
  BY <1>10 DEF DiskBytes
<1>12. TypedOK'
  BY ONLY TypedOK, <1>1, <1>4, <1>6 DEF TypedOK
<1>13. HandOK' /\ OpenOK' /\ SoundOK' /\ CompleteOK'
  BY <1>1 DEF HandOK, OpenOK, SoundOK, CompleteOK
<1>14. CountsOK'
  <2>1. \A k \in RegularFiles : disk'[k].data.size = disk[k].data.size
    BY <1>5 DEF RegularFiles
  <2>. QED BY <1>1, <1>2, <1>4, <1>8, <1>9, <1>10, <1>11, <2>1 DEF CountsOK
<1>15. EvidenceOK'
  BY <1>1, <1>2, <1>3, <1>7, <1>8, <1>11 DEF EvidenceOK
<1>. QED BY <1>12, <1>13, <1>14, <1>15

LEMMA Tampered ==
  ASSUME TypedOK, Tamper
  PROVE  disk' \in [DOMAIN disk' -> Nodes] /\ IsFiniteSet(DOMAIN disk')
<1>1. disk \in [DOMAIN disk -> Nodes] /\ IsFiniteSet(DOMAIN disk)
  BY DEF TypedOK
<1>2. \A b \in DOMAIN Size : [blob |-> b, size |-> Size[b]] \in Data
  BY RepositorySnapshotAssumption DEF Data
<1>3. ASSUME NEW k \in DOMAIN disk, NEW n \in Nodes, disk' = [disk EXCEPT ![k] = n]
      PROVE  disk' \in [DOMAIN disk' -> Nodes] /\ IsFiniteSet(DOMAIN disk')
  BY <1>1, <1>3
<1>4. ASSUME NEW k \in RegularFiles, NEW b \in DOMAIN Size,
             disk' = [disk EXCEPT ![k].data = [blob |-> b, size |-> Size[b]]]
      PROVE  disk' \in [DOMAIN disk' -> Nodes] /\ IsFiniteSet(DOMAIN disk')
  <2>1. k \in DOMAIN disk /\ disk[k] \in Nodes
    BY <1>1 DEF RegularFiles
  <2>2. [disk[k] EXCEPT !.data = [blob |-> b, size |-> Size[b]]] \in Nodes
    BY <1>2, <2>1 DEF Nodes
  <2>. QED BY <1>3, <1>4, <2>1, <2>2
<1>5. ASSUME NEW k \in DOMAIN disk, disk' = [disk EXCEPT ![k].mode = "private"]
      PROVE  disk' \in [DOMAIN disk' -> Nodes] /\ IsFiniteSet(DOMAIN disk')
  <2>1. [disk[k] EXCEPT !.mode = "private"] \in Nodes
    BY <1>1 DEF Nodes
  <2>. QED BY <1>3, <1>5, <2>1
<1>6. ASSUME NEW k \in DOMAIN disk, disk' = [disk EXCEPT ![k].kind = "link"]
      PROVE  disk' \in [DOMAIN disk' -> Nodes] /\ IsFiniteSet(DOMAIN disk')
  <2>1. [disk[k] EXCEPT !.kind = "link"] \in Nodes
    BY <1>1 DEF Nodes
  <2>. QED BY <1>3, <1>6, <2>1
<1>7. ASSUME NEW k \in RegularFiles, disk' = [disk EXCEPT ![k].exec = ~@]
      PROVE  disk' \in [DOMAIN disk' -> Nodes] /\ IsFiniteSet(DOMAIN disk')
  <2>1. k \in DOMAIN disk /\ disk[k] \in Nodes
    BY <1>1 DEF RegularFiles
  <2>2. (~disk[k].exec) \in BOOLEAN
    OBVIOUS
  <2>3. [disk[k] EXCEPT !.exec = ~@] \in Nodes
    BY <2>1, <2>2 DEF Nodes
  <2>. QED BY <1>3, <1>7, <2>1, <2>3
<1>8. ASSUME NEW k \in DOMAIN disk, disk' = [i \in DOMAIN disk \ Below(k) |-> disk[i]]
      PROVE  disk' \in [DOMAIN disk' -> Nodes] /\ IsFiniteSet(DOMAIN disk')
  <2>1. DOMAIN disk' = DOMAIN disk \ Below(k)
    BY <1>8
  <2>2. disk' \in [DOMAIN disk' -> Nodes]
    BY <1>1, <1>8, <2>1
  <2>. QED BY <1>1, <2>1, <2>2, FS_Subset
<1>9. ASSUME NEW name \in DOMAIN Fold, NEW b \in DOMAIN Size, <<Fold[name]>> \notin DOMAIN disk,
             AddNode(<<Fold[name]>>,
               [Node(<<name>>, "file", FALSE, b, Size[b]) EXCEPT !.mode = "read_only"])
      PROVE  disk' \in [DOMAIN disk' -> Nodes] /\ IsFiniteSet(DOMAIN disk')
  <2> DEFINE node == [Node(<<name>>, "file", FALSE, b, Size[b]) EXCEPT !.mode = "read_only"]
             key  == <<Fold[name]>>
  <2>1. <<name>> \in Seq(NodeNames)
    BY DEF NodeNames
  <2>2. node \in Nodes
    BY <1>2, <2>1 DEF Node, Nodes
  <2>3. key \notin DOMAIN disk /\ AddNode(key, node)
    BY <1>9
  <2> HIDE DEF node, key
  <2>. QED BY ONLY <1>1, <2>2, <2>3, Added
<1>. QED BY <1>4, <1>5, <1>6, <1>7, <1>8, <1>9 DEF Tamper

LEMMA TamperStep ==
  ASSUME IInv, Tamper
  PROVE  IInv'
<1>1. /\ pc \in {"published", "counted", "reading"} /\ pc' = pc /\ tampers' = tampers + 1
      /\ tampers < MaxTampers /\ ~Intact' /\ ~Walking' /\ pc' # "hash"
      /\ UNCHANGED <<store, head, stack, pending, seen, files, bytes, trees, evidence>>
  BY DEF Tamper, Intact, Walking, counters
<1>2. tampers' \in 0..MaxTampers /\ tampers' # 0
  BY <1>1, Limits DEF IInv, TypedOK
<1>3. TypedOK'
  <2>1. disk' \in [DOMAIN disk' -> Nodes] /\ IsFiniteSet(DOMAIN disk')
    BY Tampered DEF IInv
  <2>2. TypedOK
    BY DEF IInv
  <2>. QED BY ONLY <1>1, <1>2, <2>1, <2>2 DEF TypedOK
<1>4. HandOK' /\ OpenOK' /\ SoundOK' /\ CompleteOK'
  BY <1>1 DEF HandOK, OpenOK, SoundOK, CompleteOK
<1>5. CountsOK'
  BY <1>1, <1>2 DEF CountsOK
<1>6. EvidenceOK'
  BY <1>1, <1>2, ChainsKept DEF EvidenceOK, IInv
<1>. QED BY <1>3, <1>4, <1>5, <1>6 DEF IInv

(* A verification changes nothing but its place and what it has read.      *)
LEMMA ScanStep ==
  ASSUME IInv, pc \in {"published", "counted", "reading"}, pc' \in {"published", "counted", "reading"},
         UNCHANGED <<store, head, stack, pending, seen, files, bytes, trees, disk, evidence, tampers>>
  PROVE  IInv'
<1>1. ~Intact' /\ ~Walking' /\ pc' # "hash"
  BY DEF Intact, Walking
<1>2. TypedOK'
  BY TypedKept DEF IInv
<1>3. HandOK' /\ OpenOK' /\ SoundOK' /\ CompleteOK'
  BY <1>1 DEF HandOK, OpenOK, SoundOK, CompleteOK
<1>4. CountsOK'
  BY <1>1, BoundsKept DEF IInv
<1>5. EvidenceOK'
  BY ChainsKept, DiskKept DEF EvidenceOK, IInv
<1>. QED BY <1>2, <1>3, <1>4, <1>5 DEF IInv

-----------------------------------------------------------------------------
LEMMA InitInv == Init => IInv
<1> SUFFICES ASSUME Init PROVE IInv
  OBVIOUS
<1>1. /\ store \in Stores /\ head \in DOMAIN Root /\ pc = "collect" /\ stack = <<>>
      /\ files = 0 /\ bytes = 0 /\ trees = 0 /\ disk = <<>> /\ tampers = 0
  BY DEF Init
<1>2. DOMAIN disk = {} /\ disk \in [DOMAIN disk -> Nodes]
  BY <1>1
<1>3. RegularFiles = {} /\ Dirs = {}
  BY <1>2 DEF RegularFiles, Dirs
<1>4. Stored = {}
  BY <1>3 DEF Stored
<1>5. IsFiniteSet({}) /\ Cardinality({}) = 0
  BY FS_EmptySet
<1>6. DiskBytes = 0 /\ Cardinality(RegularFiles) = 0 /\ Cardinality(Dirs) = 0 /\ IsFiniteSet(Stored)
  BY <1>3, <1>4, <1>5 DEF DiskBytes
<1>7. TypedOK
  <2>1. stack \in Seq(Frames) /\ Len(stack) = 0
    BY <1>1
  <2>. QED BY <1>1, <1>2, <1>5, <2>1, Limits DEF TypedOK
<1>8. HandOK /\ OpenOK /\ SoundOK /\ CompleteOK /\ EvidenceOK
  BY <1>1, <1>2 DEF HandOK, OpenOK, SoundOK, CompleteOK, EvidenceOK, Walking
<1>9. CountsOK
  BY <1>1, <1>2, <1>3, <1>6, Limits DEF CountsOK, Intact
<1>. QED BY <1>7, <1>8, <1>9 DEF IInv

LEMMA StepInv == IInv /\ [Next]_vars => IInv'
<1> SUFFICES ASSUME IInv, [Next]_vars PROVE IInv'
  OBVIOUS
<1>1. head \in DOMAIN Root
  BY DEF IInv, TypedOK
<1>2. CASE UNCHANGED vars
  BY <1>1, <1>2, Still DEF vars, counters
<1>3. CASE CollectState
  BY <1>3, CollectStateStep
<1>4. CASE ReadFails \/ RefuseEntry
  BY <1>4, RefuseStep DEF ReadFails, RefuseEntry
<1>5. CASE EnterTree
  BY <1>5, EnterTreeStep
<1>6. CASE TakeDirectory
  BY <1>6, TakeDirectoryStep
<1>7. CASE TakeFile
  BY <1>7, TakeFileStep
<1>8. CASE CreateFile
  BY <1>8, CreateFileStep
<1>9. CASE WriteFile
  BY <1>9, WriteFileStep
<1>10. CASE LeaveTree
  BY <1>10, LeaveTreeStep
<1>11. CASE Publish
  BY <1>11, PublishStep
<1>12. CASE ScanModes
  BY <1>12, RefuseStep, ScanStep DEF ScanModes, counters
<1>13. CASE ListEntries \/ ReadEntry \/ CompareDigests
  BY <1>13, RefuseStep, ScanStep DEF ListEntries, ReadEntry, CompareDigests, counters
<1>14. CASE Checkout
  BY <1>14, Still DEF Checkout, counters
<1>15. CASE Tamper
  BY <1>15, TamperStep
<1>. QED BY <1>2, <1>3, <1>4, <1>5, <1>6, <1>7, <1>8, <1>9, <1>10, <1>11, <1>12, <1>13, <1>14,
            <1>15 DEF Next, Walk, Verify

LEMMA Invariance == Spec => []IInv
<1>. QED BY InitInv, StepInv, PTL DEF Spec

-----------------------------------------------------------------------------
(* What is published lists the frozen commit and nothing else, for every   *)
(* object store, set of limits and place that HEAD moves to.               *)
THEOREM PublishedSnapshotIsTheCommit == Spec => []PublishedIsTheCommit
<1>1. IInv => PublishedIsTheCommit
  BY DEF IInv, EvidenceOK, PublishedIsTheCommit
<1>. QED BY <1>1, Invariance, PTL

(* The private tree stays within every limit at each moment of the walk,   *)
(* a file that is only partly written included.                            *)
THEOREM SnapshotDiskIsBounded == Spec => []DiskIsBounded
<1>1. IInv => DiskIsBounded
  <2> SUFFICES ASSUME IInv PROVE DiskIsBounded
    OBVIOUS
  <2>1. \A k \in DOMAIN disk : disk[k].kind \in {"dir", "file", "link"}
    <3>1. \A k \in DOMAIN disk : disk[k] \in Nodes
      BY DEF IInv, TypedOK
    <3>. QED BY <3>1 DEF Nodes
  <2>2. TypeOK
    BY <2>1 DEF IInv, TypedOK, TypeOK
  <2>. QED BY <2>2 DEF IInv, CountsOK, Dirs, DiskIsBounded
<1>. QED BY <1>1, Invariance, PTL

=============================================================================
