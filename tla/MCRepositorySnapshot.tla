------------------------ MODULE MCRepositorySnapshot ------------------------
(***************************************************************************)
(* The object stores for model checking RepositorySnapshot: every root     *)
(* tree of up to two entries over a tree of up to two and a tree below it, *)
(* so that names collide in a directory and across two of them, a subtree  *)
(* is shared, and each limit is met and exceeded.                          *)
(***************************************************************************)
EXTENDS RepositorySnapshot

E(mode, name, id) == [mode |-> mode, name |-> name, id |-> id]

MCTrees == {"r", "s", "q"}
MCSize  == [x |-> 1, y |-> 2, z |-> 3, w |-> 2]
MCFold  == [a |-> "a", A |-> "a", b |-> "b", c |-> "c", dots |-> "dots"]
MCOrder == [A |-> 1, a |-> 2, b |-> 3, c |-> 4, dots |-> 5]

(* The frames of other files within a file: a with z hashes like a with x  *)
(* and b with x; a with w and c with x like a with x and b with y.         *)
F(name, exec) == [path |-> <<name>>, kind |-> "file", exec |-> exec]
Plain  == [byte |-> "x"]
MCText == [x |-> <<Plain>>, y |-> <<F("c", FALSE), Plain>>,
           z |-> <<Plain, F("b", FALSE), Plain>>, w |-> <<Plain, F("b", TRUE)>>]

MCRoot  == [frozen |-> "r", later |-> "s"]

Names == {"a", "A", "b"}

RootEntries ==
  {E("40000", n, "s") : n \in Names} \cup {E("100644", n, "x") : n \in Names}
  \cup {E("100755", "b", "y"), E("100644", "a", "z"), E("120000", "b", "x"),
        E("100644", "dots", "x")}

UpToTwo(S) == {<<>>} \cup {<<e>> : e \in S} \cup {<<e, f>> : e \in S, f \in S}

SubEntries == {E("100644", "a", "x"), E("100755", "A", "x"), E("40000", "b", "q")}

(* Git refuses two entries of one name.                                    *)
Canonical(t) == Len(t) < 2 \/ t[1].name # t[2].name

(* A tree that nothing leads to stays empty.                               *)
Uses(t, id) == \E i \in DOMAIN t : t[i].id = id

AllStores ==
  {[r |-> t, s |-> u, q |-> v] :
     t \in {w \in UpToTwo(RootEntries) : Canonical(w)},
     u \in {w \in UpToTwo(SubEntries) : Canonical(w)},
     v \in {<<>>, <<E("100644", "a", "x")>>}}

MCStores == {s \in AllStores : /\ s.s # <<>> => Uses(s.r, "s")
                               /\ s.q # <<>> => Uses(s.s, "q")}
=============================================================================
