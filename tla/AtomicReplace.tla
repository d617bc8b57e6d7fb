---------------------------- MODULE AtomicReplace ----------------------------
(***************************************************************************)
(* What a caller of the file functions of                                  *)
(* scripts/materialize-exact-revision-review.py may count on.  A name is   *)
(* moved to the new payload in one step or not at all, a file that is not  *)
(* an ordinary one of this user is never replaced, and a return tells that *)
(* the name was moved.  An exception tells nothing, and a call that is     *)
(* stopped may leave either file.  ExactReview uses the functions so.      *)
(***************************************************************************)
VARIABLES
  writes,  \* the call is to replace the file
  name,    \* what the name means: "absent", "old", "unsafe" or "new"
  durable, \* what it means after a power failure
  told     \* "pending", "returned", "raised" or "stopped"

vars == <<writes, name, durable, told>>

Init ==
  /\ writes \in BOOLEAN
  /\ name \in {"absent", "old", "unsafe"} /\ durable = name
  /\ told = "pending"

Commit ==
  /\ writes /\ told = "pending" /\ name \in {"absent", "old"}
  /\ name' = "new"
  /\ UNCHANGED <<writes, durable, told>>

Settle ==
  /\ told = "pending"
  /\ durable' = name
  /\ UNCHANGED <<writes, name, told>>

Return ==
  /\ told = "pending" /\ (writes => name = "new")
  /\ told' = "returned"
  /\ UNCHANGED <<writes, name, durable>>

Raise ==
  /\ told = "pending"
  /\ told' = "raised"
  /\ UNCHANGED <<writes, name, durable>>

Stop ==
  /\ told = "pending"
  /\ told' = "stopped" /\ name' \in {name, durable}
  /\ UNCHANGED <<writes, durable>>

Next == Commit \/ Settle \/ Return \/ Raise \/ Stop

Spec == Init /\ [][Next]_vars

=============================================================================
