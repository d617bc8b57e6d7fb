--------------------------- MODULE MCGovernedExec ---------------------------
(***************************************************************************)
(* Small instances of GovernedExec for TLC.  A .cfg picks the definitions  *)
(* of one scenario for the function constants.                             *)
(***************************************************************************)
EXTENDS GovernedExec

CONSTANTS
  i1, i2,      \* invocations
  j1, j2,      \* evidence directory and execution ID
  a1, a2, a3   \* approvals

AllLive      == [i \in Invocations |-> TRUE]
NoneLive     == [i \in Invocations |-> FALSE]
WithArtifact == [i \in Invocations |-> TRUE]

Always       == [from |-> 0, to |-> MaxTime + 1]
AlwaysAuth   == [i \in Invocations |-> Always]
AlwaysWindow == [a \in Approvals |-> Always]

(* One execution ID and its approvals are presented twice, with different  *)
(* evidence directories.                                                   *)
ReplayJournal == [i \in Invocations |-> IF i = i1 THEN j1 ELSE j2]
ReplayNeeded  == [i \in Invocations |-> <<a1, a2>>]

(* One execution ID is started twice in one evidence directory: at the     *)
(* same time, or again after a crash, with approvals signed anew.          *)
SharedJournal == [i \in Invocations |-> j1]
RetryNeeded   == [i \in Invocations |-> IF i = i1 THEN <<a1, a2>> ELSE <<a3>>]
FirstLive     == [i \in Invocations |-> i = i1]

(* One attempt with two consumer approvals.                                *)
SingleNeeded  == [i \in Invocations |-> <<a1, a2, a3>>]

(* Windows that open and close at different times: the execution approval  *)
(* expires first, one consumer approval is valid early only by clock skew. *)
TightAuth     == [i \in Invocations |-> [from |-> 0, to |-> 4]]
TightWindow   == [a \in Approvals |-> CASE a = a1 -> [from |-> 0, to |-> 3]
                                        [] a = a2 -> [from |-> 1, to |-> 4]
                                        [] a = a3 -> [from |-> 2, to |-> 4]]

=============================================================================
