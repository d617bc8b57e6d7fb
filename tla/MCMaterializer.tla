---------------------------- MODULE MCMaterializer ----------------------------
(***************************************************************************)
(* Both levels of scripts/materialize-exact-revision-review.py in one      *)
(* exploration: one call of its file functions (OwnedFile), or a sequence  *)
(* of its commands (ExactReview), which use the functions as AtomicReplace *)
(* describes them.  The level is chosen at the start; the variables of the *)
(* other one keep a fixed value.                                           *)
(***************************************************************************)
EXTENDS OwnedFile

CONSTANTS Assets, Versions, MaxCalls, MaxChanges

VARIABLES
  level,
  live, diffSize, asset, changes, dir, patch, meta, stray, mode, step, calls,
  outcome, scratch, made, reported, seen, read, compared, current

commands == <<live, diffSize, asset, changes, dir, patch, meta, stray, mode, step,
  calls, outcome, scratch, made, reported, seen, read, compared, current>>

Review == INSTANCE ExactReview WITH pc <- step, noted <- reported

(* The instance that is explored is one the proofs speak of.               *)
ASSUME ReviewParameters == Review!Parameters

MCInit ==
  /\ Init /\ Review!Init
  /\ \/ level = "functions" /\ live /\ diffSize = "fits" /\ asset = [a \in Assets |-> 1]
     \/ level = "commands" /\ call = "anchor" /\ target = "absent"

MCNext ==
  \/ level = "functions" /\ Next /\ UNCHANGED <<level, commands>>
  \/ level = "commands" /\ Review!Next /\ UNCHANGED <<level, vars>>

MCSpec == MCInit /\ [][MCNext]_<<level, vars, commands>>

(* The properties of the commands, stated in ExactReview: what a success   *)
(* rests on and what a failure leaves.                                     *)
SuccessIsBound     == Review!SuccessIsBound
NoPartialWorkspace == Review!NoPartialWorkspace

=============================================================================
