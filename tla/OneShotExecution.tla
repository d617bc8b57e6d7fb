-------------------------- MODULE OneShotExecution --------------------------
(***************************************************************************)
(* What the governed recorder promises, without saying how.                *)
(*                                                                         *)
(* An invocation reserves one execution attempt (a slot), burns the signed *)
(* approvals it needs, runs its payload at most once under all of them and *)
(* may publish one verdict.  A slot, an approval and a verdict are never   *)
(* given back: an attempt that stops half way stays used for ever.         *)
(*                                                                         *)
(* GovernedExec implements this module: its slot is the pair of evidence   *)
(* directory and execution ID, reserved by the started journal; its owner  *)
(* function is the append-only store of the root replay broker.            *)
(***************************************************************************)

CONSTANTS
  Invocations,   \* runs of the recorder program
  Approvals,     \* signed single-use approvals, by replay identity
  Slots,         \* execution attempts that can be reserved
  Slot,          \* Slot[i]: the attempt invocation i asks for
  Needs,         \* Needs[i]: the approvals the payload of i needs
  Nobody         \* the owner of what is still free

VARIABLES
  slotOwner,   \* who reserved a slot
  owner,       \* who burned an approval
  ran,         \* the invocations whose payload has been started
  verdict      \* the published outcome of an invocation

oneShotVars == <<slotOwner, owner, ran, verdict>>

Verdicts == {"SUCCEEDED", "NOT_SUCCEEDED"}

Init ==
  /\ slotOwner = [s \in Slots |-> Nobody]
  /\ owner = [a \in Approvals |-> Nobody]
  /\ ran = {}
  /\ verdict = [i \in Invocations |-> "NONE"]

Reserve(i) ==
  /\ slotOwner[Slot[i]] = Nobody
  /\ slotOwner' = [slotOwner EXCEPT ![Slot[i]] = i]
  /\ UNCHANGED <<owner, ran, verdict>>

Burn(i, a) ==
  /\ slotOwner[Slot[i]] = i
  /\ a \in Needs[i]
  /\ owner[a] = Nobody
  /\ owner' = [owner EXCEPT ![a] = i]
  /\ UNCHANGED <<slotOwner, ran, verdict>>

Run(i) ==
  /\ slotOwner[Slot[i]] = i
  /\ \A a \in Needs[i] : owner[a] = i
  /\ i \notin ran
  /\ verdict[i] = "NONE"
  /\ ran' = ran \cup {i}
  /\ UNCHANGED <<slotOwner, owner, verdict>>

Publish(i) ==
  /\ slotOwner[Slot[i]] = i
  /\ verdict[i] = "NONE"
  /\ \E v \in Verdicts :
       /\ v = "SUCCEEDED" => i \in ran
       /\ verdict' = [verdict EXCEPT ![i] = v]
  /\ UNCHANGED <<slotOwner, owner, ran>>

Next ==
  \E i \in Invocations :
    \/ Reserve(i)
    \/ \E a \in Approvals : Burn(i, a)
    \/ Run(i)
    \/ Publish(i)

Spec == Init /\ [][Next]_oneShotVars

(* Two payloads share neither an execution attempt nor an approval, and a  *)
(* success has a payload behind it: main() reserves its execution ID and   *)
(* burns its approvals before it starts anything.                          *)
PayloadsAreExclusive ==
  /\ \A i, j \in ran : i # j => Slot[i] # Slot[j] /\ Needs[i] \cap Needs[j] = {}
  /\ \A i \in Invocations : verdict[i] = "SUCCEEDED" => i \in ran

=============================================================================
