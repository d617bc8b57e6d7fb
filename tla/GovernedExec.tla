---------------------------- MODULE GovernedExec ----------------------------
(***************************************************************************)
(* The execution protocol of scripts/governed-ansible-exec.py: main() and  *)
(* everything it calls that changes or checks state, from the admission    *)
(* checks to the final record.                                             *)
(*                                                                         *)
(* One invocation is one process running main().  It builds a private      *)
(* runtime tree, writes a started journal, passes revalidation boundaries, *)
(* burns its signed approvals at the root replay broker, runs a pre-live   *)
(* projection (live actions) and the payload, and leaves a final record.   *)
(* Several invocations run at once and share the evidence directories and  *)
(* the broker.  A process may be killed, a file operation may fail, a      *)
(* broker reply may be lost, an input may be changed behind the program's  *)
(* back and the clock runs on between any two steps.                       *)
(***************************************************************************)
EXTENDS Integers, Sequences

CONSTANTS
  Invocations,  \* processes that run main()
  Nobody,       \* the owner of a file or an approval that has none
  Journals,     \* pairs of an evidence directory and an execution ID
  Approvals,    \* signed approvals, by replay identity
  Journal,      \* Journal[i]: where invocation i records its attempt
  Needed,       \* Needed[i]: its execution approval, then its consumer
                \* approvals in the order of the policy's bindings
  Live,         \* Live[i]: the impact of the action is in LIVE_IMPACTS
  Artifact,     \* Artifact[i]: the payload produces a governed artifact
  Auth,         \* Auth[i]: window of the outer authorization, [from, to)
  Window,       \* Window[a]: window of approval a, [from, to)
  Skew,         \* MAX_CLOCK_SKEW_SECONDS
  MaxApproval,  \* MAX_APPROVAL_SECONDS
  MaxTime,      \* bound on the clock
  Markable,     \* approvals whose local .used marker may appear
  Tamperable,   \* inputs that may change behind the program's back
  Faults        \* which of FaultKinds the environment may inject

(* The inputs whose integrity the recorder pins and re-measures.           *)
Inputs == {"trust", "snapshots", "ssh", "attestation", "extra_vars",
           "runtime", "backend"}

FaultKinds == {"os_error", "uncaught", "kill", "cleanup"}

Windows == [from : Nat, to : Nat]

ASSUME GovernedAssumption ==
  /\ Nobody \notin Invocations
  /\ Journal \in [Invocations -> Journals]
  /\ Needed \in [Invocations -> Seq(Approvals)]
  /\ \A i \in Invocations : Needed[i] # <<>>
  /\ Live \in [Invocations -> BOOLEAN]
  /\ Artifact \in [Invocations -> BOOLEAN]
  /\ Auth \in [Invocations -> Windows]
  /\ Window \in [Approvals -> Windows]
  /\ Skew \in Nat /\ MaxApproval \in Nat /\ MaxTime \in Nat
  /\ Markable \subseteq Approvals
  /\ Tamperable \subseteq Inputs
  /\ Faults \subseteq FaultKinds

VARIABLES
  now,        \* the wall clock
  (* The evidence directories: who created each record and its sidecar.    *)
  primary, sidecar,
  (* The root replay broker and the local replay ledger.                   *)
  requests,   \* claim requests the broker has not handled yet
  claimedBy,  \* the append-only store: whose request burned an approval
  claimTime,  \* when it did
  markers,    \* approvals with a local .used marker
  (* The state of one main().                                              *)
  pc,         \* the next step
  stage,      \* the part of the protocol it is in
  tree,       \* its private runtime tree exists
  tampered,   \* the inputs that changed since it pinned them
  observed,   \* the time read at the last boundary
  reply,      \* the broker's reply to its outstanding claim
  held,       \* how many approvals of Needed[i] it has seen claimed
  journaled,  \* started_digest is set
  listed,     \* consumer_claims has been filled
  error,      \* contract_failure, or an exception that main() does not catch
  result,     \* the outcome in the result variable
  phases,     \* the phases list of the final record
  status,     \* invocation_status of the final record
  (* History, for the properties only.                                     *)
  procs,      \* the governed processes really created, and their fate
  base,       \* the inputs already changed when the last boundary began
  exitTaint   \* the inputs already changed when the payload returned

evidence == <<primary, sidecar>>
store    == <<requests, claimedBy, claimTime, markers>>
records  == <<journaled, listed, error, result, phases, status>>
history  == <<procs, base, exitTaint>>
vars == <<now, evidence, store, pc, stage, tree, tampered, observed, reply,
          held, records, history>>

-----------------------------------------------------------------------------

Docs     == {"started", "prelive", "artifact", "result"}
Stages   == {"journal", "claim", "prelive", "payload", "report"}
Outcomes == {"ok", "nonzero", "terminated"}
Fates    == Outcomes \cup {"running", "abandoned"}
Replies  == {"none", "CLAIMED", "REJECTED"}
Statuses == {"none", "RAW_RETENTION_FAILED", "CONTRACT_FAILED", "TERMINATED",
             "SUCCEEDED", "FAILED"}

(* Steps inside the try statement, where an exception leads to its finally *)
(* clause, and the steps around it.                                        *)
TryPcs == {"inputs", "write", "sidecar", "probe", "boundary", "revalidate",
           "claim", "reply", "start", "running", "read_back", "remeasure"}
Pcs == TryPcs \cup {"idle", "post_claim", "cleanup", "conclude", "ended",
                    "escaped", "killed"}

(* The process that runs main() does not exist, not yet or no longer.      *)
NotRunning == {"idle", "ended", "escaped", "killed"}

(* The record that write_new_json creates at each stage.                   *)
Doc(i) == CASE stage[i] = "journal" -> "started"
            [] stage[i] = "prelive" -> "prelive"
            [] stage[i] = "report"  -> "result"
            [] OTHER                -> "artifact"

TypeOK ==
  /\ now \in 0..MaxTime
  /\ primary \in [Journals -> [Docs -> Invocations \cup {Nobody}]]
  /\ sidecar \in [Journals -> [Docs -> Invocations \cup {Nobody}]]
  /\ requests \subseteq Invocations \X Approvals
  /\ claimedBy \in [Approvals -> Invocations \cup {Nobody}]
  /\ claimTime \in [Approvals -> 0..MaxTime]
  /\ markers \subseteq Approvals
  /\ pc \in [Invocations -> Pcs]
  /\ stage \in [Invocations -> Stages]
  /\ tree \in [Invocations -> BOOLEAN]
  /\ tampered \in [Invocations -> SUBSET Inputs]
  /\ observed \in [Invocations -> 0..MaxTime]
  /\ reply \in [Invocations -> Replies]
  /\ held \in [Invocations -> Nat]
  /\ \A i \in Invocations :
       /\ held[i] <= Len(Needed[i])
       /\ stage[i] = "payload" => held[i] = Len(Needed[i])
  /\ journaled \in [Invocations -> BOOLEAN]
  /\ listed \in [Invocations -> BOOLEAN]
  /\ error \in [Invocations -> {"none", "contract", "uncaught"}]
  /\ result \in [Invocations ->
                   Outcomes \cup {"pre_process_contract", "process_start"}]
  /\ phases \in [Invocations ->
                   Seq([phase : Stages,
                        outcome : Outcomes \cup {"process_start"}])]
  /\ status \in [Invocations -> Statuses]
  /\ procs \in [Invocations -> Seq([phase : Stages, fate : Fates])]
  /\ base \in [Invocations -> SUBSET Inputs]
  /\ exitTaint \in [Invocations -> SUBSET Inputs]

Init ==
  /\ now = 0
  /\ primary = [j \in Journals |-> [d \in Docs |-> Nobody]]
  /\ sidecar = [j \in Journals |-> [d \in Docs |-> Nobody]]
  /\ requests = {}
  /\ claimedBy = [a \in Approvals |-> Nobody]
  /\ claimTime = [a \in Approvals |-> 0]
  /\ markers = {}
  /\ pc = [i \in Invocations |-> "idle"]
  /\ stage = [i \in Invocations |-> "journal"]
  /\ tree = [i \in Invocations |-> FALSE]
  /\ tampered = [i \in Invocations |-> {}]
  /\ observed = [i \in Invocations |-> 0]
  /\ reply = [i \in Invocations |-> "none"]
  /\ held = [i \in Invocations |-> 0]
  /\ journaled = [i \in Invocations |-> FALSE]
  /\ listed = [i \in Invocations |-> FALSE]
  /\ error = [i \in Invocations |-> "none"]
  /\ result = [i \in Invocations |-> "pre_process_contract"]
  /\ phases = [i \in Invocations |-> <<>>]
  /\ status = [i \in Invocations |-> "none"]
  /\ procs = [i \in Invocations |-> <<>>]
  /\ base = [i \in Invocations |-> {}]
  /\ exitTaint = [i \in Invocations |-> {}]

Goto(i, label) == pc' = [pc EXCEPT ![i] = label]

(* Seeded defect: the exception leaves main() past its finally clause.     *)
UnwindPastFinally(i) == Goto(i, "conclude")

(* Leaving the try statement, by its end or by an exception.               *)
Unwind(i) == Goto(i, "post_claim")

-----------------------------------------------------------------------------
(* Admission and the inputs of the attempt.                                *)

WithinAuthorization(i, t) == Auth[i].from <= t /\ t < Auth[i].to

Current(a, t) == Window[a].from - t <= Skew /\ t < Window[a].to

(* validate_approval_transport_shape: the approval lies inside the outer   *)
(* authorization and is not too long.                                      *)
Nested(i, a) ==
  /\ Auth[i].from <= Window[a].from
  /\ Window[a].from < Window[a].to
  /\ Window[a].to <= Auth[i].to
  /\ Window[a].to - Window[a].from <= MaxApproval

Distinct(s) == \A m, n \in 1..Len(s) : s[m] = s[n] => m = n

Admit(i) ==
  /\ pc[i] = "idle"
  /\ WithinAuthorization(i, now)
  /\ primary[Journal[i]]["result"] = Nobody
  /\ sidecar[Journal[i]]["result"] = Nobody
  /\ tree' = [tree EXCEPT ![i] = TRUE]
  /\ Goto(i, "inputs")
  /\ UNCHANGED <<now, evidence, store, stage, tampered, observed, reply, held,
                 records, history>>

(* Any check before the try statement fails: nothing has been created.     *)
RefuseAdmission(i) ==
  /\ pc[i] = "idle"
  /\ Goto(i, "ended")
  /\ UNCHANGED <<now, evidence, store, stage, tree, tampered, observed, reply,
                 held, records, history>>

PinInputs(i) ==
  /\ pc[i] = "inputs"
  /\ tampered[i] \cap {"backend", "attestation"} = {}
  /\ \A n \in 1..Len(Needed[i]) :
       /\ Nested(i, Needed[i][n])
       /\ Current(Needed[i][n], now)
       /\ Needed[i][n] \notin markers
  /\ Distinct(Needed[i])
  /\ Goto(i, "write")
  /\ UNCHANGED <<now, evidence, store, stage, tree, tampered, observed, reply,
                 held, records, history>>

Probe(i) ==
  /\ pc[i] = "probe"
  /\ "runtime" \notin tampered[i]
  /\ stage' = [stage EXCEPT ![i] = "claim"]
  /\ Goto(i, "boundary")
  /\ UNCHANGED <<now, evidence, store, tree, tampered, observed, reply, held,
                 records, history>>

-----------------------------------------------------------------------------
(* write_new_json: the record and then its sidecar, both with O_EXCL.      *)

(* Seeded defect: the files are opened without O_EXCL.                     *)
NameNeverTaken(i) == FALSE

NameTaken(i) ==
  \/ pc[i] = "write" /\ primary[Journal[i]][Doc(i)] # Nobody
  \/ pc[i] = "sidecar" /\ sidecar[Journal[i]][Doc(i)] # Nobody

(* Seeded defect: the last consumer approval is not claimed.               *)
ClaimAllButLast(i, claimed) ==
  IF claimed < Len(Needed[i]) - 1
  THEN Goto(i, "claim") /\ UNCHANGED stage
  ELSE Goto(i, "boundary") /\ stage' = [stage EXCEPT ![i] = "payload"]

(* The consumer approvals are claimed one after the other; the payload's   *)
(* own boundary follows the last one.                                      *)
ClaimOrPayload(i, claimed) ==
  IF claimed < Len(Needed[i])
  THEN Goto(i, "claim") /\ UNCHANGED stage
  ELSE Goto(i, "boundary") /\ stage' = [stage EXCEPT ![i] = "payload"]

CreateRecord(i) ==
  /\ pc[i] = "write"
  /\ ~NameTaken(i)
  /\ primary' = [primary EXCEPT ![Journal[i]][Doc(i)] = i]
  /\ Goto(i, "sidecar")
  /\ UNCHANGED <<now, sidecar, store, stage, tree, tampered, observed, reply,
                 held, records, history>>

CreateSidecar(i) ==
  /\ pc[i] = "sidecar"
  /\ ~NameTaken(i)
  /\ sidecar' = [sidecar EXCEPT ![Journal[i]][Doc(i)] = i]
  /\ journaled' = [journaled EXCEPT ![i] = TRUE]
  /\ CASE stage[i] = "journal" -> Goto(i, "probe") /\ UNCHANGED stage
       [] stage[i] = "prelive" -> ClaimOrPayload(i, held[i])
       [] stage[i] = "report"  -> Goto(i, "ended") /\ UNCHANGED stage
       [] OTHER                -> Goto(i, "read_back") /\ UNCHANGED stage
  /\ UNCHANGED <<now, primary, store, tree, tampered, observed, reply, held,
                 listed, error, result, phases, status, history>>

-----------------------------------------------------------------------------
(* revalidate_execution_boundary.  It reads the clock once, early, and     *)
(* judges every window by that reading.                                    *)

(* Seeded defect: the sealed SSH inputs are not verified again.            *)
BoundaryInputsWithoutSsh == {"snapshots", "attestation"}

BoundaryInputs == {"snapshots", "ssh", "attestation"}

Burned(a) == claimedBy[a] # Nobody

(* Seeded defect: every boundary is judged by the first one's clock.       *)
FirstBoundaryTime(i) == IF stage[i] = "claim" THEN now ELSE observed[i]

BoundaryTime(i) == now

OpenBoundary(i) ==
  /\ pc[i] = "boundary"
  /\ "trust" \notin tampered[i]
  /\ WithinAuthorization(i, BoundaryTime(i))
  /\ observed' = [observed EXCEPT ![i] = BoundaryTime(i)]
  /\ base' = [base EXCEPT ![i] = tampered[i]]
  /\ Goto(i, "revalidate")
  /\ UNCHANGED <<now, evidence, store, stage, tree, tampered, reply, held,
                 records, procs, exitTaint>>

(* An approval already claimed by this invocation is read back at the      *)
(* broker; one still to be claimed must have no local marker.              *)
Revalidate(i) ==
  /\ pc[i] = "revalidate"
  /\ \A n \in 1..Len(Needed[i]) :
       /\ Current(Needed[i][n], observed[i])
       /\ IF n <= held[i] THEN Burned(Needed[i][n])
                          ELSE Needed[i][n] \notin markers
  /\ tampered[i] \cap BoundaryInputs = {}
  /\ stage[i] = "payload" => "extra_vars" \notin tampered[i]
  /\ Goto(i, IF stage[i] = "claim" THEN "claim" ELSE "start")
  /\ UNCHANGED <<now, evidence, store, stage, tree, tampered, observed, reply,
                 held, records, history>>

-----------------------------------------------------------------------------
(* invoke_replay_broker("claim", ...) and the store behind it.             *)

(* Seeded defect: the status in the broker's response is not compared.     *)
AcceptedUnread(answer) == TRUE

Accepted(answer) == answer = "CLAIMED"

SendClaim(i) ==
  /\ pc[i] = "claim"
  /\ held[i] < Len(Needed[i])
  /\ requests' = requests \cup {<<i, Needed[i][held[i] + 1]>>}
  /\ Goto(i, "reply")
  /\ UNCHANGED <<now, evidence, claimedBy, claimTime, markers, stage, tree,
                 tampered, observed, reply, held, records, history>>

ReceiveReply(i) ==
  /\ pc[i] = "reply"
  /\ reply[i] # "none"
  /\ Accepted(reply[i])
  /\ held' = [held EXCEPT ![i] = held[i] + 1]
  /\ IF stage[i] = "claim" /\ Live[i]
     THEN Goto(i, "boundary") /\ stage' = [stage EXCEPT ![i] = "prelive"]
     ELSE ClaimOrPayload(i, held[i] + 1)
  /\ reply' = [reply EXCEPT ![i] = "none"]
  /\ UNCHANGED <<now, evidence, store, tree, tampered, observed, records,
                 history>>

(* The broker handles a request when it gets to it, which may be after the *)
(* recorder has given up on it or has died.                                *)
BrokerHandles(i, a) ==
  /\ <<i, a>> \in requests
  /\ requests' = requests \ {<<i, a>>}
  /\ IF Burned(a)
     THEN UNCHANGED <<claimedBy, claimTime>>
     ELSE /\ claimedBy' = [claimedBy EXCEPT ![a] = i]
          /\ claimTime' = [claimTime EXCEPT ![a] = now]
  /\ reply' = IF pc[i] = "reply" /\ Needed[i][held[i] + 1] = a
              THEN [reply EXCEPT ![i] =
                      IF Burned(a) THEN "REJECTED" ELSE "CLAIMED"]
              ELSE reply
  /\ UNCHANGED <<now, evidence, markers, pc, stage, tree, tampered, observed,
                 held, records, history>>

-----------------------------------------------------------------------------
(* The two governed processes: the pre-live projection and the payload.    *)

(* Seeded defect: only the termination reason is looked at.                *)
CompletedIgnoringExit(outcome) == outcome # "terminated"

Completed(outcome) == outcome = "ok"

(* The last process of a history meets its fate.                           *)
WithFate(past, fate) ==
  [past EXCEPT ![Len(past)] = [@ EXCEPT !.fate = fate]]

(* Every exception inside the try statement abandons the process that is   *)
(* running, if there is one.                                               *)
AbandonProcess(i) ==
  IF pc[i] = "running"
  THEN procs' = [procs EXCEPT ![i] = WithFate(@, "abandoned")]
  ELSE UNCHANGED procs

StartProcess(i) ==
  /\ pc[i] = "start"
  /\ procs' = [procs EXCEPT ![i] =
                 Append(@, [phase |-> stage[i], fate |-> "running"])]
  /\ Goto(i, "running")
  /\ UNCHANGED <<now, evidence, store, stage, tree, tampered, observed, reply,
                 held, records, base, exitTaint>>

AfterProcess(i) ==
  IF stage[i] = "prelive" \/ Artifact[i] THEN "write" ELSE "read_back"

(* run_bounded returns.  What follows without an exception is the          *)
(* validation of the output, whose failure is RaiseContractError.          *)
ProcessReturns(i) ==
  /\ pc[i] = "running"
  /\ \E outcome \in Outcomes :
       /\ procs' = [procs EXCEPT ![i] = WithFate(@, outcome)]
       /\ phases' = [phases EXCEPT ![i] =
                       Append(@, [phase |-> stage[i], outcome |-> outcome])]
       /\ IF stage[i] = "payload"
          THEN /\ result' = [result EXCEPT ![i] = outcome]
               /\ exitTaint' = [exitTaint EXCEPT ![i] = tampered[i]]
          ELSE UNCHANGED <<result, exitTaint>>
       /\ IF Completed(outcome)
          THEN Goto(i, AfterProcess(i)) /\ UNCHANGED error
          ELSE /\ Unwind(i)
               /\ error' = [error EXCEPT ![i] = "contract"]
  /\ UNCHANGED <<now, evidence, store, stage, tree, tampered, observed, reply,
                 held, journaled, listed, status, base>>

-----------------------------------------------------------------------------
(* The checks after the payload.                                           *)

(* Seeded defect: the snapshots are not verified after the payload.        *)
FinalInputsWithoutSnapshots == {"attestation", "runtime", "backend"}

FinalInputs == {"snapshots", "attestation", "runtime", "backend"}

ReadBack(i) ==
  /\ pc[i] = "read_back"
  /\ \A n \in 2..Len(Needed[i]) : Burned(Needed[i][n])
  /\ listed' = [listed EXCEPT ![i] = Len(Needed[i]) > 1]
  /\ Goto(i, "remeasure")
  /\ UNCHANGED <<now, evidence, store, stage, tree, tampered, observed, reply,
                 held, journaled, error, result, phases, status, history>>

Remeasure(i) ==
  /\ pc[i] = "remeasure"
  /\ tampered[i] \cap FinalInputs = {}
  /\ Unwind(i)
  /\ UNCHANGED <<now, evidence, store, stage, tree, tampered, observed, reply,
                 held, records, history>>

-----------------------------------------------------------------------------
(* Exceptions.  A failed check raises ContractError; a file operation that *)
(* fails raises OSError, which invoke_replay_broker turns into             *)
(* ContractError; everything else (KeyboardInterrupt, the TimeoutExpired   *)
(* of run_bounded's last wait) is caught by no clause.  It may arrive in   *)
(* the try statement, whose finally clause then runs, or outside of it.    *)

(* Seeded defect: a broker that does not answer is waited for.             *)
BrokerNeverTimesOut == {"start", "running", "reply"}

(* run_bounded reports through its result; it raises no ContractError.     *)
NoContractError == {"start", "running"}

(* Seeded defect: active_process_phase is not reset after the process.     *)
PhaseNeverReset(i) == stage[i] \in {"prelive", "payload"}

(* active_process_phase is set.                                            *)
PhaseActive(i) == pc[i] \in {"start", "running"}

Trying(i) == pc[i] \in TryPcs /\ stage[i] # "report"

RaiseContractError(i) ==
  /\ Trying(i)
  /\ pc[i] \notin NoContractError
  /\ error' = [error EXCEPT ![i] = "contract"]
  /\ Unwind(i)
  /\ UNCHANGED <<now, evidence, store, stage, tree, tampered, observed, reply,
                 held, journaled, listed, result, phases, status, history>>

(* The handler replaces the result, whatever the payload did before, and   *)
(* records the phase that was active.  The fsync of the directory may fail *)
(* when the sidecar already exists.                                        *)
RaiseOSError(i) ==
  /\ Trying(i)
  /\ pc[i] \notin {"claim", "reply", "read_back"}
  /\ "os_error" \in Faults \/ NameTaken(i)
  /\ \/ UNCHANGED sidecar
     \/ /\ pc[i] = "sidecar"
        /\ ~NameTaken(i)
        /\ sidecar' = [sidecar EXCEPT ![Journal[i]][Doc(i)] = i]
  /\ result' = [result EXCEPT ![i] = "process_start"]
  /\ IF PhaseActive(i)
     THEN phases' = [phases EXCEPT ![i] =
            Append(@, [phase |-> stage[i], outcome |-> "process_start"])]
     ELSE UNCHANGED phases
  /\ AbandonProcess(i)
  /\ error' = [error EXCEPT ![i] = "contract"]
  /\ Unwind(i)
  /\ UNCHANGED <<now, primary, store, stage, tree, tampered, observed, reply,
                 held, journaled, listed, status, base, exitTaint>>

RaiseUncaught(i) ==
  /\ Trying(i)
  /\ "uncaught" \in Faults
  /\ AbandonProcess(i)
  /\ error' = [error EXCEPT ![i] = "uncaught"]
  /\ Unwind(i)
  /\ UNCHANGED <<now, evidence, store, stage, tree, tampered, observed, reply,
                 held, journaled, listed, result, phases, status, base,
                 exitTaint>>

(* The same exception where no finally clause is left to run: between the  *)
(* creation of the private tree and the try statement, in the finally      *)
(* clause itself, which verifies a claim at the broker before it removes   *)
(* the tree, or while the final record is made.  main() is left at once,   *)
(* with whatever exists of the tree.                                       *)
EscapeTry(i) ==
  /\ "uncaught" \in Faults
  /\ \/ pc[i] \in {"inputs", "post_claim", "cleanup", "conclude"}
     \/ stage[i] = "report" /\ pc[i] \in {"write", "sidecar"}
  /\ Goto(i, "escaped")
  /\ UNCHANGED <<now, evidence, store, stage, tree, tampered, observed, reply,
                 held, records, history>>

-----------------------------------------------------------------------------
(* The finally clause and the final record.                                *)

(* A failure noted in the finally clause joins contract_failure; it cannot *)
(* stop an exception that is already on its way out.                       *)
NoteFailure(i) ==
  error' = [error EXCEPT ![i] = IF @ = "uncaught" THEN @ ELSE "contract"]

VerifyAfterwards(i) ==
  /\ pc[i] = "post_claim"
  /\ \/ /\ held[i] > 0 => Burned(Needed[i][1])
        /\ UNCHANGED error
     \/ held[i] > 0 /\ NoteFailure(i)
  /\ Goto(i, "cleanup")
  /\ UNCHANGED <<now, evidence, store, stage, tree, tampered, observed, reply,
                 held, journaled, listed, result, phases, status, history>>

RemoveTree(i) ==
  /\ pc[i] = "cleanup"
  /\ \/ tree' = [tree EXCEPT ![i] = FALSE] /\ UNCHANGED error
     \/ "cleanup" \in Faults /\ NoteFailure(i) /\ UNCHANGED tree
  /\ Goto(i, "conclude")
  /\ UNCHANGED <<now, evidence, store, stage, tampered, observed, reply, held,
                 journaled, listed, result, phases, status, history>>

(* Seeded defect: a contract failure hides that the tree was retained.     *)
StatusHidingRetention(i) ==
  CASE error[i] # "none"              -> "CONTRACT_FAILED"
    [] tree[i] /\ error[i] = "none"   -> "RAW_RETENTION_FAILED"
    [] OTHER                          -> "SUCCEEDED"

ExecutionStatus(i) ==
  CASE tree[i]                      -> "RAW_RETENTION_FAILED"
    [] ~tree[i] /\ error[i] # "none" -> "CONTRACT_FAILED"
    [] OTHER -> CASE result[i] = "ok"      -> "SUCCEEDED"
                  [] result[i] = "nonzero" -> "FAILED"
                  [] OTHER                 -> "TERMINATED"

Conclude(i) ==
  /\ pc[i] = "conclude"
  /\ IF error[i] = "uncaught" \/ ~journaled[i]
     THEN Goto(i, "ended") /\ UNCHANGED <<stage, status>>
     ELSE /\ status' = [status EXCEPT ![i] = ExecutionStatus(i)]
          /\ stage' = [stage EXCEPT ![i] = "report"]
          /\ Goto(i, "write")
  /\ UNCHANGED <<now, evidence, store, tree, tampered, observed, reply, held,
                 journaled, listed, error, result, phases, history>>

(* The final record is written outside the try statement: a field that     *)
(* looks like a secret (before anything is written), a name that is taken, *)
(* or a file operation, the last of which follows the sidecar's creation.  *)
ReportFails(i) ==
  /\ stage[i] = "report"
  /\ pc[i] \in {"write", "sidecar"}
  /\ pc[i] = "write" \/ "os_error" \in Faults \/ NameTaken(i)
  /\ \/ UNCHANGED sidecar
     \/ /\ pc[i] = "sidecar"
        /\ ~NameTaken(i)
        /\ sidecar' = [sidecar EXCEPT ![Journal[i]][Doc(i)] = i]
  /\ Goto(i, "ended")
  /\ UNCHANGED <<now, primary, store, stage, tree, tampered, observed, reply,
                 held, records, history>>

-----------------------------------------------------------------------------
(* The environment.                                                        *)

(* SIGKILL, a power failure, or a signal with the default action.  A       *)
(* running process survives in its own session; requests stay queued.      *)
Kill(i) ==
  /\ "kill" \in Faults
  /\ pc[i] \notin NotRunning
  /\ Goto(i, "killed")
  /\ UNCHANGED <<now, evidence, store, stage, tree, tampered, observed, reply,
                 held, records, history>>

Tamper(i, input) ==
  /\ pc[i] \notin NotRunning
  /\ input \in Tamperable \ tampered[i]
  /\ tampered' = [tampered EXCEPT ![i] = @ \cup {input}]
  /\ UNCHANGED <<now, evidence, store, pc, stage, tree, observed, reply, held,
                 records, history>>

Mark(a) ==
  /\ a \in Markable \ markers
  /\ markers' = markers \cup {a}
  /\ UNCHANGED <<now, evidence, requests, claimedBy, claimTime, pc, stage,
                 tree, tampered, observed, reply, held, records, history>>

Tick ==
  /\ now < MaxTime
  /\ now' = now + 1
  /\ UNCHANGED <<evidence, store, pc, stage, tree, tampered, observed, reply,
                 held, records, history>>

-----------------------------------------------------------------------------

(* What main() itself does once it has been admitted.                      *)
Step(i) ==
  \/ PinInputs(i) \/ CreateRecord(i) \/ CreateSidecar(i) \/ Probe(i)
  \/ OpenBoundary(i) \/ Revalidate(i)
  \/ SendClaim(i) \/ ReceiveReply(i)
  \/ StartProcess(i) \/ ProcessReturns(i)
  \/ ReadBack(i) \/ Remeasure(i)
  \/ RaiseContractError(i) \/ RaiseOSError(i)
  \/ VerifyAfterwards(i) \/ RemoveTree(i) \/ Conclude(i) \/ ReportFails(i)

Next ==
  \/ \E i \in Invocations :
       \/ Admit(i) \/ RefuseAdmission(i) \/ Step(i)
       \/ RaiseUncaught(i) \/ EscapeTry(i) \/ Kill(i)
       \/ \E a \in Approvals : BrokerHandles(i, a)
       \/ \E input \in Inputs : Tamper(i, input)
  \/ \E a \in Approvals : Mark(a)
  \/ Tick

Spec == Init /\ [][Next]_vars

(* Every program keeps running until it is killed: run_bounded bounds each *)
(* child process, and nothing else in main() waits.  Nothing is assumed of *)
(* the broker, which may never answer, and no exception that main() does   *)
(* not foresee is needed to get on.                                        *)
FairSpec == Spec /\ \A i \in Invocations : WF_vars(Step(i))

(***************************************************************************)
(* Properties.                                                             *)
(***************************************************************************)

NeededSet(i) == {Needed[i][n] : n \in 1..Len(Needed[i])}

Launched(i, phase) == \E n \in 1..Len(procs[i]) : procs[i][n].phase = phase

PayloadLaunched(i) == Launched(i, "payload")

Recorded(i) == sidecar[Journal[i]]["result"] = i

(* A signed approval starts at most one payload, whichever invocations     *)
(* race for it and whatever directories they use for their evidence: the   *)
(* broker is claimed before the process and a refused claim stops main().  *)
OnePayloadPerApproval ==
  \A i, j \in Invocations :
    PayloadLaunched(i) /\ PayloadLaunched(j)
      /\ NeededSet(i) \cap NeededSet(j) # {}
    => i = j

(* Whatever consumes an approval or creates a governed process is on       *)
(* record: the started journal and its sidecar of that very invocation are *)
(* in place first, so a crashed attempt can always be told from one that   *)
(* never began, and an execution ID is never used by two invocations.      *)
ConsumptionIsJournaled ==
  \A i \in Invocations :
    \/ procs[i] # <<>>
    \/ \E a \in Approvals : <<i, a>> \in requests \/ claimedBy[a] = i
    => /\ primary[Journal[i]]["started"] = i
       /\ sidecar[Journal[i]]["started"] = i

EvidenceKept ==
  \A j \in Journals, d \in Docs :
    /\ primary[j][d] # Nobody => primary'[j][d] = primary[j][d]
    /\ sidecar[j][d] # Nobody => sidecar'[j][d] = sidecar[j][d]

(* The evidence of an earlier attempt is retained: no step replaces or     *)
(* removes a record or a sidecar that exists (O_EXCL in write_new_json).   *)
EvidenceIsAppendOnly == [][EvidenceKept]_evidence

(* A live payload starts only after the inventory projection ran to its    *)
(* end and its artifact is durable, sidecar included.                      *)
ProjectionPrecedesLivePayload ==
  \A i \in Invocations :
    PayloadLaunched(i) /\ Live[i] =>
      /\ procs[i][1] = [phase |-> "prelive", fate |-> "ok"]
      /\ primary[Journal[i]]["prelive"] = i
      /\ sidecar[Journal[i]]["prelive"] = i

(* The time by which the payload's windows were judged was read after the  *)
(* broker had burned every approval: no approval is claimed too late and   *)
(* then used on the strength of an earlier look at the clock.              *)
ClaimedWithinWindow ==
  \A i \in Invocations :
    PayloadLaunched(i) =>
      /\ Auth[i].from <= observed[i] /\ observed[i] < Auth[i].to
      /\ \A a \in NeededSet(i) :
           /\ Window[a].from - Skew <= observed[i]
           /\ claimTime[a] <= observed[i]
           /\ observed[i] < Window[a].to

(* An input that changed before the payload's boundary began stops the     *)
(* attempt before the payload exists, also when the change came after an   *)
(* earlier boundary had passed it.                                         *)
TamperStopsPayload ==
  \A i \in Invocations :
    PayloadLaunched(i) =>
      base[i] \cap {"trust", "snapshots", "ssh", "attestation",
                    "extra_vars"} = {}

(* A record that says SUCCEEDED was earned: the payload ran to its end and *)
(* was the last process, every approval had been burned for this           *)
(* invocation, no re-measured input had changed by the time it returned,   *)
(* the artifact is durable and the private tree is gone.                   *)
SuccessIsEarned ==
  \A i \in Invocations :
    status[i] = "SUCCEEDED" =>
      /\ procs[i] = (IF Live[i] THEN <<[phase |-> "prelive", fate |-> "ok"]>>
                                ELSE <<>>)
                    \o <<[phase |-> "payload", fate |-> "ok"]>>
      /\ \A a \in NeededSet(i) : claimedBy[a] = i
      /\ exitTaint[i] \cap {"snapshots", "attestation", "runtime",
                            "backend"} = {}
      /\ Artifact[i] => sidecar[Journal[i]]["artifact"] = i
      /\ listed[i] = (Len(Needed[i]) > 1)
      /\ ~tree[i]

(* The phases of a final record are those of the processes that existed,   *)
(* in order and with their true outcome; only an attempt that failed to    *)
(* create or to supervise its last process may list it as process_start.   *)
PhasesTellWhatRan ==
  \A i \in Invocations :
    Recorded(i) =>
      /\ Len(procs[i]) <= Len(phases[i])
      /\ \A m, n \in 1..Len(phases[i]) :
           phases[i][m].phase = phases[i][n].phase => m = n
      /\ \A n \in 1..Len(phases[i]) :
           IF phases[i][n].outcome = "process_start"
           THEN /\ n = Len(phases[i])
                /\ n <= Len(procs[i]) =>
                     procs[i][n] = [phase |-> phases[i][n].phase,
                                    fate |-> "abandoned"]
           ELSE /\ n <= Len(procs[i])
                /\ procs[i][n] = [phase |-> phases[i][n].phase,
                                  fate |-> phases[i][n].outcome]

(* A private tree, which holds the sealed SSH key, never outlives the      *)
(* attempt in silence: it is gone, or the final record says so, or there   *)
(* is no final record at all.                                              *)
RetainedTreeIsReported ==
  \A i \in Invocations :
    Recorded(i) /\ tree[i] => status[i] = "RAW_RETENTION_FAILED"

(* An admitted invocation comes to its end, by itself or by a kill.        *)
EveryAttemptEnds ==
  \A i \in Invocations : pc[i] = "inputs" ~> pc[i] \in NotRunning \ {"idle"}

(* An invocation whose removal does not fail takes its private tree away   *)
(* on every path out of the try statement, an exception that no clause     *)
(* catches included.  The tree, with the sealed key in it, stays behind    *)
(* when the process is killed or when such an exception arrives outside of *)
(* the try statement: before it, or in the finally clause.                 *)
PrivateTreeIsRemoved ==
  \A i \in Invocations :
    tree[i] ~> (~tree[i] \/ pc[i] \in {"killed", "escaped"})

(* "A started journal is written before governed process creation and a    *)
(* separate final record is written afterwards."                           *)
FinalRecordFollowsProcess ==
  \A i \in Invocations : pc[i] = "ended" /\ procs[i] # <<>> => Recorded(i)

-----------------------------------------------------------------------------
(* The recorder implements one-shot execution.                             *)

Verdict(i) ==
  IF primary[Journal[i]]["result"] # i THEN "NONE"
  ELSE IF status[i] = "SUCCEEDED" THEN "SUCCEEDED" ELSE "NOT_SUCCEEDED"

OneShot == INSTANCE OneShotExecution WITH
  Slots <- Journals,
  Slot <- Journal,
  Needs <- [i \in Invocations |-> NeededSet(i)],
  slotOwner <- [j \in Journals |-> primary[j]["started"]],
  owner <- claimedBy,
  ran <- {i \in Invocations : PayloadLaunched(i)},
  verdict <- [i \in Invocations |-> Verdict(i)]

(* Every step of main(), of the broker and of the environment is a step of *)
(* OneShotExecution or changes nothing it can see.                         *)
ImplementsOneShot == OneShot!Spec

(* The inductive invariant behind the theorems of GovernedExecProofs.      *)

(* Which stages a step belongs to, and how far the claims have got.        *)
ControlOK ==
  \A i \in Invocations :
    /\ pc[i] \in {"idle", "inputs", "probe"} => stage[i] = "journal"
    /\ pc[i] \in {"write", "sidecar"} => stage[i] # "claim"
    /\ pc[i] \in {"boundary", "revalidate"} =>
         /\ stage[i] \in {"claim", "prelive", "payload"}
         /\ stage[i] = "claim" => held[i] = 0
    /\ pc[i] \in {"claim", "reply"} =>
         stage[i] \in {"claim", "prelive"} /\ held[i] < Len(Needed[i])
    /\ pc[i] \in {"start", "running"} => stage[i] \in {"prelive", "payload"}
    /\ pc[i] = "running" => procs[i] # <<>>
    /\ pc[i] \in {"read_back", "remeasure"} => stage[i] = "payload"
    /\ pc[i] \in {"post_claim", "cleanup", "conclude"} => stage[i] # "report"
    /\ stage[i] = "journal" => held[i] = 0

(* Nothing happens behind the journal's back.                              *)
JournalOK ==
  \A i \in Invocations :
    /\ journaled[i] => /\ primary[Journal[i]]["started"] = i
                       /\ sidecar[Journal[i]]["started"] = i
    /\ pc[i] = "sidecar" /\ stage[i] = "journal" =>
         primary[Journal[i]]["started"] = i
    /\ stage[i] # "journal" \/ pc[i] = "probe" => journaled[i]
    /\ procs[i] # <<>> => journaled[i]
    /\ \A a \in Approvals :
         <<i, a>> \in requests \/ claimedBy[a] = i => journaled[i]

(* What an invocation believes to hold, the broker's store holds for it.   *)
ClaimsOK ==
  \A i \in Invocations :
    /\ \A n \in 1..held[i] : claimedBy[Needed[i][n]] = i
    /\ reply[i] = "CLAIMED" =>
         /\ held[i] < Len(Needed[i])
         /\ claimedBy[Needed[i][held[i] + 1]] = i
    /\ PayloadLaunched(i) => held[i] = Len(Needed[i])

=============================================================================
