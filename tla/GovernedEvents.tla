--------------------------- MODULE GovernedEvents ---------------------------
(***************************************************************************)
(* From a task of the payload to a typed artifact: the callback            *)
(* callback_plugins/lit_governed_evidence.py that turns task results into  *)
(* event lines, and parse_events, validate_target_recap and the artifact   *)
(* branch of main in scripts/governed-ansible-exec.py that read them back. *)
(*                                                                         *)
(* A payload is named for what the checks tell apart; an event for the     *)
(* callback method that emits it.  External: the tasks that run and what   *)
(* becomes of the process; another writer that leaves half a line, so that *)
(* the event behind it is not seen at the start of a line.                 *)
(***************************************************************************)
EXTENDS Integers, Sequences, FiniteSets

CONSTANTS
  Actions,    \* the policy actions: mode, impact, allow_rescued, expected
  SafeTasks,  \* safe_artifact_tasks: task -> artifact type
  OtherTask,  \* a task that is not listed
  Target,     \* the approved target
  OtherHost,  \* another host
  MaxResults  \* bound: task results

ASSUME GovernedEventsAssumption ==
  /\ MaxResults \in Nat /\ OtherTask \notin DOMAIN SafeTasks /\ Target # OtherHost

Tasks    == DOMAIN SafeTasks \cup {OtherTask}
Hosts    == {Target, OtherHost}
Statuses == {"ok", "changed", "failed", "unreachable", "rescued", "ignored"}

(* exact: the fields of the schema; extra: more fields than projected;     *)
(* missing, off_target, mistyped: a schema that does not match; scalar: no *)
(* mapping; secret_key: a key both patterns refuse; api_key: a key only    *)
(* the callback refuses; secret_value: a scalar only the recorder refuses. *)
Payloads == {"exact", "extra", "missing", "off_target", "mistyped", "scalar",
             "secret_key", "api_key", "secret_value"}

Secrets == {"secret_key", "api_key", "secret_value"}

None == "none"

VARIABLES
  action,     \* the action that runs
  results,    \* the task results of the play, in order
  stdout,     \* the event lines at the start of a line
  exited,     \* what run_bounded reports: "running", "zero", "other"
  pc,
  line,       \* the next line of parse_events
  recaps, artifacts,
  artifact    \* the typed artifact that was written

vars == <<action, results, stdout, exited, pc, line, recaps, artifacts, artifact>>

Count(host, status) ==
  Cardinality({i \in DOMAIN results : results[i].host = host /\ results[i].status = status})

Processed == {results[i].host : i \in DOMAIN results}

TypeOK ==
  /\ action \in Actions
  /\ Len(results) <= MaxResults /\ Len(stdout) <= MaxResults + 1
  /\ \A i \in DOMAIN stdout : stdout[i].type \in {"artifact", "artifact_rejected", "recap"}
  /\ exited \in {"running", "zero", "other"}
  /\ pc \in {"play", "exit", "parse", "recap", "artifact", "accepted", "refused"}
  /\ line \in 1..MaxResults + 2
  /\ Len(recaps) + Len(artifacts) < line
  /\ artifact \in Payloads \cup {None}

Init ==
  /\ action \in Actions /\ results = <<>> /\ stdout = <<>> /\ exited = "running"
  /\ pc = "play" /\ line = 1 /\ recaps = <<>> /\ artifacts = <<>> /\ artifact = None

-----------------------------------------------------------------------------
(* The process: tasks and the callback.                                    *)

(* Seeded defect: the callback has the pattern of the recorder.            *)
SafeForRecorder(payload) == payload # "secret_key"

SafePayload(payload) == payload \notin {"secret_key", "api_key"}

ArtifactEvent(r) ==
  IF SafePayload(r.payload)
  THEN [type |-> "artifact", task |-> r.task, artifact_type |-> SafeTasks[r.task],
        payload |-> r.payload]
  ELSE [type |-> "artifact_rejected", task |-> r.task]

(* Seeded defect: the callback emits for every listed task.                *)
EmitsAlways(r) == r.task \in DOMAIN SafeTasks

(* v2_runner_on_ok is called for a task that succeeded.                    *)
Emits(r) == r.task \in DOMAIN SafeTasks /\ r.status \in {"ok", "changed"}

(* The line reaches the start of a line, or follows half of another.       *)
Display(event) == stdout' \in {stdout, Append(stdout, event)}

RunTask ==
  /\ pc = "play" /\ action.mode = "playbook" /\ Len(results) < MaxResults
  /\ \E t \in Tasks, h \in Hosts, s \in Statuses, p \in Payloads :
       LET r == [task |-> t, host |-> h, status |-> s, payload |-> p]
       IN /\ p # "exact" => Emits(r)
          /\ results' = Append(results, r)
          /\ IF Emits(r) THEN Display(ArtifactEvent(r)) ELSE UNCHANGED stdout
  /\ UNCHANGED <<action, exited, pc, line, recaps, artifacts, artifact>>

Recap == [type |-> "recap",
          hosts |-> [h \in Processed |-> [s \in Statuses |-> Count(h, s)]]]

EndPlay ==
  /\ pc = "play"
  /\ IF action.mode = "playbook" THEN Display(Recap) ELSE UNCHANGED stdout
  /\ pc' = "exit"
  /\ UNCHANGED <<action, results, exited, line, recaps, artifacts, artifact>>

(* The process ends by itself after the play or is stopped before that; no *)
(* exit code is taken to tell how the tasks went.                          *)
Exit ==
  /\ pc \in {"play", "exit"} /\ exited = "running"
  /\ exited' \in {"other"} \cup {e \in {"zero"} : pc = "exit"}
  /\ pc' = IF exited' = "zero" THEN "parse" ELSE "refused"
  /\ UNCHANGED <<action, results, stdout, line, recaps, artifacts, artifact>>

-----------------------------------------------------------------------------
(* The recorder: parse_events.                                             *)

Raise ==
  /\ pc' = "refused"
  /\ UNCHANGED <<action, results, stdout, exited, line, recaps, artifacts, artifact>>

RejectsSecrets(payload) == payload \notin {"secret_key", "secret_value"}

ParseRecap ==
  /\ pc = "parse" /\ line <= Len(stdout) /\ stdout[line].type = "recap"
  /\ recaps' = Append(recaps, stdout[line]) /\ line' = line + 1
  /\ UNCHANGED <<action, results, stdout, exited, pc, artifacts, artifact>>

ParseArtifact ==
  /\ pc = "parse" /\ line <= Len(stdout) /\ stdout[line].type = "artifact"
  /\ IF /\ SafeTasks[stdout[line].task] = stdout[line].artifact_type
        /\ RejectsSecrets(stdout[line].payload)
     THEN /\ artifacts' = Append(artifacts, stdout[line]) /\ line' = line + 1
          /\ UNCHANGED <<action, results, stdout, exited, pc, recaps, artifact>>
     ELSE Raise

ParseRejected ==
  /\ pc = "parse" /\ line <= Len(stdout) /\ stdout[line].type = "artifact_rejected"
  /\ Raise

ParseEnd ==
  /\ pc = "parse" /\ line > Len(stdout) /\ pc' = "recap"
  /\ UNCHANGED <<action, results, stdout, exited, line, recaps, artifacts, artifact>>

-----------------------------------------------------------------------------
(* validate_target_recap and the artifact.                                 *)

HostsAreTarget(recap) == DOMAIN recap.hosts = {Target}

(* Seeded defect: ignored failures are not refused.                        *)
CountersButIgnored(n) ==
  /\ n["failed"] = 0 /\ n["unreachable"] = 0
  /\ n["rescued"] = 0 \/ action.allow_rescued
  /\ action.impact = "read" => n["changed"] = 0

CountersAccepted(n) ==
  /\ n["failed"] = 0 /\ n["unreachable"] = 0 /\ n["ignored"] = 0
  /\ n["rescued"] = 0 \/ action.allow_rescued
  /\ action.impact = "read" => n["changed"] = 0

RecapAccepted ==
  IF action.mode # "playbook" THEN recaps = <<>>
  ELSE /\ Len(recaps) = 1 /\ HostsAreTarget(recaps[1])
       /\ CountersAccepted(recaps[1].hosts[Target])

ValidateRecap ==
  /\ pc = "recap"
  /\ IF RecapAccepted
     THEN /\ pc' = "artifact"
          /\ UNCHANGED <<action, results, stdout, exited, line, recaps, artifacts, artifact>>
     ELSE Raise

Matching == {i \in DOMAIN artifacts : artifacts[i].artifact_type = action.expected}

(* The projection keeps the fields of the schema and needs each of them.   *)
Projection(payload) == IF payload = "extra" THEN "exact" ELSE payload

Typed(payload) == payload = "exact"

OneEvent == Cardinality(Matching) = 1

Matched == artifacts[CHOOSE i \in Matching : TRUE].payload

WriteArtifact ==
  /\ pc = "artifact" /\ action.expected # None
  /\ OneEvent /\ Typed(Projection(Matched))
  /\ artifact' = Projection(Matched) /\ pc' = "accepted"
  /\ UNCHANGED <<action, results, stdout, exited, line, recaps, artifacts>>

NoArtifact ==
  /\ pc = "artifact" /\ action.expected = None /\ artifacts = <<>>
  /\ pc' = "accepted"
  /\ UNCHANGED <<action, results, stdout, exited, line, recaps, artifacts, artifact>>

RefuseArtifact ==
  /\ pc = "artifact"
  /\ IF action.expected = None THEN artifacts # <<>>
     ELSE ~(OneEvent /\ Typed(Projection(Matched)))
  /\ Raise

Process  == RunTask \/ EndPlay \/ Exit
Recorder == \/ ParseRecap \/ ParseArtifact \/ ParseRejected \/ ParseEnd
            \/ ValidateRecap \/ WriteArtifact \/ NoArtifact \/ RefuseArtifact

Next == Process \/ Recorder

Spec == Init /\ [][Next]_vars

-----------------------------------------------------------------------------
(* Properties.                                                             *)

(* A typed artifact that was written comes from a task that succeeded on   *)
(* the approved target, is listed for that type and returned exactly those *)
(* fields; results of other hosts, tasks and types never stand in for it.  *)
(* Of two lines of its type that the recorder sees it takes neither.  It   *)
(* does not say that the result was the only one of its type: another one  *)
(* whose line was lost behind other output leaves no trace.                *)
ArtifactIsGenuine ==
  artifact # None =>
    /\ Cardinality({i \in DOMAIN stdout :
         stdout[i].type = "artifact" /\ stdout[i].artifact_type = action.expected}) = 1
    /\ artifact = "exact"
    /\ \E i \in DOMAIN results :
         /\ results[i].host = Target /\ results[i].status \in {"ok", "changed"}
         /\ results[i].task \in DOMAIN SafeTasks
         /\ SafeTasks[results[i].task] = action.expected
         /\ Projection(results[i].payload) = artifact

(* What is accepted ran to the end of the play, on the target alone,       *)
(* without a task that failed or was ignored, without a rescue that the    *)
(* policy does not allow, and without a change where it only reads,        *)
(* however many of the lines were lost.  The types are part of it.         *)
AcceptedPlayWasClean ==
  /\ TypeOK
  /\ pc = "accepted" /\ action.mode = "playbook" =>
       /\ exited = "zero" /\ Processed = {Target}
       /\ \A i \in DOMAIN results :
            /\ results[i].status \notin {"failed", "unreachable", "ignored"}
            /\ results[i].status = "rescued" => action.allow_rescued
            /\ results[i].status = "changed" => action.impact # "read"

(* No payload with a secret-bearing key leaves the process, and none with  *)
(* a key or a value of that kind is taken up by the recorder.              *)
SecretsStayBehind ==
  /\ \A i \in DOMAIN stdout :
       stdout[i].type = "artifact" => stdout[i].payload \notin {"secret_key", "api_key"}
  /\ \A i \in DOMAIN artifacts : artifacts[i].payload \notin Secrets

=============================================================================
