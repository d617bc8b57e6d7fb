# Verification of modulix-automation

TLA+ models, TLC runs and TLAPS proofs for this repository. The models follow
the code under `src/`; every definition that stands for code is listed with its
lines in the `map` of `PROJECT.json`.

The repository is mostly Ansible content. Its own program logic, and everything
in it that has to survive crashes, races and lost answers, is concentrated in
`scripts/governed-ansible-exec.py`, the *governed recorder*: a root program that
runs one approved Ansible action under signed, single-use approvals and leaves
an evidence record. The project starts there and goes on to the parts around it
that have state and an order to get wrong: the recorder's snapshots, events and
file checks, the exact-revision review of pull requests, the launcher that holds
controller credentials, and the management backup.

## 1. Inventory

| Component | State it keeps | Operations | Interacts with |
|---|---|---|---|
| Recorder protocol (`main`, `write_new_json`, `revalidate_execution_boundary`, `invoke_replay_broker`) | evidence directory (started record, artifacts, result record, each with a sidecar), private runtime tree, locals of `main` | admit, pin inputs, journal, probe, three boundaries, claim, projection, payload, artifacts, final checks, cleanup, final record | replay broker, supervisor, files, clock |
| Bounded subprocess (`run_bounded`) | child, two pipes, buffers, deadlines, termination reason | timeout, output limit, SIGTERM, SIGKILL, forced close, two waits, forwarded signals | recorder, operating system |
| Replay broker, process supervisor | append-only store of burned approvals; job of the running process | `claim`, `verify`; `run` | external root services, called by the recorder |
| Validators (trust, policy, manifest, approvals, authorization, extra-vars) | none | `validate_*`, signature checks | recorder |
| Repository snapshots (Git audit, object reading, materialisation, hashes) | read-only trees below the private tree | create, verify, anchor check | recorder |
| Events and artifacts (`parse_events`, recap, typed artifacts, projections, callback plugin) | none | parse, select, validate | payload output |
| Commands and environments | none | `build_command`, `make_environment`, ... | recorder |
| Root launchers (`wbx-governed-exec.py`, `governed-ansible-root-launcher`) | none | check and `exec` the recorder | operating system |
| Controller launcher and lookup (`lit_controller_onepassword.py`) | sealed memory file, child process group, runtime directory | read stdin, seal, launch, look up, kill, wait | 1Password transport, Ansible |
| Encrypted backup (`31-management-backup.yml`, `lit_encrypted_backup.py`, `lit_bounded_slurp.py`, `lit_controller_vault_password.py`) | dump on the managed host, ciphertext on the controller, object in a bucket, notified handlers | dump, encrypt, upload, read back, compare, remove, publish | PostgreSQL role, object store |
| Vault lifecycle playbooks (15 to 19) | Vault, controller escrow, external custody, AppRole | plan, initialise, resume, finalise, snapshot, restore drill | Vault, 1Password |
| Hetzner, LUKS, Tang playbooks | provider firewall, rescue keys, headers | activate, retire, unlock, back up | provider API, hosts |
| `ansible-nav`, `ansible-nav-local` | staging directories for secrets and SSH | stage, run container, clean up | container engine |
| Review materializer (`materialize-exact-revision-review.py`) | workspace directory with patch and metadata, descriptors, scratch directory | `materialize`, `bind-assets`, `verify` | GitHub, Git, files |
| Review workflow (`release-bot-exact-head-review.yml`) | protected and neutral check run, step outputs, ledger of runs | deduplicate, read ledger, reserve, review, enforce, publish, close | GitHub, the AI reviewer |
| Merge and release workflows | pull requests, check runs | classify, merge, promote | GitHub |
| Platform, application, workbench playbooks, CIS normaliser, packaging | none of their own | sequential tasks, one-shot transformations | hosts, build services |

What is hard, and where:

* **Concurrency.** Two recorders may use the same approvals, the same execution
  ID, or both. They share the evidence directory and the broker, and no lock.
* **Crashes.** A recorder can die between any two steps. The payload runs in a
  session of its own and survives it, and so does a request at the broker.
* **Lost or late answers.** A broker call is given up after 30 s; the broker may
  still burn the approval, with nobody left to use it.
* **Time.** Windows of an authorization and of several approvals are judged at
  boundaries that read the clock once and then make slow calls.
* **Check and use.** Trust files, snapshots, sealed SSH files, the attestation,
  the extra-vars, the runtime and the container backend are pinned once and
  measured again at different points, not all of them at every point.
* **Failure paths.** Every file operation may fail, cleanup may fail, the final
  record may fail, and some exceptions are caught by nobody.
* **Processes.** A child may ignore SIGTERM, leave descendants on its pipes,
  close its pipes and live on, write without end, or exit at its deadline. The
  workers of a playbook share one descriptor, and its offset, with the launcher.
* **Remote state.** A check run may be created although the reply is lost, and be
  missing from a list although it exists; a pull request moves while its diff is
  computed; the same review may be dispatched twice or started again.
* **Templates as variables.** A name that holds the time is computed anew by
  each task that uses it.

`PROJECT.json` lists these as hazards, each at its line, with the properties that
cover it. The properties that make each modelled component correct are in
section 4; for the others, section 7 says what will be asked of them.

## 2. Modules

```
OneShotExecution          what the recorder promises
      ^  implements
GovernedExec              main(): the protocol              <- MCGovernedExec
                                                            <- GovernedExecProofs
RunBounded                run_bounded(): one child process  <- RunBoundedProofs
RepositorySnapshot        one commit becomes a private tree <- MCRepositorySnapshot
                                                            <- RepositorySnapshotProofs
GovernedEvents            play, callback plugin, recorder   <- MCGovernedEvents
                                                            <- GovernedEventsProofs
GitConfigGuard            two audits around a Git command
      ^  EXTENDS                                            <- MCReadGuards
TrustedRead (INSTANCE)    the readers of trusted files      <- ReadGuardsProofs on MCReadGuards

AtomicReplace             what a caller of the file functions may count on
      ^  implements                     ^  used by
OwnedFile  file functions,              ExactReview  materialize, bind-assets, verify
           call by call
      ^  EXTENDS                        ^  INSTANCE
      `------------ MCMaterializer -----'         <- MaterializerProofs
ReviewReservation         the exact-head review workflow
                            <- ReviewReservationProofs
ControllerLauncher        PID 1 of the credential launcher
                            <- ControllerLauncherProofs
EncryptedBackup           the management backup play
```

**OneShotExecution** is the abstract specification: an invocation reserves a slot
(an execution ID in an evidence directory), burns approvals one by one, runs its
payload once when it holds all of them, and may publish one verdict; nothing is
ever given back. `GovernedExec` is shown to implement it (`ImplementsOneShot`).

**GovernedExec** is `main()`. One action is one piece of code between two points
where other actors can be noticed or the program can fail:

| Code | State | Actions |
|---|---|---|
| checks before `try` | `pc`, `tree` | `Admit`, `RefuseAdmission` |
| inputs of the attempt, `prepare_approvals` | `pc` | `PinInputs` |
| `write_new_json` | `primary`, `sidecar`, `journaled` | `CreateRecord`, `CreateSidecar` |
| runtime provenance probes | `stage` | `Probe` |
| `revalidate_execution_boundary` | `observed` (its `now`) | `OpenBoundary`, `Revalidate` |
| `invoke_replay_broker("claim")` | `requests`, `reply`, `held` | `SendClaim`, `BrokerHandles`, `ReceiveReply` |
| `run_bounded` of projection and payload | `procs`, `phases`, `result` | `StartProcess`, `ProcessReturns` |
| `verify_consumer_claims`, last measurements | `listed` | `ReadBack`, `Remeasure` |
| `except ContractError`, `except OSError`, no clause | `error`, `result`, `phases` | `RaiseContractError`, `RaiseOSError`, `RaiseUncaught` |
| an exception before, in or after `finally` that nothing catches | `pc` | `EscapeTry` |
| `finally` | `error`, `tree` | `VerifyAfterwards`, `RemoveTree` |
| status, final record | `status` | `Conclude`, `ReportFails` (and the two `write_new_json` actions) |
| the world | `now`, `tampered`, `markers`, `pc` | `Tick`, `Tamper`, `Mark`, `Kill` |

`stage` tells which part of the protocol a repeated piece of code belongs to:
`boundary` with stage `claim`, `prelive` and `payload` are the three boundaries of
`main()`, `write` with stage `journal`, `prelive`, `payload` and `report` are its
four uses of `write_new_json`. `held` is `execution_claim` and
`consumer_broker_claims`: how many of the invocation's approvals, in the order
of the code, have been seen claimed. `procs`, `base` and `exitTaint` are history:
no action reads them except to continue them.

Abstracted: the content of records, documents and signatures. A check that can
fail for reasons the model does not know is a `RaiseContractError`, which is
possible at every step of the `try` statement except while `run_bounded` is
running (it reports through its result). A file operation that fails is a
`RaiseOSError`. `invoke_replay_broker` turns `OSError` into `ContractError`, so
claim steps have none. An exception that `main()` does not name, a
`KeyboardInterrupt` above all, is `RaiseUncaught` inside the `try` statement, whose
`finally` clause then runs, and `EscapeTry` outside of it: between the creation of the
tree and the `try` (part of `inputs`), in the read-back and the removal of the `finally`
clause, and in the final record. It ends the program where it stands, tree
included. `ReportFails` is the final record that cannot be written: a field it
may not hold, a name that is taken, a failing write, or the fsync of the directory
when the sidecar exists already. The broker's store is external: the model has what the
recorder relies on, that it burns an approval once and answers `CLAIMED` only to
the request that burned it. A read-back (`verify`) succeeds only for a burned
approval.

**RunBounded** is `run_bounded()`: each round of its loop is `TopOfRound`
(timeout, exit of the child), `Select` (reading, output limit) and
`BottomOfRound` (SIGKILL, pipe deadlines), followed by `Wait`, `KillAndWaitAgain`,
`RaiseTimeoutExpired` and `Return`. The child and its descendants write, pass on
and close pipes and exit when they like. `GovernedExec` uses the function as one
step with three outcomes (`ok`, `nonzero`, `terminated`) or an exception; `Returns`
and `TimeIsBounded` justify that it always ends.

**RepositorySnapshot** is one repository on its way into the private tree. The
object store is a constant function from tree names to lists of entries; the
working head may move at any time (`Checkout`).

| Code | State | Actions |
|---|---|---|
| `collect_repository_state` | `head`, `stack` | `CollectState` |
| `materialize_git_tree` | `stack` (the recursion), `pending`, `seen`, `counters`, `disk` | `EnterTree`, `TakeDirectory`, `TakeFile`, `RefuseEntry`, `LeaveTree` |
| `read_git_object`, `write_snapshot_blob` | `disk` | `ReadFails`, `CreateFile`, `WriteFile` |
| `make_snapshot_read_only`, `create_repository_snapshots` | `evidence` | `Publish` |
| `verify_repository_snapshots`, `snapshot_tree_sha256` | `pc`, `scan` | `ScanModes`, `ListEntries`, `ReadEntry`, `CompareDigests` |
| the world | `disk` | `Tamper` |

Names are model values with a `Fold` that stands for NFC normalisation and case
folding and an `Order`; a blob is a name with a size and a `Text`, and a file grows by
partial writes. The digest of a tree is the stream that is hashed: for each entry in
sorted order a frame (path, kind, executable bit), behind that of a file its
content, and no lengths. A blob may hold symbols that are frames, so two
different trees can have one digest, as in the code; a frame is one symbol, so a frame that
begins in one path and ends in another file's content is not represented. A
verification counts files and bytes, lists the entries, reads them one by one
and compares. `Tamper` may come before, between and during all of that; `scan.raced`
remembers a change, after the counts, of something the pass had still to list or
to read.

**GovernedEvents** follows a result from a task to an artifact: `RunTask` (Ansible),
`EndPlay` and the recap (the callback plugin), the lines on standard output, any
of which may be lost behind half a line of other output, `Parse*` (`parse_events`), `ValidateRecap`,
`WriteArtifact` and the refusals. A payload is one of the kinds the code tells
apart: exact, with an extra field, with a missing one, of a wrong type, off the
target, no mapping, or with a secret in a key the recorder's pattern knows, in one only the plugin's pattern
knows, or in a value.

**GitConfigGuard** is `run_git_streaming`: `ReadControlFile` and `InspectDirectory` in the
order of `resolve_local_git_config`, then the command, which reads any file any
number of times, then the same audit again and `Compare`. `Change` may write, create or
remove any control file at any point; each change leaves a stamp that no earlier
state had, as inode and times do, on the file and, when an entry comes or goes, on
its directory. A repository is `standalone`, a linked worktree, or has a `.git` file that points to its
one Git directory. The command itself may find a stale index: Git would then write
a new one, with a lock file that comes and goes in the Git directory, unless
`GIT_OPTIONAL_LOCKS` is `"0"` (`GitEnvironment`), and a directory that Git has changed bears
a stamp of Git's own. The directories above the repository stay in place.

**TrustedRead** holds `read_trusted_file` and `read_trusted_inherited_fd`: `CheckName`, `Open`
or `Bind`, `Stat`, `ReadChunk` or `PreadChunk`, `StatAgain`, `Verify`. The file may be rewritten
in place, its metadata changed, its name moved to another inode, and the offset
of a shared descriptor moved, between any two of them.

**MCReadGuards** explores `GitConfigGuard` and `TrustedRead` in one run: the guard is chosen
in the initial state and the other one's variables keep a fixed value, so that
the states of the two add up and are not multiplied. **MCMaterializer** does the same
for the two levels of the review materializer.

**OwnedFile** is one call of `write_owned_regular_file`, `protected_asset_bytes` or
`validated_runner_temp`, system call by system call. `fd` says of each descriptor
whether it is open, closed, in doubt after a failed close, or closed twice. The
walk of `open_owned_parent_directory` is `OpenNext`, `ClosePrevious`, `ParentChecked`; the
writer is `OpenFile`, `InspectTarget`, `CreateTemporary`, `WriteSome`, `SyncTemporary`, `ReadBack`,
`CloseTemporary`, `Replace`, `SyncDirectory`; the finally clauses are the last four
actions of `Step`. `target` is what the name means now and `settled` what it means
after a power failure.

**AtomicReplace** is what the callers may count on, and **ExactReview** uses just that for
its writes (`WriteOutcome`). Its actions are the statements of `materialize` (`ReadLive`,
`ComputeDiff`, `MakeDirectory`, `WritePatch`, `WriteMetadata`, the clean-up, `ReadLiveAgain`),
`bind_assets` (`BindAsset`, `Rewrite`) and `verify` (`ComparePatch`, `CompareMetadata`), with
`LeaveScratch` for the temporary directory. `Change` lets the pull request move or
close, assets and the directory's files change, and foreign files appear.

**ReviewReservation** has one process per workflow run of one immutable input. Each
step of the job is an action with the step's `if:` condition; a failing call ends
the step and the `always()` steps follow. `result` and `neutral` are the check runs a
run created, `Hide` and `Appear` change what a listing shows, `Fault` covers a POST whose
check exists although the reply is lost, and `Lost` a runner that vanishes. `Start` obeys the concurrency
group: one run of an input at a time.

**ControllerLauncher** is PID 1 of a fresh PID namespace: `ReadInput` under a deadline,
`Decode`, `CreateMemory`, `FillMemory`, `SealMemory`, `CreateRuntime`, `Spawn`, `Wait`, `KillGroup`, `Reap`,
`Cleanup`, `Report`, `Close`. `Interrupt` is a signal at any of them. When PID 1 exits the kernel
kills the namespace (`Gone`).

**EncryptedBackup** has one action per task of the play and per handler; each works on
the name of the second in which it runs.

**MCGovernedExec**, **MCRepositorySnapshot** and **MCGovernedEvents** hold the scenarios for TLC.

## 3. Runs

| Run | Scenario | Question |
|---|---|---|
| `replay_race` | 2 live invocations, same 2 approvals, 2 directories; kills, OSErrors, uncaught exceptions, a broker that need not answer | at most one payload per approval; one-shot execution is implemented; attempts end, and private trees go unless the attempt is killed or left outside its `try` |
| `journal_race` | 2 invocations, same directory and ID, 3 approvals with windows that open and close at different times, skew 1, clock 0..4 (race or retry after a crash) | nothing without a journal; records never replaced; phases tell what ran; the clock reading that judges the payload is later than every claim |
| `tamper` | 1 live invocation, all 7 inputs may change at any step, a local marker may appear, cleanup may fail | what stops a payload, what SUCCEEDED rests on, what the record says of a retained tree |
| `uncaught_exception` | 1 invocation, uncaught exceptions | finding, see section 6 |
| `run_bounded` | 1 child, timeout 4, limit 2 chunks, 4 writes, graces 2, 3, 1, 2 | meaning of the result, time bound, termination |
| `repository_snapshot` | every root of at most 2 entries over a tree of at most 2 and one below it; colliding and unsafe names, a shared subtree, sizes below, at and above the limit; files that hold the frames of others; 2 files, 3 bytes, 2 per file, depth 1; 3 changes after publication, during a verification too | published is the commit; verified is the commit unless a change raced the reading; disk bounded at every moment |
| `governed_events` | 4 policy actions, 2 task results on 2 hosts with 6 statuses and 9 kinds of payload, any line lost | artifacts genuine and single; accepted plays clean; secrets stay behind |
| `read_guards` | 2 changes at any point of an audited Git command in 3 layouts, with a fresh or a stale index, or of a read of files of up to 4 chunks (limit 2) over 2 inodes | accepted means one audited version; quiet inputs are not refused |
| `materializer` | depth 2, payload of 2 writes, any call failing, kill and power failure; or 4 commands, 2 assets, 3 changes | descriptors closed once, outcome told, atomic replacement; success bound to revisions and assets; no partial workspace |
| `review_reservation` | 3 runs, 2 faults, 2 hides | one AI invocation; PASS earned; conclusions stand; nothing left open |
| `controller_launcher` | limit 2, chunk 2, item of up to 4, 2 workers, timeouts 2, 2, 1 | workers get the whole item; no holder of the credential survives; it ends |
| `encrypted_backup_name` | clock of 2 seconds | finding, see section 6 |

Bounds. Two invocations are enough for races on one approval or one directory:
the properties relate pairs. Three approvals cover the execution approval, a
first and a last consumer approval, so that a claim may fail in the middle. The
clock run needs ticks between the windows' edges; five values give a window that
is still closed, opens by skew, is open and has expired. In `run_bounded` the graces
keep the order of the code's 5 s, 7 s, 2 s and 5 s (exit grace below kill grace
below pipe grace), and four writes allow output at, below and above the limit on
both pipes. `MaxTime = 0` in the other runs of `GovernedExec` switches the clock off:
their windows are always open.

A snapshot with two files and one level of directories reaches each of the four
limits, one below it and one past it, and a second entry for a collision. Two
later changes make a tree that hashes like the commit's (remove a file, and put
its frame and its content into its neighbour); three make one that has the same
counts too (change a file, remove its neighbour, add another), when a file of the
commit holds a frame. Two changes are what it takes to change a file and to restore it (`read_guards`). Two
payload units allow a short write and a torn file; depth 2 has a directory
before, at and after each hop. Four commands are a failed `materialize`, a second
one, `bind-assets` and `verify`, with a change between any two of them. Three
workflow runs are an original, a duplicate or restart, and one more that finds
what both left; two faults allow one in a step and one in the step that cleans
up after it. `MaxRuns`, `MaxFaults`, `MaxHides`, `MaxCalls`, `MaxChanges`, `MaxTampers`, `MaxResults`,
`MaxWrites`, `MaxItem` and `MaxTime` are bounds of the exploration; `MaxFiles`, `MaxBytes`,
`MaxFileBytes`, `MaxDepth`, `MaxOutput`, `MaxSize` and `Limit` are the code's own limits, scaled down.

Deadlock is not checked: an invocation, a function, a play or a job that has
ended stops for good. That they do not stop earlier is `EveryAttemptEnds`, `Returns` and
`LauncherEnds`.

Every property of a passing run has a seeded defect (the operators marked
"Seeded defect") that TLC finds with it: a missing O_EXCL, a broker status that is not
compared, a boundary that reuses the first clock reading, SSH inputs not checked
again, a phase flag that is not reset, and so on.

## 4. Properties

* `OnePayloadPerApproval`: whichever invocations race and whatever is lost, an
  approval starts at most one payload.
* `ConsumptionIsJournaled`: whoever has requested or burned an approval or created
  a process owns a complete started journal.
* `EvidenceIsAppendOnly`: no step replaces a record.
* `PhasesTellWhatRan`: the phases of a published record are the processes that
  existed, in order, with their true outcome, except a last one the recorder
  lost track of.
* `ProjectionPrecedesLivePayload`, `TamperStopsPayload`, `ClaimedWithinWindow`: what
  must hold when a payload starts.
* `SuccessIsEarned`: everything a SUCCEEDED record implies.
* `RetainedTreeIsReported`: a private tree that survives is in the record.
* `ImplementsOneShot`: refinement of `OneShotExecution`.
* `EveryAttemptEnds`, `PrivateTreeIsRemoved`: liveness.
* `SuccessIsComplete`, `CaptureIsBounded`, `TimeIsBounded`, `SurvivorWasKilled`,
  `AnomalyIsReported`, `Returns`: `run_bounded`.
* `PublishedIsTheCommit`: a published tree lists exactly what recursion over the tree
  objects of the frozen commit yields. `VerifiedIsTheCommit`: what a verification that
  passes has read, entry by entry, is that too, under two conditions that the code
  needs: nothing was changed, after the counts were taken, that it had still to read
  (`raced`), and no file of the commit holds what reads like a frame (`OneReading`).
  Without the counts a tree with one file less would pass (the seeded defect
  `NotCounted`). `DiskIsBounded`: the limits hold at every moment of the walk.
* `ArtifactIsGenuine`, `AcceptedPlayWasClean`, `SecretsStayBehind`: what a typed artifact
  and an accepted play rest on, although lines may be lost. `ArtifactIsGenuine` counts
  lines: of two of one type that reach it the recorder takes neither; when the
  line of one of two results is lost, it takes the other. No exit code is taken to
  tell how the tasks went, so the recorder's counters decide by themselves.
* `GitReadWhatWasAudited`: an accepted Git command read nothing but audited
  configuration, changes that were taken back included. `AcceptedIsOneVersion`: the
  bytes of a trusted file are one version of it. `QuietReadsSucceed`: neither guard
  refuses a repository or a file that nobody else changes; it has a seeded defect for each of
  the two (`DefaultEnvironment`, `ReadSharedChunk`).
* `ClosedOnce`, `OutcomeIsTold`, `ImplementsAtomicReplace`: the file functions;
  `SuccessIsBound`, `NoPartialWorkspace`: the commands of the materializer.
* `OneInvocation`, `PassIsEarned`, `ConclusionsStand`, `NothingLeftOpen`: the review workflow.
* `ItemIsWhole`, `HoldersAreGone`, `LauncherEnds`: the credential launcher.

The types of `OwnedFile`, `ExactReview`, `TrustedRead`, `GitConfigGuard`, `ReviewReservation`,
`RepositorySnapshot`, `GovernedEvents`, `ControllerLauncher` and `RunBounded` are a conjunct of
one of these properties each.

Fairness. `Spec` of `ControllerLauncher` assumes weak fairness of the launcher and of
the clock, and nothing of the producer or the playbook: the launcher waits only
with a timeout. `FairSpec` of `GovernedExec` assumes weak fairness of each invocation's own
steps: `main()` waits for nothing but child processes, and each of those runs
under `run_bounded`, which ends. Nothing is assumed of the broker: its timeout is a
`RaiseContractError`. Nothing is assumed of `Admit`, and kills may happen at any step:
`PrivateTreeIsRemoved` leaves out the recorders that were killed and those that an
exception nobody names has ended outside of the `try` statement, in the `finally` clause
for one: nothing in the code cleans up after either. `FairSpec` of `RunBounded` assumes
that the function keeps running, and nothing of the child.

## 5. Proofs

`GovernedExecProofs` proves, for any sets of invocations, directories and approvals,
any needs and windows and any faults, from `GovernedAssumption` only (the types of
the constants, every invocation needs at least one approval, `Nobody` is not an
invocation):

* `Invariance`: `IInv` is inductive. It is the conjunction of
  `TypeOK` (with the count of claims inside its bounds),
  `ControlOK` (which stages a step belongs to),
  `JournalOK` (nobody consumes or launches before its journal is in place) and
  `ClaimsOK` (what an invocation counts as claimed is burned *for it*, and a
  payload is launched only when it holds everything).
* `TypeCorrect`, `ApprovalsAreSingleUse`, `ConsumptionIsAlwaysJournaled`,
  `EvidenceIsNeverReplaced`: the run properties of section 4, for all instances.

`OnePayloadPerApproval` alone is not inductive: it says nothing of an invocation
about to launch. `ClaimsOK` supplies it: a `CLAIMED` reply that is still under way
already names the owner in the store, so a launch implies that the store names
this invocation for each of its approvals, and a store names one owner.
`JournalOK` needs that a journal found is never replaced, which holds because
`CreateRecord` requires a free name; the same fact is `EvidenceKept`.

The second part of the module is about what an attempt did and what its record says of it.
`HInv` adds to `IInv`, for each invocation (`HistoryOK`) and for the clock (`ClockOK`):
`ProcsOK` (which processes exist at each step, and how they ended), `BoundaryOK` (what
the last look at the clock and at the inputs justifies), `ReportOK` (what has been
established when a status is decided), `PhasesOK` (how the phases that `main()`
collects run beside the processes that existed) and `RequestsOK` (what a request to
the broker says of its sender). An invocation's history changes only by its own
steps: `Locality` and `OthersLeaveAlone` say so once, so that each part needs to be
looked at for the steps of one invocation only, and `SharedIsKept` lists what the
steps of the others may do to the shared store, clock and files. From it follow

* `LivePayloadsAreProjected`, `PayloadsStartWithinWindows`, `TamperingStopsPayloads`,
  `SuccessesAreEarned`, `PhasesAreTrue` and `RetainedTreesAreReported`, which are the other
  safety properties of `main()`, and
* `RecorderIsOneShot`: `GovernedExec` implements `OneShotExecution` in every instance
  (`OneShotStep` maps every action to an abstract step or to a stutter). Fairness has no part in it.
* `PayloadsExcludeEachOther`: what one-shot execution is for (`PayloadsAreExclusive`), in every instance.

`RunBoundedProofs` proves the five safety properties of `run_bounded` from
`RunBoundedAssumption`, for every timeout, limit and grace period and any amount of
output. The invariant is `TypeOK` with `OutputOK` (what was written is read or still in
its pipe; a pipe that was given up without force is at its end), `ReasonOK` (where a
reason comes from) and `ClockOK`, which bounds the clock at each step: the loop
ends at most `PipeGrace` after a termination, and that begins at `Timeout + 1` at the latest.

`RepositorySnapshotProofs` proves `PublishedSnapshotIsTheCommit` and
`SnapshotDiskIsBounded`, for any object store, names, folding of names, limits and
number of later changes, from `RepositorySnapshotAssumption` only (the types of the
constants: an entry names a tree or a blob by its mode, a blob has a size). The
reference is not a recursive function of the tree but the set of its chains: a chain
leads from the root through one entry of each tree to a file or a directory, and
`Contents` is what a listing has to show for each. `Chains` reaches one level below the
deepest that the walk enters, so a listing that equals it leaves out nothing deeper
either. The walk is then compared with it chain by chain:

* `OpenOK`: each open tree is what some chain leads to, and its directory is on disk
  under its own spelling (not under another name with the same folded form).
* `SoundOK`: what is on disk is what a chain leads to, but for the file that is being
  written.
* `CompleteOK`: a chain is on disk (`Done`), or it goes through an entry that an open tree
  has yet to come to, or through the tree that is about to be entered (`Waits`). `AtEntry`
  says where a chain goes that has been waiting for the entry just taken: it ends there,
  or goes on into its tree. At the end of the walk nothing is open, so nothing waits.
* `CountsOK`: the counters run ahead of the disk by the file in hand, and by nothing
  else, at each step. Bytes are counted as the set of the positions in each file
  (`Stored`), which turns the sum into a cardinality (`Grown`).
* `EvidenceOK`: from the publication on, a tree that nobody has changed lists the
  commit, and the evidence has its counts.

`VerifiedIsTheCommit` has no theorem: that two listings of as many files and bytes with one
stream are one listing is an induction over the stream.

`HandOK` says what entry is in hand and that `seen` covers what is on disk, which is why
a directory is never merged with another and a file never truncates one.

`MaterializerProofs` speaks of `MCMaterializer`, which runs the file functions and
the three commands side by side (`EachLevel` takes the two specifications apart).
For the file functions it proves, from `OwnedFileAssumption`, for directories of any
depth and payloads of any size, `DescriptorsAreClosedOnce`, `CallersAreTold` and
`ReplacementIsAtomic`, the refinement of `AtomicReplace`. The invariant relates the
descriptors that are open to the step of the walk through the parents, and the
temporary file to the step of the replacement. For the commands it proves
`SuccessesAreBound` and `FailuresLeaveNothing` from `ReviewParameters`, for any number of
calls and of changes to the pull request, the assets and the files. `SuccessIsBound`
speaks of a call that has returned only; `KnowledgeOK` says at each step what the call
knows by then and will rest on, and that nothing it knows is taken from the files
again after it was checked. `NoPartialWorkspace` speaks of a call that has raised, and is
not inductive because an earlier call, or one that was killed, leaves a directory
too; `DirectoryOK` says at each step of the clean-up what is still in the directory,
and that anything else has been reported (`stray`, `reported`).

`ReadGuardsProofs` does the same for `MCReadGuards`, which runs the Git guard and a
reader of trusted files (`EachGuard` takes them apart). It proves

* `AuditsBracketTheCommand`, which is `GitReadWhatWasAudited`, for any number of
  changes. The property is about what a command saw, and the audits only look before
  and after it, so the inductive invariant (`IInv`) has to speak of the present files.
  `Stamps`: no stamp is later than the number of changes. `FirstAudit` and `Command`: a
  file that the first audit has passed is either as recorded (`Same`), and then the
  command has seen nothing else, or its stamp, or that of its directory, has moved
  on (`Gone`). `SecondAudit`: where the second record equals the first, the command has
  seen what was recorded. `Gone` is for ever (`ChangeMovesOn`), so that two equal
  records of an item rule it out.
* `AcceptedReadsAreWhole` (`AcceptedIsOneVersion`), for any files, sizes and changes. As
  long as the stamp of the open file is that of the first status (`Kept`), the file is
  what it was then (`HeldOK`), and what has been read is a prefix of it, up to the
  offset or to the reader's own position (`PayloadOK`). A change takes a stamp beyond
  all others, so a file changed in between is not `Kept` again and `StatAgain` refuses it.
* `QuietReadsAreServed` (`QuietReadsSucceed`), the converse: what nobody changes is not
  refused for a reason of the guard's own. `QuietAudit` says that both records are what
  there is, also after a command that found a stale index (`GitEnvironment` is expanded
  in the proof of that step, and nowhere else); `QuietRead` says that a position of
  the reader's own reaches the end of the file, whoever moves the shared offset.

`GovernedEventsProofs` proves the three properties of `GovernedEvents` from
`GovernedEventsAssumption`, for any actions, listed tasks and number of results:
`ArtifactsAreGenuine`, `AcceptedPlaysWereClean` and `SecretsAreRefused`. They relate what the
recorder accepts to what the tasks did, with lines in between that may be lost. So
the invariant goes the way of the data: `LinesOK` says of each line of the output
which result or which count it stands for; `TakenOK` says that the artifacts the parser
has taken are those of the lines it has read, one for one (a map `at` from the one
to the other, which `ParseArtifact` extends), so that one artifact of a type is one
line of it (`OneLine`); `JudgedOK` keeps what the recap had to say. `Counting` turns a
count of zero into "there is no such task".

`ReviewReservationProofs` proves `AskedOnce`, `SuccessesAreEarned`, `ChecksAreClosed` and
`ConclusionsAreFinal` (the four properties of `ReviewReservation`) for any number of
dispatches and faults, from `ReviewReservationAssumption` only. "At most one run has a
verdict" says nothing of how a run came to ask. The invariant says it of each step
of a run (`RunOK`): a run that has no reservation yet has left no trace (`EarlyOK`); one
that reserves afresh is the first run, because its ledger was empty, and every other
run that moves on holds a result that stands on a PASS (`BoundOK`); what the ledger
calls a success was one (`VerdictOK`); an open check belongs to the run that will close
it (`OpenOK`). `GroupOK` is the concurrency group: with one run at work, a step can only
close or publish a check of the other runs, which `OtherRun` shows to be harmless.

`ControllerLauncherProofs` proves `ItemsAreWhole` and `NoHolderRemains` (the two safety
properties of the launcher) from `ControllerLauncherAssumption`, for any limit, chunk
size, timeouts and number of workers. `InputOK`: what was written is read or still in the
pipe, so a read of nothing, which leaves room for a byte beyond the limit, is the end of
the item. `MemoryOK`: sealed memory holds all of it. `HoldersOK`: processes exist only
behind a seal, and none after the exit of the namespace's init. `OutcomeOK`: from the
group kill on, `KilledOff` stays true, because only a running playbook forks; a step
that skips the kill has the outcome "stopped". `Moved` says once what a step of the
launcher has to show, and the steps differ in what they change.

Every invariant, action property and refinement that a passing run checks, but for
`VerifiedIsTheCommit`, is thus proved for all instances. Only model-checked are

* `VerifiedIsTheCommit`, as said above,
* the liveness properties `EveryAttemptEnds` and `PrivateTreeIsRemoved` of `GovernedExec`,
  `Returns` of `RunBounded` and `LauncherEnds` of `ControllerLauncher`: they rest on
  fairness, hence on `ENABLED`, which the provers do not handle. What of them is safety
  is proved: `TimeIsBounded`, `RetainedTreeIsReported`, `HoldersAreGone`.
* the findings of section 6: a counterexample needs one instance only.

What the proofs take from the models they take as it is: an object stands for its hash, the
stream for its digest, and the environment for what sections 2 and 8 say of it.

## 6. Findings

The docstring of the recorder (lines 14 to 18) says that a started journal is
written before governed process creation and a separate final record afterwards.
`uncaught_exception` shows an attempt that ends with a process in its history and no
final record: an exception that is neither `ContractError` nor `OSError`, such as
`TimeoutExpired` of `run_bounded`'s second `wait` or `KeyboardInterrupt`, passes the
`finally` clause and leaves `main()`. The started journal, the burned approvals
and the removed tree are as they should be.

The README of the Wunderbox runbooks (line 91) says that the management backup
removes the transient plaintext. `encrypted_backup_name` shows a play that ends in
success with the plaintext dump left on the managed host: the name is a template
over `now()` with seconds, which every task evaluates again, so that a removal in a
later second looks for another file, does not find it and is content. (The upload
and the other tasks look for another name too; the run shows the shortest way to
a play that succeeds.)

Observations without a run. In the recorder, the statuses `FAILED` and `TERMINATED` (the
upper-cased termination reason) can never be published, because every result
but success raises `ContractError` first and the status becomes
`CONTRACT_FAILED`; and an attempt whose second consumer claim fails records no
consumer claim although the first was burned. A typed field of the type
`mapping` can never match, because `leaf_paths` descends into mappings. In the review
workflow, a duplicate dispatch that is queued before the ledger is read, or an
earlier run that failed before its AI step, blocks its input for good (it fails
closed); after a lost runner the neutral check stays in progress; the closing of
a stale reservation is safe only because the concurrency group keeps restarted
runs apart. In the materializer, a close of the parent directory that fails
after the replacement is reported as a failure, and since the bindings are in
place by then, a second `bind-assets` is refused.

## 7. Plan

Done: the recorder's protocol and its bounded subprocess, its snapshots, events
and file guards, the review materializer and workflow, the credential launcher,
the name of the management backup, two abstract specifications and the proofs of
section 5.

Next, in this order:

1. `ApprovalChecks`: `validate_approval_transport_shape`,
   `normalize_and_verify_approval`, `validate_authorization`, `validate_extra_vars` and
   the binding of an approval to target and action as pure operators, checked
   against a declarative definition over bounded documents; then used by
   `GovernedExec` in place of its window checks.
2. `BoundedOutput`: `git_output` of the materializer, with its exclusive limit, the
   sentinel byte and helpers that keep the pipes open.
3. `EncryptedBackup` in full: the bounded reader step by step, the exclusive
   output file and a retry in the same second.
4. `VaultLifecycle`: initialise, resume and finalise with crashes between Vault, the
   escrow files and external custody. Promise: one initialisation, no point at
   which the unseal material exists nowhere.
5. `ExactHeadMerge`: classification, review and merge against a moving head.
6. `WrapperStaging`: the staging directories and the EXIT trap of `ansible-nav`.

Left to prove: liveness stays with the runs. `EncryptedBackup` has no property that
holds and that says enough to be worth a theorem until its exclusive output file is
modelled (point 3).

## 8. Not modelled, and what the models leave out

See `components` in `PROJECT.json` for each part and the reason. In short: text and
schema work without state (commands, environments, CIS reports), start-up
programs, playbooks whose work is done by modules and services outside the
repository, and build scripts.

Inside the modelled parts: functions of the recorder that only tests call (the
local replay ledger's writer); the shape of documents and signatures;
`validate_item` and `public_ca_digest` of the launcher; the second workspace that
`verify` writes only to compare it; the contracts of single projection actions; the
anchor sources outside the repositories.

Simplified where no property depends on it: `ComputeDiff` of the review materializer is
one step; `CollectState` has the comparison of HEAD only, without the branch and the
clean worktree; an exception outside of the recorder's `try` statement is
possible in all of the step `inputs`, which begins before the `try` and ends in it.

Assumptions that carry weight: SHA-256 is taken to tell different streams apart;
in a stream a frame is one symbol; one repository stands for
all of them; a private tree is changed by others only after it was published;
NFC and case folding are one function `Fold`; no change of a control file restores
its inode and times; GitHub runs one job of a concurrency group at a time; a
close of a descriptor that fails may or may not have closed it.
