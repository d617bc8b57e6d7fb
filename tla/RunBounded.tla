----------------------------- MODULE RunBounded -----------------------------
(***************************************************************************)
(* run_bounded() of scripts/governed-ansible-exec.py: one child process in *)
(* a session of its own, its two output pipes, and the loop that collects  *)
(* their output until both are closed, the time is up or there is too much *)
(* of it.  GovernedExec treats this function as one step that returns an   *)
(* outcome; this module is what happens inside.                            *)
(*                                                                         *)
(* Time is counted in units of one idle poll of the selector.  The child   *)
(* may ignore SIGTERM, die late, close its pipes while it lives on, and    *)
(* leave descendants that hold the pipes after it has exited.              *)
(***************************************************************************)
EXTENDS Integers, FiniteSets

CONSTANTS
  Timeout,     \* effective_timeout
  MaxOutput,   \* max_output_bytes, in chunks
  KillGrace,   \* from SIGTERM to SIGKILL (5 s)
  PipeGrace,   \* from SIGTERM to closing the pipes by force (7 s)
  ExitGrace,   \* from the observed exit to closing them by force (2 s)
  WaitGrace,   \* each process.wait(timeout=5)
  MaxWrites    \* bound: chunks the child and its descendants write

ASSUME RunBoundedAssumption ==
  /\ Timeout \in Nat /\ MaxOutput \in Nat /\ MaxWrites \in Nat
  /\ KillGrace \in Nat /\ PipeGrace \in Nat /\ KillGrace < PipeGrace
  /\ ExitGrace \in Nat /\ WaitGrace \in Nat

Streams == {"stdout", "stderr"}
Reasons == {"none", "timeout", "output_limit", "escaped_descendant_pipe",
            "closed_pipes_process_alive", "signal"}
Never   == -1

VARIABLES
  (* The child, its descendants and the pipes.                             *)
  leader,       \* "running", or how it exited: "zero" or "nonzero"
  leaderEnds,   \* the pipes the child still has open
  heldEnds,     \* the pipes some descendant has open
  pipe,         \* pipe[s]: chunks written and not read
  written,      \* how many chunks have been written in all
  (* The function.                                                         *)
  pc,           \* "top", "select", "bottom", "wait", "last_wait", "done",
                \* "raised"
  clock,        \* time.monotonic() - monotonic_start
  roundTime,    \* now_monotonic
  open,         \* the pipes registered with the selector
  total,        \* sum(totals.values())
  kept,         \* what the buffers hold
  reason,       \* termination_reason
  termination,  \* termination_started
  exitSeen,     \* process_exit_observed
  forced,       \* pipes_forced_closed
  interrupted,  \* interrupted_signal is set
  deadline,     \* when the current process.wait gives up
  (* Signals sent, and whether the child exited before the first of them.  *)
  signalled, killed, unprompted

child   == <<leader, leaderEnds, heldEnds, pipe, written, unprompted>>
capture == <<open, total, kept>>
timing  == <<clock, roundTime, termination, exitSeen, deadline>>
verdict == <<reason, forced, interrupted>>
signals == <<signalled, killed>>
vars == <<child, pc, capture, timing, verdict, signals>>

Ended == {"done", "raised"}

TypeOK ==
  /\ leader \in {"running", "zero", "nonzero"}
  /\ leaderEnds \subseteq Streams /\ heldEnds \subseteq Streams
  /\ pipe \in [Streams -> 0..MaxWrites] /\ written \in 0..MaxWrites
  /\ pc \in {"top", "select", "bottom", "wait", "last_wait"} \cup Ended
  /\ clock \in Nat /\ roundTime \in Nat /\ deadline \in Nat
  /\ termination \in Nat \cup {Never} /\ exitSeen \in Nat \cup {Never}
  /\ open \subseteq Streams
  /\ total \in Nat /\ kept \in 0..MaxOutput
  /\ reason \in Reasons
  /\ forced \in BOOLEAN /\ interrupted \in BOOLEAN
  /\ signalled \in BOOLEAN /\ killed \in BOOLEAN /\ unprompted \in BOOLEAN

Init ==
  /\ leader = "running" /\ leaderEnds = Streams /\ heldEnds = {}
  /\ pipe = [s \in Streams |-> 0] /\ written = 0
  /\ pc = "top"
  /\ clock = 0 /\ roundTime = 0 /\ deadline = 0
  /\ termination = Never /\ exitSeen = Never
  /\ open = Streams /\ total = 0 /\ kept = 0
  /\ reason = "none" /\ forced = FALSE /\ interrupted = FALSE
  /\ signalled = FALSE /\ killed = FALSE /\ unprompted = FALSE

-----------------------------------------------------------------------------
(* The loop.                                                               *)

Alive == leader = "running"

(* The timeout is looked at before the exit of the child is.               *)
TopOfRound ==
  /\ pc = "top"
  /\ roundTime' = clock
  /\ IF clock > Timeout /\ reason = "none"
     THEN reason' = "timeout" /\ termination' = clock /\ signalled' = TRUE
     ELSE UNCHANGED <<reason, termination, signalled>>
  /\ exitSeen' = IF ~Alive /\ exitSeen = Never THEN clock ELSE exitSeen
  /\ pc' = "select"
  /\ UNCHANGED <<child, capture, clock, deadline, forced, interrupted, killed>>

AtEof(s) == pipe[s] = 0 /\ s \notin leaderEnds \cup heldEnds

Readable == {s \in open : pipe[s] > 0 \/ AtEof(s)}

Chunks(ready) == (IF "stdout" \in ready THEN pipe["stdout"] ELSE 0)
               + (IF "stderr" \in ready THEN pipe["stderr"] ELSE 0)

(* Seeded defect: a chunk that does not fit is dropped whole.              *)
KeepWholeChunks(n) == IF kept + n <= MaxOutput THEN kept + n ELSE kept

Keep(n) == IF kept + n <= MaxOutput THEN kept + n ELSE MaxOutput

(* Seeded defect: the limit is compared with what the buffers hold.        *)
OverLimitKept(n) == Keep(n) > MaxOutput

OverLimit(n) == total + n > MaxOutput

(* One poll of the selector.  It takes a unit of time when nothing is      *)
(* ready, and may take one when something is.                              *)
Select ==
  /\ pc = "select"
  /\ LET ready == Readable
         n == Chunks(ready)
     IN /\ clock' \in (IF ready = {} THEN {clock + 1} ELSE {clock, clock + 1})
        /\ open' = {s \in open : ~AtEof(s)}
        /\ pipe' = [s \in Streams |-> IF s \in ready THEN 0 ELSE pipe[s]]
        /\ total' = total + n
        /\ kept' = Keep(n)
        /\ IF n > 0 /\ OverLimit(n) /\ reason = "none"
           THEN /\ reason' = "output_limit"
                /\ termination' = clock'
                /\ signalled' = TRUE
           ELSE UNCHANGED <<reason, termination, signalled>>
  /\ pc' = "bottom"
  /\ UNCHANGED <<leader, leaderEnds, heldEnds, written, unprompted, roundTime,
                 exitSeen, deadline, forced, interrupted, killed>>

Past(since, grace) == since # Never /\ roundTime - since > grace

(* Seeded defect: only the exit of the child starts the pipe deadline.     *)
DeadlineAfterExitOnly == Past(exitSeen, ExitGrace)

HardPipeDeadline == Past(termination, PipeGrace) \/ Past(exitSeen, ExitGrace)

Or(first, second) == IF first = "none" THEN second ELSE first

BottomOfRound ==
  /\ pc = "bottom"
  /\ killed' = (killed \/ (Alive /\ Past(termination, KillGrace)))
  /\ IF open # {} /\ ~HardPipeDeadline
     THEN pc' = "top" /\ UNCHANGED <<open, reason, forced, deadline>>
     ELSE /\ pc' = "wait"
          /\ deadline' = clock + WaitGrace
          /\ open' = {}
          /\ forced' = (open # {})
          /\ reason' = IF open # {} THEN Or(reason, "escaped_descendant_pipe")
                                    ELSE reason
  /\ UNCHANGED <<child, total, kept, clock, roundTime, termination, exitSeen,
                 interrupted, signalled>>

-----------------------------------------------------------------------------
(* After the loop.                                                         *)

(* Seeded defect: a signal that came in is forgotten.                      *)
ReasonWithoutSignal == reason

(* interrupted_signal replaces whatever reason there was.                  *)
FinalReason == IF interrupted THEN "signal" ELSE reason

Return ==
  /\ pc \in {"wait", "last_wait"}
  /\ ~Alive
  /\ reason' = FinalReason
  /\ pc' = "done"
  /\ UNCHANGED <<child, capture, timing, forced, interrupted, signals>>

Wait ==
  /\ pc \in {"wait", "last_wait"}
  /\ Alive
  /\ clock < deadline
  /\ clock' = clock + 1
  /\ UNCHANGED <<child, pc, capture, roundTime, termination, exitSeen, deadline,
                 verdict, signals>>

(* Seeded defect: SIGTERM is sent again in the place of SIGKILL.           *)
TerminateAndWaitAgain ==
  /\ pc = "wait"
  /\ Alive
  /\ clock >= deadline
  /\ reason' = Or(reason, "closed_pipes_process_alive")
  /\ deadline' = clock + WaitGrace
  /\ pc' = "last_wait"
  /\ UNCHANGED <<child, capture, clock, roundTime, termination, exitSeen,
                 forced, interrupted, signalled, killed>>

KillAndWaitAgain ==
  /\ pc = "wait"
  /\ Alive
  /\ clock >= deadline
  /\ reason' = Or(reason, "closed_pipes_process_alive")
  /\ killed' = TRUE
  /\ deadline' = clock + WaitGrace
  /\ pc' = "last_wait"
  /\ UNCHANGED <<child, capture, clock, roundTime, termination, exitSeen,
                 forced, interrupted, signalled>>

(* Seeded defect: the second wait has no timeout.                          *)
LastWaitForEver == FALSE

(* TimeoutExpired of the second wait leaves the function.                  *)
RaiseTimeoutExpired ==
  /\ pc = "last_wait"
  /\ Alive
  /\ clock >= deadline
  /\ pc' = "raised"
  /\ UNCHANGED <<child, capture, timing, verdict, signals>>

(* forward_signal: SIGINT, SIGTERM or SIGHUP reaches the recorder.         *)
ForwardSignal ==
  /\ pc \notin Ended
  /\ ~interrupted
  /\ interrupted' = TRUE
  /\ signalled' = TRUE
  /\ UNCHANGED <<child, pc, capture, timing, reason, forced, killed>>

-----------------------------------------------------------------------------
(* The child and its descendants.                                          *)

Write(s) ==
  /\ s \in leaderEnds \cup heldEnds
  /\ written < MaxWrites
  /\ written' = written + 1
  /\ pipe' = [pipe EXCEPT ![s] = @ + 1]
  /\ UNCHANGED <<leader, leaderEnds, heldEnds, unprompted, pc, capture, timing,
                 verdict, signals>>

Inherit(s) ==
  /\ s \in leaderEnds \ heldEnds
  /\ heldEnds' = heldEnds \cup {s}
  /\ UNCHANGED <<leader, leaderEnds, pipe, written, unprompted, pc, capture,
                 timing, verdict, signals>>

LeaderCloses(s) ==
  /\ s \in leaderEnds
  /\ leaderEnds' = leaderEnds \ {s}
  /\ UNCHANGED <<leader, heldEnds, pipe, written, unprompted, pc, capture,
                 timing, verdict, signals>>

DescendantCloses(s) ==
  /\ s \in heldEnds
  /\ heldEnds' = heldEnds \ {s}
  /\ UNCHANGED <<leader, leaderEnds, pipe, written, unprompted, pc, capture,
                 timing, verdict, signals>>

(* By itself, or because of a signal.                                      *)
LeaderExits ==
  /\ Alive
  /\ leader' \in {"zero", "nonzero"}
  /\ leaderEnds' = {}
  /\ unprompted' = ~signalled
  /\ UNCHANGED <<heldEnds, pipe, written, pc, capture, timing, verdict,
                 signals>>

-----------------------------------------------------------------------------

Function == TopOfRound \/ Select \/ BottomOfRound \/ Return \/ Wait
            \/ KillAndWaitAgain \/ RaiseTimeoutExpired

Environment ==
  \/ LeaderExits
  \/ ForwardSignal
  \/ \E s \in Streams :
       Write(s) \/ Inherit(s) \/ LeaderCloses(s) \/ DescendantCloses(s)

Next == pc \notin Ended /\ (Function \/ Environment)

Spec == Init /\ [][Next]_vars

(* The function keeps running; nothing is assumed of the child.            *)
FairSpec == Spec /\ WF_vars(Function)

-----------------------------------------------------------------------------
(* Properties.                                                             *)

(* What main() takes for success is one: exit code 0 without a reason      *)
(* means the child ended by itself, before any signal, both pipes reached  *)
(* their end with no descendant holding them, and the captured output is   *)
(* everything that was written and within the limit.                       *)
SuccessIsComplete ==
  pc = "done" /\ leader = "zero" /\ reason = "none" =>
    /\ unprompted
    /\ ~forced
    /\ heldEnds = {}
    /\ total = written /\ kept = total /\ total <= MaxOutput

(* The buffers never outgrow the limit, and drop nothing below it; the     *)
(* types hold.                                                             *)
CaptureIsBounded ==
  TypeOK /\ kept = IF total <= MaxOutput THEN total ELSE MaxOutput

(* However the child, its descendants and the signals behave, the function *)
(* is over in bounded time: the timeout, the pipe deadline and two waits,  *)
(* plus the rounds in which they are noticed.                              *)
TimeIsBounded ==
  clock <= Timeout + PipeGrace + 2 * WaitGrace + 3

(* Only a child that has been sent SIGKILL can outlive the function.       *)
SurvivorWasKilled ==
  pc \in Ended /\ Alive => killed /\ pc = "raised"

(* Output that was cut off by force is never reported as complete, and a   *)
(* signal to the recorder is never swallowed.                              *)
AnomalyIsReported ==
  pc = "done" => (forced \/ interrupted \/ killed => reason # "none")

(* The function comes back: it returns or raises TimeoutExpired.           *)
Returns == <>(pc \in Ended)

=============================================================================
