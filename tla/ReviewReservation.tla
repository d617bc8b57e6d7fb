-------------------------- MODULE ReviewReservation --------------------------
(***************************************************************************)
(* .github/workflows/release-bot-exact-head-review.yml: the job "Current   *)
(* revision review" of successive dispatches for one immutable input, and  *)
(* the check runs by which they agree that the input is reviewed by the AI *)
(* once.                                                                   *)
(*                                                                         *)
(* GitHub is external.  Its workflow ledger is durable and the concurrency *)
(* group lets one run of the input be active and one wait.  A request may  *)
(* fail, take effect although its answer is lost, or take effect and show  *)
(* in listings later; a check run may vanish from the listings when the    *)
(* pull request is closed and reopened; a runner may be lost at any point. *)
(* Checks are named by the run that created them.                          *)
(***************************************************************************)
EXTENDS Integers, FiniteSets

CONSTANTS
  MaxRuns,   \* bound: dispatches
  MaxFaults, \* bound: requests with a lost answer or none, and lost runners
  MaxHides   \* bound: check runs that vanish from the listings

ASSUME ReviewReservationAssumption ==
  MaxRuns \in Nat \ {0} /\ MaxFaults \in Nat /\ MaxHides \in Nat

Runs  == 1..MaxRuns
NoRun == 0

VARIABLES
  pc,        \* pc[r]: the step run r is at
  ok,        \* ok[r]: no step of it has failed
  out,       \* out[r]: the step outputs of dedupe and neutral
  verdict,   \* verdict[r]: what the AI said in it
  verified,  \* verified[r]: its materializer verify succeeded
  clean,     \* clean[r]: no request of it failed for good
  ledger,    \* ledger[r]: GitHub's record of the job
  result,    \* result[r]: the check "Protected Exact-Revision Codex result"
  neutral,   \* neutral[r]: the check "Current revision review"
  faults, hides

run    == <<pc, ok, out, verdict, verified, clean, ledger>>
checks == <<result, neutral>>
vars   == <<run, checks, faults, hides>>

NoCheck   == [state |-> "none", producer |-> NoRun, visible |-> FALSE]
NoOutputs == [reuse |-> FALSE, recovered |-> FALSE, check |-> NoRun,
              producer |-> NoRun, named |-> FALSE, neutral |-> NoRun]
NoJob     == [codex |-> "none", enforce |-> "none", conclusion |-> "none"]

Active == {"load", "dedupe", "ledger", "recover", "reserve", "bind",
           "neutral", "codex", "enforce", "publish", "close_result",
           "close_neutral", "end"}
Check  == [state : {"none", "in_progress", "success", "failure"},
           producer : Runs \cup {NoRun}, visible : BOOLEAN]

TypeOK ==
  /\ pc \in [Runs -> Active \cup {"undispatched", "queued", "completed"}]
  /\ Cardinality({r \in Runs : pc[r] \in Active}) <= 1
  /\ ok \in [Runs -> BOOLEAN] /\ clean \in [Runs -> BOOLEAN]
  /\ verified \in [Runs -> BOOLEAN]
  /\ verdict \in [Runs -> {"none", "PASS", "FAIL", "error"}]
  /\ out \in [Runs -> [reuse : BOOLEAN, recovered : BOOLEAN, check : Runs \cup {NoRun},
                       producer : Runs \cup {NoRun}, named : BOOLEAN,
                       neutral : Runs \cup {NoRun}]]
  /\ ledger \in [Runs -> [codex : {"none", "", "skipped", "success", "failure"},
                          enforce : {"none", "", "skipped", "success", "failure"},
                          conclusion : {"none", "success", "failure"}]]
  /\ result \in [Runs -> Check] /\ neutral \in [Runs -> Check]
  /\ faults \in 0..MaxFaults /\ hides \in 0..MaxHides

Init ==
  /\ pc = [r \in Runs |-> "undispatched"]
  /\ ok = [r \in Runs |-> TRUE] /\ clean = [r \in Runs |-> TRUE]
  /\ out = [r \in Runs |-> NoOutputs]
  /\ verdict = [r \in Runs |-> "none"] /\ verified = [r \in Runs |-> FALSE]
  /\ ledger = [r \in Runs |-> NoJob]
  /\ result = [r \in Runs |-> NoCheck] /\ neutral = [r \in Runs |-> NoCheck]
  /\ faults = 0 /\ hides = 0

-----------------------------------------------------------------------------
(* GitHub.                                                                 *)

Go(r, step) == pc' = [pc EXCEPT ![r] = step]

(* Another run waiting in the concurrency group is cancelled.              *)
Dispatch(r) ==
  /\ pc[r] = "undispatched" /\ \A q \in Runs : q < r => pc[q] # "undispatched"
  /\ pc' = [q \in Runs |-> IF q = r THEN "queued"
                           ELSE IF pc[q] = "queued" THEN "completed" ELSE pc[q]]
  /\ UNCHANGED <<ok, out, verdict, verified, clean, ledger, checks, faults, hides>>

Start(r) ==
  /\ pc[r] = "queued" /\ \A q \in Runs : pc[q] \notin Active
  /\ Go(r, "load")
  /\ ledger' = [ledger EXCEPT ![r] = [codex |-> "", enforce |-> "", conclusion |-> "none"]]
  /\ UNCHANGED <<ok, out, verdict, verified, clean, checks, faults, hides>>

(* The runner is lost; a step that was running may have been recorded.     *)
Lost(r) ==
  /\ pc[r] \in Active /\ faults < MaxFaults /\ faults' = faults + 1
  /\ Go(r, "completed")
  /\ \E c \in {ledger[r].codex} \cup (IF pc[r] = "codex" THEN {"failure"} ELSE {}) :
       ledger' = [ledger EXCEPT ![r].codex = c, ![r].conclusion = "failure"]
  /\ \E v \in {verdict[r]} \cup (IF pc[r] = "codex" THEN {"error"} ELSE {}) :
       verdict' = [verdict EXCEPT ![r] = v]
  /\ ok' = [ok EXCEPT ![r] = FALSE] /\ clean' = [clean EXCEPT ![r] = FALSE]
  /\ UNCHANGED <<out, verified, checks, hides>>

Hide(r) ==
  /\ hides < MaxHides /\ hides' = hides + 1
  /\ \/ result[r].visible /\ result' = [result EXCEPT ![r].visible = FALSE]
        /\ UNCHANGED neutral
     \/ neutral[r].visible /\ neutral' = [neutral EXCEPT ![r].visible = FALSE]
        /\ UNCHANGED result
  /\ UNCHANGED <<run, faults>>

(* A check that was created shows in the listings at last.                 *)
Appear(r) ==
  /\ \/ result[r].state # "none" /\ ~result[r].visible
        /\ result' = [result EXCEPT ![r].visible = TRUE] /\ UNCHANGED neutral
     \/ neutral[r].state # "none" /\ ~neutral[r].visible
        /\ neutral' = [neutral EXCEPT ![r].visible = TRUE] /\ UNCHANGED result
  /\ UNCHANGED <<run, faults, hides>>

Visible(check)  == {r \in Runs : check[r].visible}
NewCheck(p, seen) == [state |-> "in_progress", producer |-> p, visible |-> seen]

-----------------------------------------------------------------------------
(* The outcome of a step of run r.  A failed step skips to the steps that  *)
(* always run.                                                             *)

Fault(r) ==
  /\ faults < MaxFaults /\ faults' = faults + 1
  /\ clean' = [clean EXCEPT ![r] = FALSE]

NoFault == UNCHANGED <<faults, clean>>

Recorded(now, value) == IF now = "" THEN value ELSE now

Fail(r) ==
  /\ Go(r, "close_result")
  /\ ok' = [ok EXCEPT ![r] = FALSE]
  /\ ledger' = [ledger EXCEPT
       ![r].codex = Recorded(@, "skipped"),
       ![r].enforce = Recorded(@, IF pc[r] \in {"enforce", "publish"} THEN "failure" ELSE "skipped")]

Pass(r, step) == Go(r, step) /\ UNCHANGED <<ok, ledger>>

(* Assets, materialize and bind-assets; see ExactReview.                   *)
Load(r) ==
  /\ pc[r] = "load"
  /\ Pass(r, "dedupe") \/ Fail(r)
  /\ UNCHANGED <<out, verdict, verified, clean, checks, faults, hides>>

(* A request that only reads, or whose effect the model does not follow.   *)
Request(r, answered) == (answered /\ NoFault) \/ (Fail(r) /\ Fault(r) /\ UNCHANGED out)

-----------------------------------------------------------------------------
(* "Reserve one immutable review input or reuse its protected PASS".       *)

(* The reservation that is already there decides.  A stale one is closed,  *)
(* which fails this run all the same.  Any of the tests on it may fail,    *)
(* and so may the second listing after its details URL has been set.       *)
Stale(c) == result[c].state = "in_progress" /\ pc[result[c].producer] = "completed"

Reusable(c) == result[c].state = "success" /\ pc[result[c].producer] = "completed"

Dedupe(r) ==
  /\ pc[r] = "dedupe"
  /\ Cardinality(Visible(result)) # 1
  /\ \/ Visible(result) = {} /\ Pass(r, "ledger") /\ NoFault
     \/ Visible(result) # {} /\ Fail(r) /\ NoFault
     \/ Fail(r) /\ Fault(r)
  /\ UNCHANGED <<out, verdict, verified, checks, hides>>

DedupeFound(r) ==
  /\ pc[r] = "dedupe"
  /\ \E c \in Visible(result) :
       /\ Visible(result) = {c}
       /\ \/ /\ Reusable(c) /\ Pass(r, "neutral") /\ NoFault
             /\ out' = [out EXCEPT ![r].reuse = TRUE, ![r].check = c,
                                   ![r].producer = result[c].producer]
             /\ UNCHANGED result
          \/ /\ Stale(c) /\ Fail(r) /\ (NoFault \/ Fault(r))
             /\ result' = [result EXCEPT ![c].state = "failure"]
             /\ UNCHANGED out
          \/ Fail(r) /\ (NoFault \/ Fault(r)) /\ UNCHANGED <<out, result>>
  /\ UNCHANGED <<verdict, verified, neutral, hides>>

(* Without a visible reservation the ledger of earlier runs decides.  Each *)
(* of them must show one job with both steps.                              *)
Others(r)   == {q \in Runs : q # r /\ pc[q] # "undispatched"}
HasJob(q)   == ledger[q].codex # "none"
Attempts(r) == {q \in Others(r) : ledger[q].codex \notin {"", "skipped"}}

Passed(q) ==
  /\ pc[q] = "completed" /\ ledger[q].conclusion = "success"
  /\ ledger[q].codex = "success" /\ ledger[q].enforce = "success"

(* Seeded defect: the sole attempt need not have passed.                   *)
LedgerProvesAttempt(r, q) == (\A o \in Others(r) : HasJob(o)) /\ Attempts(r) = {q}

LedgerProvesPass(r, q) ==
  /\ \A o \in Others(r) : HasJob(o)
  /\ Attempts(r) = {q} /\ Passed(q)

(* Seeded defect: an attempt that is recorded as skipped does not count as *)
(* an earlier run.                                                         *)
NoAttempt(r) == Attempts(r) = {}

FirstRun(r) == Others(r) = {}

ReadLedger(r) ==
  /\ pc[r] = "ledger"
  /\ \/ FirstRun(r) /\ Pass(r, "reserve") /\ NoFault /\ UNCHANGED out
     \/ \E q \in Others(r) :
          /\ LedgerProvesPass(r, q) /\ Pass(r, "recover") /\ NoFault
          /\ out' = [out EXCEPT ![r].producer = q]
     \/ /\ ~FirstRun(r) /\ \A q \in Others(r) : ~LedgerProvesPass(r, q)
        /\ Fail(r) /\ NoFault /\ UNCHANGED out
     \/ Fail(r) /\ Fault(r) /\ UNCHANGED out
  /\ UNCHANGED <<verdict, verified, checks, hides>>

(* create_reservation_once: one POST.  When its answer is lost, the check  *)
(* is looked for by its external ID and taken if a listing shows it.       *)
Created(r, check, p, found) ==
  \/ found /\ check' = [check EXCEPT ![r] = NewCheck(p, TRUE)]
  \/ ~found /\ (UNCHANGED check \/ check' = [check EXCEPT ![r] = NewCheck(p, FALSE)])

(* The outputs are written before the details URL is bound.                *)
Reserve(r) ==
  /\ pc[r] \in {"reserve", "recover"}
  /\ LET recovering == pc[r] = "recover"
         p == IF recovering THEN out[r].producer ELSE r
     IN \/ /\ Created(r, result, p, TRUE)
           /\ Pass(r, "bind") /\ NoFault
           /\ out' = [out EXCEPT ![r].reuse = recovering, ![r].recovered = recovering,
                                 ![r].check = r, ![r].producer = p]
        \/ Created(r, result, p, FALSE) /\ Fail(r) /\ Fault(r) /\ UNCHANGED out
  /\ UNCHANGED <<verdict, verified, neutral, hides>>

BindDetails(r) ==
  /\ pc[r] = "bind"
  /\ Request(r, Pass(r, "neutral") /\ UNCHANGED out)
  /\ UNCHANGED <<verdict, verified, checks, hides>>

-----------------------------------------------------------------------------
(* "Reserve neutral result before protected review".                       *)

NeutralFits(r, c) ==
  /\ neutral[c].producer = out[r].producer
  /\ neutral[c].state = "failure" => out[r].reuse

Named(r) == [out EXCEPT ![r].named = TRUE]

AfterNeutral(r) == IF out[r].reuse THEN "enforce" ELSE "codex"

ReserveNeutral(r) ==
  /\ pc[r] = "neutral"
  /\ \/ /\ Visible(neutral) = {} /\ Pass(r, AfterNeutral(r)) /\ NoFault
        /\ Created(r, neutral, out[r].producer, TRUE)
        /\ out' = [Named(r) EXCEPT ![r].neutral = r]
     \/ /\ Visible(neutral) = {} /\ Fail(r) /\ Fault(r)
        /\ \E found \in BOOLEAN :
             /\ Created(r, neutral, out[r].producer, found)
             /\ out' = [Named(r) EXCEPT ![r].neutral = IF found THEN r ELSE NoRun]
     \/ /\ \E c \in Visible(neutral) :
             /\ Visible(neutral) = {c}
             /\ out' = [Named(r) EXCEPT ![r].neutral = c]
             /\ \/ NeutralFits(r, c) /\ Pass(r, AfterNeutral(r)) /\ NoFault
                \/ ~NeutralFits(r, c) /\ Fail(r) /\ NoFault
                \/ Fail(r) /\ Fault(r)
        /\ UNCHANGED neutral
     \/ /\ Cardinality(Visible(neutral)) > 1 /\ Fail(r) /\ NoFault
        /\ out' = Named(r) /\ UNCHANGED neutral
  /\ UNCHANGED <<verdict, verified, result, hides>>

-----------------------------------------------------------------------------
(* The AI, and the step that enforces its verdict.                         *)

Codex(r) ==
  /\ pc[r] = "codex"
  /\ \E v \in {"PASS", "FAIL", "error"} :
       /\ verdict' = [verdict EXCEPT ![r] = v]
       /\ IF v = "error"
          THEN /\ Go(r, "close_result") /\ ok' = [ok EXCEPT ![r] = FALSE]
               /\ ledger' = [ledger EXCEPT ![r].codex = "failure", ![r].enforce = "skipped"]
          ELSE /\ Go(r, "enforce") /\ UNCHANGED ok
               /\ ledger' = [ledger EXCEPT ![r].codex = "success"]
  /\ UNCHANGED <<out, verified, clean, checks, faults, hides>>

Conclusion(r) ==
  IF out[r].recovered \/ verdict[r] = "PASS" THEN "success" ELSE "failure"

(* verify, then the result: written, read back, and required to be a       *)
(* success.  A run that reuses a visible PASS does not write it again.     *)
Enforce(r) ==
  /\ pc[r] = "enforce"
  /\ \/ Fail(r) /\ NoFault /\ UNCHANGED <<verified, result>>
     \/ /\ verified' = [verified EXCEPT ![r] = TRUE]
        /\ IF out[r].reuse /\ ~out[r].recovered
           THEN Pass(r, "publish") /\ NoFault /\ UNCHANGED result
           ELSE \/ /\ result' = [result EXCEPT ![out[r].check].state = Conclusion(r)]
                   /\ \/ Conclusion(r) = "success" /\ Pass(r, "publish") /\ NoFault
                      \/ Conclusion(r) = "failure" /\ Fail(r) /\ NoFault
                      \/ Fail(r) /\ Fault(r)
                \/ Fail(r) /\ Fault(r) /\ UNCHANGED result
  /\ UNCHANGED <<out, verdict, neutral, hides>>

Publish(r) ==
  /\ pc[r] = "publish"
  /\ \/ /\ neutral' = [neutral EXCEPT ![out[r].neutral].state = "success"]
        /\ \/ /\ Go(r, "close_result") /\ NoFault /\ UNCHANGED ok
              /\ ledger' = [ledger EXCEPT ![r].enforce = "success",
                                          ![r].codex = Recorded(@, "skipped")]
           \/ Fail(r) /\ Fault(r)
     \/ Fail(r) /\ Fault(r) /\ UNCHANGED neutral
  /\ UNCHANGED <<out, verdict, verified, result, hides>>

-----------------------------------------------------------------------------
(* The two steps that always run.                                          *)

(* Seeded defect: a recovered reservation is taken for a reused one.       *)
OwnsFreshReservation(r) == ~out[r].reuse /\ out[r].check # NoRun

OwnsReservation(r) == (~out[r].reuse \/ out[r].recovered) /\ out[r].check # NoRun

CloseOpen(check, c) ==
  check' = IF check[c].state = "in_progress"
           THEN [check EXCEPT ![c].state = "failure"] ELSE check

CloseResult(r) ==
  /\ pc[r] = "close_result"
  /\ Go(r, "close_neutral")
  /\ \/ /\ IF OwnsReservation(r) THEN CloseOpen(result, out[r].check) ELSE UNCHANGED result
        /\ NoFault /\ UNCHANGED ok
     \/ /\ OwnsReservation(r) /\ Fault(r) /\ ok' = [ok EXCEPT ![r] = FALSE]
        /\ UNCHANGED result \/ CloseOpen(result, out[r].check)
  /\ UNCHANGED <<out, verdict, verified, ledger, neutral, hides>>

(* The neutral check is known, or looked for by its external ID; a known   *)
(* one must have that ID as well.                                          *)
Known(r) == out[r].neutral # NoRun

Found(r) ==
  {c \in (IF Known(r) THEN {out[r].neutral} ELSE Visible(neutral)) :
     neutral[c].producer = out[r].producer}

CloseNamed(r) ==
  IF out[r].named /\ Cardinality(Found(r)) = 1
  THEN CloseOpen(neutral, CHOOSE c \in Found(r) : TRUE) ELSE UNCHANGED neutral

(* Seeded defect: what is known is closed without a look at its state.     *)
CloseNeutralAnyway(r) ==
  /\ pc[r] = "close_neutral"
  /\ Go(r, "end")
  /\ neutral' = [c \in Runs |->
       IF out[r].named /\ c \in Found(r) /\ ~ok[r]
       THEN [neutral[c] EXCEPT !.state = "failure"] ELSE neutral[c]]
  /\ UNCHANGED <<ok, clean, out, verdict, verified, ledger, result, faults, hides>>

CloseNeutral(r) ==
  /\ pc[r] = "close_neutral"
  /\ Go(r, "end")
  /\ \/ /\ CloseNamed(r) /\ NoFault
        /\ ok' = [ok EXCEPT ![r] = @ /\ (out[r].named =>
                                /\ Cardinality(Found(r)) <= 1
                                /\ Known(r) => Found(r) # {})]
     \/ /\ out[r].named /\ Fault(r) /\ ok' = [ok EXCEPT ![r] = FALSE]
        /\ UNCHANGED neutral \/ CloseNamed(r)
  /\ UNCHANGED <<out, verdict, verified, ledger, result, hides>>

(* The hand-off job of a successful run may still fail.                    *)
End(r) ==
  /\ pc[r] = "end"
  /\ Go(r, "completed")
  /\ \E c \in {"success", "failure"} :
       /\ ~ok[r] => c = "failure"
       /\ ledger' = [ledger EXCEPT ![r].conclusion = c]
  /\ UNCHANGED <<ok, out, verdict, verified, clean, checks, faults, hides>>

Job(r) ==
  \/ Load(r) \/ Dedupe(r) \/ DedupeFound(r) \/ ReadLedger(r)
  \/ Reserve(r) \/ BindDetails(r) \/ ReserveNeutral(r) \/ Codex(r)
  \/ Enforce(r) \/ Publish(r) \/ CloseResult(r) \/ CloseNeutral(r) \/ End(r)

Next == \E r \in Runs : Dispatch(r) \/ Start(r) \/ Lost(r) \/ Hide(r) \/ Appear(r) \/ Job(r)

Spec == Init /\ [][Next]_vars

-----------------------------------------------------------------------------
(* Properties.                                                             *)

Concluded(check) == {r \in Runs : check[r].state \in {"success", "failure"}}

(* The AI is asked once for one immutable input, whatever is lost, hidden, *)
(* recovered or dispatched again.  The types are part of it: of all the    *)
(* runs the concurrency group lets only one be at work.                    *)
OneInvocation ==
  TypeOK /\ Cardinality({r \in Runs : verdict[r] # "none"}) <= 1

(* A protected result is a success only if the AI passed the input in the  *)
(* run it names and the run that concluded it had verified the revision;   *)
(* the neutral result is a success only after such a result.               *)
PassIsEarned ==
  /\ \A r \in Runs : result[r].state = "success" =>
       verdict[result[r].producer] = "PASS" /\ verified[r]
  /\ \A n \in Runs : neutral[n].state = "success" =>
       \E r \in Runs : /\ result[r].state = "success"
                       /\ result[r].producer = neutral[n].producer

(* A concluded result keeps its conclusion: no late, repeated or closing   *)
(* request turns it.  Only the neutral check may go from failure to        *)
(* success, when a PASS is published again, and never back.                *)
ConclusionsStand ==
  [][/\ \A r \in Concluded(result) : result'[r].state = result[r].state
     /\ \A r \in Runs : neutral[r].state = "success" => neutral'[r].state = "success"]_vars

(* A run that ends with every request answered, whatever failed in it,     *)
(* leaves no check it created in progress.                                 *)
NothingLeftOpen ==
  \A r \in Runs : pc[r] = "completed" /\ clean[r] =>
    result[r].state # "in_progress" /\ neutral[r].state # "in_progress"

=============================================================================
