------------------------ MODULE ReviewReservationProofs ------------------------
(***************************************************************************)
(* Proofs about the reservation of one AI review for one immutable input   *)
(* in .github/workflows/release-bot-exact-head-review.yml, for any number  *)
(* of dispatches, lost answers, lost runners and vanishing check runs.     *)
(*                                                                         *)
(* The argument: only the first run can find an empty ledger, so only it   *)
(* reserves afresh, and only a run that reserved afresh asks the AI; every *)
(* later run that moves on stands on a PASS, which it found in a visible   *)
(* result or in the ledger.  RunOK says this of a run at each of its       *)
(* steps.  The concurrency group leaves one run at work, so that a step of *)
(* it can only close or publish a check of the others (OtherRun).          *)
(***************************************************************************)
EXTENDS ReviewReservation, FiniteSetTheorems, TLAPS

(* The concurrency group, without its count, and the order of dispatches.  *)
GroupOK ==
  /\ \A p, q \in Runs : pc[p] \in Active /\ pc[q] \in Active => p = q
  /\ \A p, q \in Runs : p < q /\ pc[p] = "undispatched" => pc[q] = "undispatched"

Before == {"undispatched", "queued", "load", "dedupe", "ledger", "reserve", "recover"}
Within == {"bind", "neutral", "codex", "enforce", "publish"}
After  == {"close_result", "close_neutral", "end", "completed"}

Reused(r) == out[r].reuse /\ ~out[r].recovered

(* A run that has no reservation yet has left no trace.                    *)
EarlyOK(r) ==
  /\ pc[r] \in Before =>
       /\ result[r].state = "none" /\ neutral[r].state = "none"
       /\ out[r].check = NoRun /\ out[r].neutral = NoRun
       /\ ~out[r].reuse /\ ~out[r].recovered /\ ~out[r].named
       /\ ledger[r].codex \in {"none", ""} /\ ledger[r].enforce \in {"none", ""}
  /\ pc[r] = "reserve" => r = 1
  /\ pc[r] = "recover" => out[r].producer \in Runs /\ verdict[out[r].producer] = "PASS"

(* What a run that holds a reservation knows of it.                        *)
BoundOK(r) == pc[r] \in Within =>
  /\ out[r].check \in Runs /\ out[r].producer \in Runs
  /\ result[out[r].check].producer = out[r].producer
  /\ ~out[r].reuse => r = 1 /\ out[r].producer = r
  /\ out[r].recovered => out[r].reuse
  /\ out[r].reuse => verdict[out[r].producer] = "PASS"
  /\ ~Reused(r) => out[r].check = r
  /\ result[out[r].check].state =
       (IF Reused(r) \/ pc[r] = "publish" THEN "success" ELSE "in_progress")

NeutralOK(r) ==
  /\ pc[r] \in {"bind", "neutral"} =>
       neutral[r].state = "none" /\ out[r].neutral = NoRun /\ ~out[r].named
  /\ pc[r] \in {"codex", "enforce", "publish"} =>
       /\ out[r].neutral \in Runs /\ out[r].named
       /\ neutral[out[r].neutral].state # "none"
       /\ neutral[out[r].neutral].producer = out[r].producer

(* What the AI said, and what the ledger keeps of it.                      *)
VerdictOK(r) ==
  /\ verdict[r] # "none" => r = 1 /\ pc[r] \in {"enforce", "publish"} \cup After
  /\ pc[r] = "codex" => ~out[r].reuse
  /\ pc[r] = "enforce" /\ ~out[r].reuse => verdict[r] \in {"PASS", "FAIL"}
  /\ pc[r] = "publish" /\ ~out[r].reuse => verdict[r] = "PASS"
  /\ ledger[r].codex = "success" => ~out[r].reuse
  /\ ledger[r].enforce = "success" =>
       pc[r] \in After /\ (ledger[r].codex = "success" => verdict[r] = "PASS")

(* Where a check can be open, and whose it is.                             *)
OpenOK(r) ==
  /\ result[r].visible => result[r].state # "none"
  /\ neutral[r].visible => neutral[r].state # "none"
  /\ result[r].state # "none" => result[r].producer \in Runs
  /\ clean[r] /\ result[r].state = "in_progress" =>
       /\ out[r].check = r /\ ~Reused(r)
       /\ pc[r] \in (Within \ {"publish"}) \cup {"close_result"}
  /\ clean[r] /\ neutral[r].state = "in_progress" =>
       /\ out[r].neutral = r /\ out[r].named /\ neutral[r].producer = out[r].producer
       /\ pc[r] \in {"codex", "enforce", "publish", "close_result", "close_neutral"}

RunOK(r) == EarlyOK(r) /\ BoundOK(r) /\ NeutralOK(r) /\ VerdictOK(r) /\ OpenOK(r)

IInv == TypeOK /\ GroupOK /\ PassIsEarned /\ \A r \in Runs : RunOK(r)

-----------------------------------------------------------------------------
(* Types.                                                                  *)

Steps   == Active \cup {"undispatched", "queued", "completed"}
Outputs == [reuse : BOOLEAN, recovered : BOOLEAN, check : Runs \cup {NoRun},
            producer : Runs \cup {NoRun}, named : BOOLEAN, neutral : Runs \cup {NoRun}]
Entries == {"none", "", "skipped", "success", "failure"}
Jobs    == [codex : Entries, enforce : Entries, conclusion : {"none", "success", "failure"}]

Types ==
  /\ pc \in [Runs -> Steps] /\ ok \in [Runs -> BOOLEAN] /\ clean \in [Runs -> BOOLEAN]
  /\ verified \in [Runs -> BOOLEAN]
  /\ verdict \in [Runs -> {"none", "PASS", "FAIL", "error"}]
  /\ out \in [Runs -> Outputs] /\ ledger \in [Runs -> Jobs]
  /\ result \in [Runs -> Check] /\ neutral \in [Runs -> Check]
  /\ faults \in 0..MaxFaults /\ hides \in 0..MaxHides

USE ReviewReservationAssumption DEF ReviewReservationAssumption

LEMMA NumbersOfRuns == NoRun \notin Runs /\ Runs \subseteq Nat /\ IsFiniteSet(Runs) /\ 1 \in Runs
<1>1. IsFiniteSet(Runs)
  BY FS_Interval DEF Runs
<1> QED
  BY <1>1 DEF Runs, NoRun

(* A set of which any two members are the same has at most one.            *)
LEMMA AtMostOne ==
  ASSUME NEW S, \A x, y \in S : x = y
  PROVE  IsFiniteSet(S) /\ Cardinality(S) <= 1
<1>1. CASE S = {}
  BY <1>1, FS_EmptySet
<1>2. ASSUME NEW x \in S PROVE IsFiniteSet(S) /\ Cardinality(S) <= 1
  <2>1. S = {x}
    OBVIOUS
  <2>2. IsFiniteSet({x}) /\ Cardinality({x}) = 1
    BY FS_Singleton
  <2> QED
    BY <2>1, <2>2
<1> QED
  BY <1>1, <1>2

LEMMA TypeParts == (TypeOK => Types) /\ (Types /\ GroupOK => TypeOK)
<1>1. TypeOK => Types
  BY DEF TypeOK, Types, Steps, Outputs, Entries, Jobs
<1>2. ASSUME Types, GroupOK PROVE TypeOK
  <2>1. Cardinality({r \in Runs : pc[r] \in Active}) <= 1
    <3> DEFINE S == {r \in Runs : pc[r] \in Active}
    <3>1. \A x, y \in S : x = y
      BY <1>2 DEF GroupOK
    <3> HIDE DEF S
    <3>2. Cardinality(S) <= 1
      BY <3>1, AtMostOne
    <3> QED
      BY <3>2 DEF S
  <2> QED
    BY <1>2, <2>1 DEF TypeOK, Types, Steps, Outputs, Entries, Jobs
<1> QED
  BY <1>1, <1>2

LEMMA TypesAfter == Types' /\ GroupOK' => TypeOK'
<1> SUFFICES ASSUME Types', GroupOK' PROVE TypeOK'
  OBVIOUS
<1> DEFINE S == {r \in Runs : pc'[r] \in Active}
<1>1. \A x, y \in S : x = y
  BY DEF GroupOK
<1> HIDE DEF S
<1>2. Cardinality(S) <= 1
  BY <1>1, AtMostOne
<1> QED
  BY <1>2 DEF S, TypeOK, Types, Steps, Outputs, Entries, Jobs

(* The outcomes of a step.                                                 *)
LEMMA FailTypes ==
  ASSUME Types, NEW r \in Runs, Fail(r)
  PROVE  /\ pc' \in [Runs -> Steps] /\ ok' \in [Runs -> BOOLEAN]
         /\ ledger' \in [Runs -> Jobs]
<1>1. pc' \in [Runs -> Steps]
  BY DEF Types, Fail, Go, Steps, Active
<1>2. ok' \in [Runs -> BOOLEAN]
  BY DEF Types, Fail
<1>3. ledger[r] \in Jobs
  BY DEF Types
<1>4. Recorded(ledger[r].codex, "skipped") \in Entries
  BY <1>3 DEF Jobs, Recorded, Entries
<1>5. Recorded(ledger[r].enforce,
               IF pc[r] \in {"enforce", "publish"} THEN "failure" ELSE "skipped") \in Entries
  BY <1>3 DEF Jobs, Recorded, Entries
<1>6. ledger' \in [Runs -> Jobs]
  BY <1>3, <1>4, <1>5 DEF Types, Fail, Jobs
<1> QED
  BY <1>1, <1>2, <1>6

LEMMA PassTypes ==
  ASSUME Types, NEW r \in Runs, NEW next \in Steps, Pass(r, next)
  PROVE  /\ pc' \in [Runs -> Steps] /\ ok' \in [Runs -> BOOLEAN]
         /\ ledger' \in [Runs -> Jobs]
  BY DEF Types, Pass, Go

LEMMA FaultTypes ==
  ASSUME Types, NEW r \in Runs, Fault(r) \/ NoFault
  PROVE  faults' \in 0..MaxFaults /\ clean' \in [Runs -> BOOLEAN]
<1>1. CASE Fault(r)
  BY <1>1 DEF Types, Fault
<1>2. CASE NoFault
  BY <1>2 DEF Types, NoFault
<1> QED
  BY <1>1, <1>2

-----------------------------------------------------------------------------
(* What the step of one run does to the others.                            *)

Same(q) ==
  /\ pc'[q] = pc[q] /\ out'[q] = out[q] /\ verdict'[q] = verdict[q]
  /\ clean'[q] = clean[q] /\ ledger'[q] = ledger[q]

(* A check of another run is closed, or published, but never reopened.     *)
ChecksMove(q) ==
  /\ result'[q].producer = result[q].producer /\ result'[q].visible = result[q].visible
  /\ neutral'[q].producer = neutral[q].producer /\ neutral'[q].visible = neutral[q].visible
  /\ \/ result'[q].state = result[q].state
     \/ result[q].state = "in_progress" /\ result'[q].state = "failure"
  /\ \/ neutral'[q].state = neutral[q].state
     \/ neutral[q].state = "in_progress" /\ neutral'[q].state = "failure"
     \/ neutral[q].state # "none" /\ neutral'[q].state = "success"

LEMMA OtherRun ==
  ASSUME NEW q \in Runs, RunOK(q), Types, pc[q] \notin Active, Same(q), ChecksMove(q)
  PROVE  RunOK(q)'
<1>1. pc[q] \in {"undispatched", "queued", "completed"} /\ pc'[q] = pc[q]
  BY DEF Types, Steps, Same
<1>2. EarlyOK(q)'
  BY <1>1 DEF RunOK, EarlyOK, Same, ChecksMove
<1>3. BoundOK(q)' /\ NeutralOK(q)'
  BY <1>1 DEF BoundOK, NeutralOK, Within
<1>4. VerdictOK(q)'
  BY <1>1 DEF RunOK, VerdictOK, Same
<1>5. OpenOK(q)'
  <2>1. pc[q] = "completed" => ~(clean[q] /\ result[q].state = "in_progress")
                               /\ ~(clean[q] /\ neutral[q].state = "in_progress")
    BY DEF RunOK, OpenOK, Within
  <2>2. pc[q] # "completed" => result[q].state = "none" /\ neutral[q].state = "none"
    BY <1>1 DEF RunOK, EarlyOK, Before
  <2> QED
    BY <1>1, <2>1, <2>2 DEF RunOK, OpenOK, Same, ChecksMove
<1> QED
  BY <1>2, <1>3, <1>4, <1>5 DEF RunOK

(* A step at which checks are earned keeps them earned.                    *)
LEMMA PassKept ==
  ASSUME PassIsEarned,
         \A q \in Runs : result[q].state = "success" =>
           result'[q].state = "success" /\ result'[q].producer = result[q].producer,
         \A q \in Runs : verified[q] => verified'[q],
         \A q \in Runs : result[q].state = "success" =>
           verdict'[result[q].producer] = verdict[result[q].producer],
         \A q \in Runs : result'[q].state = "success" /\ result[q].state # "success" =>
           verdict'[result'[q].producer] = "PASS" /\ verified'[q],
         \A n \in Runs : neutral'[n].state = "success" =>
           \/ neutral[n].state = "success" /\ neutral'[n].producer = neutral[n].producer
           \/ \E r \in Runs : /\ result'[r].state = "success"
                              /\ result'[r].producer = neutral'[n].producer
  PROVE  PassIsEarned'
<1>1. ASSUME NEW q \in Runs, result'[q].state = "success"
      PROVE  verdict'[result'[q].producer] = "PASS" /\ verified'[q]
  <2>1. CASE result[q].state = "success"
    <3>1. verdict[result[q].producer] = "PASS" /\ verified[q]
      BY <2>1 DEF PassIsEarned
    <3>2. verified'[q]
      BY Zenon, <3>1
    <3> QED
      BY <2>1, <3>1, <3>2
  <2> QED
    BY <1>1, <2>1
<1>2. ASSUME NEW n \in Runs, neutral'[n].state = "success"
      PROVE  \E r \in Runs : /\ result'[r].state = "success"
                             /\ result'[r].producer = neutral'[n].producer
  <2>1. CASE neutral[n].state = "success" /\ neutral'[n].producer = neutral[n].producer
    BY <2>1 DEF PassIsEarned
  <2> QED
    BY <1>2, <2>1
<1> QED
  BY <1>1, <1>2 DEF PassIsEarned

(* A check of which the state is set, and one that is created.             *)
Turned(f, c, s) == [f EXCEPT ![c].state = s]
Posted(f, c, p) == [f EXCEPT ![c] = NewCheck(p, TRUE)]
Unseen(f, c, p) == [f EXCEPT ![c] = NewCheck(p, FALSE)]

LEMMA SetState ==
  ASSUME NEW f \in [Runs -> Check], NEW c \in Runs,
         NEW s \in {"none", "in_progress", "success", "failure"}
  PROVE  /\ Turned(f, c, s) \in [Runs -> Check]
         /\ Turned(f, c, s)[c].state = s
         /\ Turned(f, c, s)[c].producer = f[c].producer
         /\ Turned(f, c, s)[c].visible = f[c].visible
         /\ \A q \in Runs : q # c => Turned(f, c, s)[q] = f[q]
  BY DEF Check, Turned

LEMMA SetPosted ==
  ASSUME NEW f \in [Runs -> Check], NEW c \in Runs, NEW p \in Runs \cup {NoRun}
  PROVE  /\ Posted(f, c, p) \in [Runs -> Check]
         /\ Posted(f, c, p)[c].state = "in_progress"
         /\ Posted(f, c, p)[c].producer = p
         /\ Posted(f, c, p)[c].visible
         /\ \A q \in Runs : q # c => Posted(f, c, p)[q] = f[q]
<1>1. /\ NewCheck(p, TRUE) \in Check /\ NewCheck(p, TRUE).state = "in_progress"
      /\ NewCheck(p, TRUE).producer = p /\ NewCheck(p, TRUE).visible
  BY DEF Check, NewCheck
<1> QED
  BY <1>1 DEF Posted

LEMMA SetUnseen ==
  ASSUME NEW f \in [Runs -> Check], NEW c \in Runs, NEW p \in Runs \cup {NoRun}
  PROVE  /\ Unseen(f, c, p) \in [Runs -> Check]
         /\ Unseen(f, c, p)[c].state = "in_progress"
         /\ Unseen(f, c, p)[c].producer = p
         /\ ~Unseen(f, c, p)[c].visible
         /\ \A q \in Runs : q # c => Unseen(f, c, p)[q] = f[q]
<1>1. /\ NewCheck(p, FALSE) \in Check /\ NewCheck(p, FALSE).state = "in_progress"
      /\ NewCheck(p, FALSE).producer = p /\ ~NewCheck(p, FALSE).visible
  BY DEF Check, NewCheck
<1> QED
  BY <1>1 DEF Unseen

(* The outcomes of a step, seen by the run that takes it.                  *)
LEMMA FailEffect ==
  ASSUME Types, NEW r \in Runs, Fail(r)
  PROVE  /\ pc'[r] = "close_result" /\ ok'[r] = FALSE
         /\ ledger'[r].codex = Recorded(ledger[r].codex, "skipped")
         /\ ledger'[r].enforce \in {ledger[r].enforce, "failure", "skipped"}
         /\ \A q \in Runs \ {r} : pc'[q] = pc[q] /\ ok'[q] = ok[q] /\ ledger'[q] = ledger[q]
  BY DEF Types, Fail, Go, Recorded, Jobs

LEMMA PassEffect ==
  ASSUME Types, NEW r \in Runs, NEW next, Pass(r, next)
  PROVE  /\ pc'[r] = next /\ ledger' = ledger
         /\ \A q \in Runs \ {r} : pc'[q] = pc[q]
  BY DEF Types, Pass, Go

LEMMA FaultEffect ==
  ASSUME Types, NEW r \in Runs
  PROVE  /\ Fault(r) => /\ clean'[r] = FALSE
                        /\ \A q \in Runs \ {r} : clean'[q] = clean[q]
         /\ NoFault => clean' = clean
  BY DEF Types, Fault, NoFault

(* A run that fails keeps nothing to answer for but what it left open.     *)
LEMMA FailedRun ==
  ASSUME Types, NEW r \in Runs, RunOK(r), Fail(r), pc[r] \notin After,
         verdict' = verdict, out'[r].reuse = out[r].reuse
  PROVE  EarlyOK(r)' /\ BoundOK(r)' /\ NeutralOK(r)' /\ VerdictOK(r)'
<1>1. /\ pc'[r] = "close_result"
      /\ ledger'[r].codex = "success" => ledger[r].codex = "success"
      /\ ledger'[r].enforce # "success"
  BY FailEffect DEF RunOK, VerdictOK, Recorded
<1>2. verdict[r] # "none" => r = 1
  BY DEF RunOK, VerdictOK
<1>3. ledger[r].codex = "success" => ~out[r].reuse
  BY DEF RunOK, VerdictOK
<1>4. VerdictOK(r)'
  BY <1>1, <1>2, <1>3 DEF VerdictOK, After
<1> QED
  BY <1>1, <1>4 DEF EarlyOK, BoundOK, NeutralOK, Before, Within

(* A conclusion of the run itself stands.                                  *)
Stands(r) ==
  /\ result[r].state \in {"success", "failure"} => result'[r].state = result[r].state
  /\ neutral[r].state = "success" => neutral'[r].state = "success"

(* What is shown of the step of a run that is at work.                     *)
Kept(r) ==
  /\ Types' /\ PassIsEarned' /\ RunOK(r)' /\ Stands(r)
  /\ pc'[r] \in Active \cup {"completed"}
  /\ \A q \in Runs \ {r} : Same(q) /\ ChecksMove(q)

(* A step that only moves on, or only fails.                               *)
LEMMA QuietStep ==
  ASSUME Types, PassIsEarned, NEW r \in Runs, RunOK(r), pc[r] \in Active \ After,
         UNCHANGED <<verdict, verified, checks, hides>>,
         out' \in [Runs -> Outputs], \A q \in Runs \ {r} : out'[q] = out[q],
         \/ Fail(r) /\ (NoFault \/ Fault(r)) /\ out'[r] = out[r]
         \/ \E next \in Active : Pass(r, next) /\ NoFault /\ RunOK(r)'
  PROVE  Kept(r)
<1>1. faults' \in 0..MaxFaults /\ clean' \in [Runs -> BOOLEAN]
  BY FaultTypes
<1>2. pc' \in [Runs -> Steps] /\ ok' \in [Runs -> BOOLEAN] /\ ledger' \in [Runs -> Jobs]
  BY FailTypes, PassTypes DEF Steps
<1>3. Types'
  BY <1>1, <1>2 DEF Types, checks
<1>4. PassIsEarned'
  BY DEF PassIsEarned, checks
<1>5. ASSUME NEW q \in Runs \ {r} PROVE Same(q) /\ ChecksMove(q)
  BY FailEffect, PassEffect, FaultEffect DEF Same, ChecksMove, checks
<1>6. pc'[r] \in Active
  BY FailEffect, PassEffect DEF Active
<1>7. ASSUME Fail(r), NoFault \/ Fault(r), out'[r] = out[r]
      PROVE  RunOK(r)'
  <2>1. pc[r] \notin After
    OBVIOUS
  <2>2. EarlyOK(r)' /\ BoundOK(r)' /\ NeutralOK(r)' /\ VerdictOK(r)'
    BY <1>7, <2>1, FailedRun
  <2>3. OpenOK(r)'
    <3>1. CASE Fault(r)
      BY <3>1, FaultEffect DEF RunOK, OpenOK, checks
    <3>2. CASE NoFault
      BY <1>7, <3>2, FailEffect, FaultEffect, ZenonT(60) DEF RunOK, OpenOK, Reused, checks
    <3> QED
      BY <1>7, <3>1, <3>2
  <2> QED
    BY <2>2, <2>3 DEF RunOK
<1>8. Stands(r)
  BY DEF Stands, checks
<1> QED
  BY <1>3, <1>4, <1>5, <1>6, <1>7, <1>8 DEF Kept

(* A run that moves on without having reserved anything.                   *)
LEMMA EarlyMove ==
  ASSUME NEW r \in Runs, RunOK(r), pc[r] \in Before, pc'[r] \in Before,
         UNCHANGED <<verdict, checks, clean, ledger>>,
         out'[r].check = out[r].check, out'[r].neutral = out[r].neutral,
         out'[r].reuse = out[r].reuse, out'[r].recovered = out[r].recovered,
         out'[r].named = out[r].named,
         pc'[r] = "reserve" => r = 1,
         pc'[r] = "recover" => out'[r].producer \in Runs /\ verdict[out'[r].producer] = "PASS"
  PROVE  RunOK(r)'
<1>1. result' = result /\ neutral' = neutral
  BY DEF checks
<1>2. EarlyOK(r)'
  BY <1>1 DEF RunOK, EarlyOK
<1>3. BoundOK(r)' /\ NeutralOK(r)'
  BY DEF BoundOK, NeutralOK, Before, Within
<1>4. verdict[r] = "none" /\ ledger[r].codex # "success" /\ ledger[r].enforce # "success"
  BY DEF RunOK, VerdictOK, EarlyOK, Before, After
<1>5. VerdictOK(r)'
  BY <1>4 DEF VerdictOK, Before
<1>6. result[r].state = "none" /\ neutral[r].state = "none"
  BY DEF RunOK, EarlyOK
<1>7. OpenOK(r)'
  BY <1>1, <1>6 DEF RunOK, OpenOK
<1> QED
  BY <1>2, <1>3, <1>5, <1>7 DEF RunOK

LEMMA LoadStep ==
  ASSUME IInv, NEW r \in Runs, Load(r) PROVE Kept(r)
<1> USE DEF IInv
<1>1. Types /\ RunOK(r) /\ pc[r] = "load" /\ out \in [Runs -> Outputs]
  BY TypeParts DEF Load, Types
<1>2. UNCHANGED <<out, verdict, verified, clean, checks, faults, hides>> /\ NoFault
  BY DEF Load, NoFault
<1>3. ASSUME Pass(r, "dedupe") PROVE RunOK(r)'
  BY <1>1, <1>2, <1>3, PassEffect, EarlyMove DEF Before
<1> QED
  BY <1>1, <1>2, <1>3, QuietStep DEF Load, Active, After

LEMMA BindDetailsStep ==
  ASSUME IInv, NEW r \in Runs, BindDetails(r) PROVE Kept(r)
<1> USE DEF IInv
<1>1. Types /\ RunOK(r) /\ pc[r] = "bind" /\ out \in [Runs -> Outputs]
  BY TypeParts DEF BindDetails, Types
<1>2. UNCHANGED <<out, verdict, verified, checks, hides>>
  BY DEF BindDetails, Request
<1>3. ASSUME Pass(r, "neutral"), NoFault PROVE RunOK(r)'
  <2>1. /\ pc'[r] = "neutral" /\ result' = result /\ neutral' = neutral /\ out' = out
        /\ verdict' = verdict /\ clean' = clean /\ ledger' = ledger
    BY <1>1, <1>2, <1>3, PassEffect DEF NoFault, checks
  <2>2. EarlyOK(r)'
    BY <2>1 DEF EarlyOK, Before
  <2>3. BoundOK(r)'
    BY <1>1, <2>1 DEF RunOK, BoundOK, Within, Reused
  <2>4. NeutralOK(r)' /\ VerdictOK(r)'
    BY <1>1, <2>1 DEF RunOK, NeutralOK, VerdictOK, After
  <2>5. OpenOK(r)'
    BY <1>1, <2>1 DEF RunOK, OpenOK, Within, Reused
  <2> QED
    BY <2>2, <2>3, <2>4, <2>5 DEF RunOK
<1>4. (Pass(r, "neutral") /\ NoFault) \/ (Fail(r) /\ Fault(r))
  BY DEF BindDetails, Request
<1> QED
  BY <1>1, <1>2, <1>3, <1>4, QuietStep DEF Active, After

(* The verdict of an earlier run that the ledger shows to have passed.     *)
LEMMA PassedMeansPass ==
  ASSUME NEW q \in Runs, VerdictOK(q), Passed(q) PROVE verdict[q] = "PASS"
  BY DEF VerdictOK, Passed

LEMMA ReadLedgerStep ==
  ASSUME IInv, NEW r \in Runs, ReadLedger(r) PROVE Kept(r)
<1> USE DEF IInv
<1>1. Types /\ RunOK(r) /\ pc[r] = "ledger" /\ out \in [Runs -> Outputs]
  BY TypeParts DEF ReadLedger, Types
<1>2. UNCHANGED <<verdict, verified, checks, hides>>
  BY DEF ReadLedger
<1>3. CASE FirstRun(r) /\ Pass(r, "reserve") /\ NoFault /\ UNCHANGED out
  <2>1. r = 1
    <3>1. r # 1 => 1 < r /\ 1 \in Runs
      BY NumbersOfRuns DEF Runs
    <3>2. pc[1] = "undispatched" => r = 1
      BY <1>1, <3>1 DEF GroupOK
    <3> QED
      BY <1>3, <3>1, <3>2 DEF FirstRun, Others
  <2>2. RunOK(r)'
    BY <1>1, <1>2, <1>3, <2>1, PassEffect, EarlyMove DEF NoFault, Before
  <2> QED
    BY <1>1, <1>2, <1>3, <2>2, QuietStep DEF Active, After
<1>4. ASSUME NEW q \in Others(r), LedgerProvesPass(r, q), Pass(r, "recover"), NoFault,
             out' = [out EXCEPT ![r].producer = q]
      PROVE  Kept(r)
  <2>1. q \in Runs /\ verdict[q] = "PASS"
    <3>1. q \in Runs /\ Passed(q)
      BY <1>4 DEF LedgerProvesPass, Others
    <3> QED
      BY <3>1, PassedMeansPass DEF RunOK
  <2>2. /\ out' \in [Runs -> Outputs] /\ out'[r] = [out[r] EXCEPT !.producer = q]
        /\ \A p \in Runs \ {r} : out'[p] = out[p]
    BY <1>1, <1>4, <2>1 DEF Outputs
  <2>3. /\ out'[r].producer = q /\ out'[r].check = out[r].check
        /\ out'[r].neutral = out[r].neutral /\ out'[r].reuse = out[r].reuse
        /\ out'[r].recovered = out[r].recovered /\ out'[r].named = out[r].named
    BY <1>1, <2>2 DEF Outputs
  <2>4. RunOK(r)'
    BY <1>1, <1>2, <1>4, <2>1, <2>3, PassEffect, EarlyMove DEF NoFault, Before
  <2> QED
    BY <1>1, <1>2, <1>4, <2>2, <2>4, QuietStep DEF Active, After
<1>5. ASSUME Fail(r), NoFault \/ Fault(r), UNCHANGED out PROVE Kept(r)
  BY <1>1, <1>2, <1>5, QuietStep DEF Active, After
<1> QED
  BY <1>3, <1>4, <1>5 DEF ReadLedger

LEMMA DedupeStep ==
  ASSUME IInv, NEW r \in Runs, Dedupe(r) PROVE Kept(r)
<1> USE DEF IInv
<1>1. Types /\ RunOK(r) /\ pc[r] = "dedupe" /\ out \in [Runs -> Outputs]
  BY TypeParts DEF Dedupe, Types
<1>2. UNCHANGED <<out, verdict, verified, checks, hides>>
  BY DEF Dedupe
<1>3. ASSUME Pass(r, "ledger"), NoFault PROVE RunOK(r)'
  BY <1>1, <1>2, <1>3, PassEffect, EarlyMove DEF NoFault, Before
<1>4. (Pass(r, "ledger") /\ NoFault) \/ (Fail(r) /\ (NoFault \/ Fault(r)))
  BY DEF Dedupe
<1> QED
  BY <1>1, <1>2, <1>3, <1>4, QuietStep DEF Active, After

(* What a step of run r that touches the result, or the neutral check, is  *)
(* shown to do, put together.                                              *)
LEMMA StepKept ==
  ASSUME Types, NEW r \in Runs,
         pc' \in [Runs -> Steps], ok' \in [Runs -> BOOLEAN], ledger' \in [Runs -> Jobs],
         clean' \in [Runs -> BOOLEAN], faults' \in 0..MaxFaults, hides' = hides,
         verified' \in [Runs -> BOOLEAN],
         verdict' \in [Runs -> {"none", "PASS", "FAIL", "error"}],
         out' \in [Runs -> Outputs], result' \in [Runs -> Check], neutral' \in [Runs -> Check],
         PassIsEarned', RunOK(r)', Stands(r), pc'[r] \in Active \cup {"completed"},
         \A q \in Runs \ {r} : Same(q) /\ ChecksMove(q)
  PROVE  Kept(r)
  BY DEF Kept, Types

LEMMA DedupeFoundStep ==
  ASSUME IInv, NEW r \in Runs, DedupeFound(r) PROVE Kept(r)
<1> USE DEF IInv
<1>1. /\ Types /\ RunOK(r) /\ pc[r] = "dedupe" /\ out \in [Runs -> Outputs]
      /\ result \in [Runs -> Check]
  BY TypeParts DEF DedupeFound, Types
<1>2. UNCHANGED <<verdict, verified, neutral, hides>>
  BY DEF DedupeFound
<1>3. /\ result[r].state = "none" /\ neutral[r].state = "none"
      /\ out[r].check = NoRun /\ out[r].neutral = NoRun
      /\ ~out[r].reuse /\ ~out[r].recovered /\ ~out[r].named
      /\ ledger[r].codex \in {"none", ""} /\ ledger[r].enforce \in {"none", ""}
      /\ verdict[r] = "none"
  BY <1>1 DEF RunOK, EarlyOK, VerdictOK, Before, After
<1>4. PICK c \in Visible(result) :
       \/ /\ Reusable(c) /\ Pass(r, "neutral") /\ NoFault
          /\ out' = [out EXCEPT ![r].reuse = TRUE, ![r].check = c,
                                ![r].producer = result[c].producer]
          /\ UNCHANGED result
       \/ /\ Stale(c) /\ Fail(r) /\ (NoFault \/ Fault(r))
          /\ result' = [result EXCEPT ![c].state = "failure"]
          /\ UNCHANGED out
       \/ Fail(r) /\ (NoFault \/ Fault(r)) /\ UNCHANGED <<out, result>>
  BY DEF DedupeFound
<1>5. c \in Runs /\ RunOK(c) /\ result[c].visible
  BY <1>4 DEF Visible
<1>6. CASE /\ Reusable(c) /\ Pass(r, "neutral") /\ NoFault
           /\ out' = [out EXCEPT ![r].reuse = TRUE, ![r].check = c,
                                 ![r].producer = result[c].producer]
           /\ UNCHANGED result
  <2>1. /\ result[c].state = "success" /\ result[c].producer \in Runs
        /\ verdict[result[c].producer] = "PASS"
    BY <1>5, <1>6 DEF Reusable, PassIsEarned, RunOK, OpenOK
  <2>2. /\ out' \in [Runs -> Outputs] /\ out'[r].reuse = TRUE /\ out'[r].check = c
        /\ out'[r].producer = result[c].producer /\ out'[r].recovered = out[r].recovered
        /\ out'[r].named = out[r].named /\ out'[r].neutral = out[r].neutral
        /\ \A p \in Runs \ {r} : out'[p] = out[p]
    BY <1>1, <1>5, <1>6, <2>1, ZenonT(60) DEF Outputs
  <2>3. /\ pc'[r] = "neutral" /\ result' = result /\ neutral' = neutral
        /\ verdict' = verdict /\ clean' = clean /\ ledger' = ledger
    BY <1>1, <1>2, <1>6, PassEffect DEF NoFault
  <2>4. EarlyOK(r)'
    BY <2>3 DEF EarlyOK, Before
  <2>5. BoundOK(r)'
    BY <1>3, <1>5, <2>1, <2>2, <2>3 DEF BoundOK, Within, Reused
  <2>6. NeutralOK(r)'
    BY <1>3, <2>2, <2>3 DEF NeutralOK
  <2>7. VerdictOK(r)'
    BY <1>3, <2>2, <2>3 DEF VerdictOK
  <2>8. OpenOK(r)'
    BY <1>1, <1>3, <2>3 DEF RunOK, OpenOK
  <2>9. RunOK(r)'
    BY <2>4, <2>5, <2>6, <2>7, <2>8 DEF RunOK
  <2> QED
    BY <1>1, <1>2, <1>6, <2>2, <2>9, QuietStep DEF Active, After, checks
<1>7. CASE /\ Stale(c) /\ Fail(r) /\ (NoFault \/ Fault(r))
           /\ result' = [result EXCEPT ![c].state = "failure"]
           /\ UNCHANGED out
  <2>1. result[c].state = "in_progress" /\ c # r
    BY <1>3, <1>7 DEF Stale
  <2>2. /\ result' \in [Runs -> Check] /\ result'[c].state = "failure"
        /\ result'[c].producer = result[c].producer /\ result'[c].visible = result[c].visible
        /\ \A q \in Runs : q # c => result'[q] = result[q]
    <3>0. result \in [Runs -> Check] /\ c \in Runs
      BY <1>1, <1>5
    <3>1. result' = Turned(result, c, "failure")
      BY <1>7 DEF Turned
    <3> QED
      BY ONLY <3>0, <3>1, SetState
  <2>3. /\ pc'[r] = "close_result"
        /\ clean'[r] => clean[r]
        /\ \A q \in Runs \ {r} :
             pc'[q] = pc[q] /\ ledger'[q] = ledger[q] /\ clean'[q] = clean[q]
    BY <1>1, <1>7, FailEffect, FaultEffect
  <2>4. PassIsEarned'
    BY <1>2, <2>1, <2>2, PassKept
  <2>5. OpenOK(r)'
    BY <1>1, <1>2, <1>3, <2>1, <2>2 DEF RunOK, OpenOK
  <2>6. RunOK(r)'
    <3>1. pc[r] \notin After
      BY <1>1 DEF After
    <3> QED
      BY <1>1, <1>2, <1>7, <2>5, <3>1, FailedRun DEF RunOK
  <2>7. \A q \in Runs \ {r} : Same(q) /\ ChecksMove(q)
    BY <1>2, <1>7, <2>1, <2>2, <2>3 DEF Same, ChecksMove
  <2>8. pc' \in [Runs -> Steps] /\ ok' \in [Runs -> BOOLEAN] /\ ledger' \in [Runs -> Jobs]
    BY <1>1, <1>7, FailTypes
  <2>9. clean' \in [Runs -> BOOLEAN] /\ faults' \in 0..MaxFaults
    BY <1>1, <1>7, FaultTypes
  <2>10. Stands(r)
    BY <1>2, <2>1, <2>2 DEF Stands
  <2> QED
    BY <1>1, <1>2, <1>7, <2>2, <2>3, <2>4, <2>6, <2>7, <2>8, <2>9, <2>10, StepKept DEF Types, Active
<1>8. CASE Fail(r) /\ (NoFault \/ Fault(r)) /\ UNCHANGED <<out, result>>
  BY <1>1, <1>2, <1>8, QuietStep DEF Active, After, checks
<1> QED
  BY <1>4, <1>6, <1>7, <1>8

LEMMA ReserveStep ==
  ASSUME IInv, NEW r \in Runs, Reserve(r) PROVE Kept(r)
<1> USE DEF IInv
<1>1. /\ Types /\ RunOK(r) /\ pc[r] \in {"reserve", "recover"} /\ out \in [Runs -> Outputs]
      /\ result \in [Runs -> Check]
  BY TypeParts DEF Reserve, Types
<1>2. UNCHANGED <<verdict, verified, neutral, hides>>
  BY DEF Reserve
<1>3. /\ result[r].state = "none" /\ neutral[r].state = "none"
      /\ out[r].check = NoRun /\ out[r].neutral = NoRun
      /\ ~out[r].reuse /\ ~out[r].recovered /\ ~out[r].named
      /\ ledger[r].codex \in {"none", ""} /\ ledger[r].enforce \in {"none", ""}
      /\ verdict[r] = "none"
  BY <1>1 DEF RunOK, EarlyOK, VerdictOK, Before, After
<1> DEFINE recovering == pc[r] = "recover"
           p == IF recovering THEN out[r].producer ELSE r
<1>4. /\ p \in Runs /\ (recovering => verdict[p] = "PASS")
      /\ (~recovering => r = 1 /\ p = r)
  BY <1>1 DEF RunOK, EarlyOK
<1>5. \/ /\ Created(r, result, p, TRUE)
         /\ Pass(r, "bind") /\ NoFault
         /\ out' = [out EXCEPT ![r].reuse = recovering, ![r].recovered = recovering,
                               ![r].check = r, ![r].producer = p]
      \/ Created(r, result, p, FALSE) /\ Fail(r) /\ Fault(r) /\ UNCHANGED out
  BY DEF Reserve
<1>a. recovering \in BOOLEAN
  BY Zenon
<1> HIDE DEF p, recovering
<1>6. CASE /\ Created(r, result, p, TRUE)
           /\ Pass(r, "bind") /\ NoFault
           /\ out' = [out EXCEPT ![r].reuse = recovering, ![r].recovered = recovering,
                                 ![r].check = r, ![r].producer = p]
  <2>1. /\ result' \in [Runs -> Check] /\ result'[r].state = "in_progress"
        /\ result'[r].producer = p /\ result'[r].visible
        /\ \A q \in Runs : q # r => result'[q] = result[q]
    <3>0. result \in [Runs -> Check] /\ p \in Runs \cup {NoRun}
      BY <1>1, <1>4
    <3>1. result' = Posted(result, r, p)
      BY <1>6 DEF Created, Posted
    <3> QED
      BY ONLY <3>0, r \in Runs, <3>1, SetPosted
  <2>2. /\ out' \in [Runs -> Outputs] /\ out'[r].reuse = recovering /\ out'[r].check = r
        /\ out'[r].producer = p /\ out'[r].recovered = recovering
        /\ out'[r].named = out[r].named /\ out'[r].neutral = out[r].neutral
        /\ \A q \in Runs \ {r} : out'[q] = out[q]
    <3>0. /\ out \in [Runs -> Outputs] /\ recovering \in BOOLEAN /\ p \in Runs /\ r \in Runs
          /\ out' = [out EXCEPT ![r].reuse = recovering, ![r].recovered = recovering,
                                ![r].check = r, ![r].producer = p]
      BY <1>1, <1>4, <1>6, <1>a
    <3> QED
      BY ONLY <3>0, ZenonT(60) DEF Outputs
  <2>3. /\ pc'[r] = "bind" /\ clean' = clean /\ ledger' = ledger /\ faults' = faults
        /\ \A q \in Runs \ {r} : pc'[q] = pc[q]
    BY <1>1, <1>6, PassEffect DEF NoFault
  <2>4. PassIsEarned'
    BY <1>2, <1>3, <2>1, PassKept
  <2>5. RunOK(r)'
    <3>1. EarlyOK(r)'
      BY <2>3 DEF EarlyOK, Before
    <3>2. BoundOK(r)'
      BY <1>2, <1>4, <2>1, <2>2, <2>3 DEF BoundOK, Within, Reused
    <3>3. NeutralOK(r)' /\ VerdictOK(r)'
      BY <1>2, <1>3, <2>2, <2>3 DEF NeutralOK, VerdictOK
    <3>4. OpenOK(r)'
      BY <1>1, <1>2, <1>3, <1>4, <2>1, <2>2, <2>3 DEF RunOK, OpenOK, Within, Reused
    <3> QED
      BY <3>1, <3>2, <3>3, <3>4 DEF RunOK
  <2>6. \A q \in Runs \ {r} : Same(q) /\ ChecksMove(q)
    BY <1>2, <2>1, <2>2, <2>3 DEF Same, ChecksMove
  <2>7. pc' \in [Runs -> Steps] /\ ok' \in [Runs -> BOOLEAN] /\ ledger' \in [Runs -> Jobs]
    BY <1>1, <1>6, PassTypes DEF Steps, Active
  <2>8. clean' \in [Runs -> BOOLEAN] /\ faults' \in 0..MaxFaults
    BY <1>1, <1>6, FaultTypes
  <2>9. Stands(r)
    BY <1>2, <1>3 DEF Stands
  <2> QED
    BY <1>1, <1>2, <2>1, <2>2, <2>3, <2>4, <2>5, <2>6, <2>7, <2>8, <2>9, StepKept DEF Types, Active
<1>7. CASE Created(r, result, p, FALSE) /\ Fail(r) /\ Fault(r) /\ UNCHANGED out
  <2>1. /\ result' \in [Runs -> Check]
        /\ result'[r] = result[r] \/ /\ result'[r].state = "in_progress"
                                     /\ result'[r].producer = p /\ ~result'[r].visible
        /\ \A q \in Runs : q # r => result'[q] = result[q]
    <3>0. result \in [Runs -> Check] /\ p \in Runs \cup {NoRun}
      BY <1>1, <1>4
    <3>1. result' = result \/ result' = Unseen(result, r, p)
      BY <1>7 DEF Created, Unseen
    <3> QED
      BY ONLY <3>0, r \in Runs, <3>1, SetUnseen
  <2>2. /\ pc'[r] = "close_result" /\ clean'[r] = FALSE
        /\ \A q \in Runs \ {r} : pc'[q] = pc[q] /\ ledger'[q] = ledger[q] /\ clean'[q] = clean[q]
    BY <1>1, <1>7, FailEffect, FaultEffect
  <2>3. PassIsEarned'
    BY <1>2, <1>3, <2>1, PassKept
  <2>4. OpenOK(r)'
    BY <1>1, <1>2, <1>4, <2>1, <2>2 DEF RunOK, OpenOK
  <2>5. RunOK(r)'
    <3>1. pc[r] \notin After
      BY <1>1 DEF After
    <3> QED
      BY <1>1, <1>2, <1>7, <2>4, <3>1, FailedRun DEF RunOK
  <2>6. \A q \in Runs \ {r} : Same(q) /\ ChecksMove(q)
    BY <1>2, <1>7, <2>1, <2>2 DEF Same, ChecksMove
  <2>7. pc' \in [Runs -> Steps] /\ ok' \in [Runs -> BOOLEAN] /\ ledger' \in [Runs -> Jobs]
    BY <1>1, <1>7, FailTypes
  <2>8. clean' \in [Runs -> BOOLEAN] /\ faults' \in 0..MaxFaults
    BY <1>1, <1>7, FaultTypes
  <2>9. Stands(r)
    BY <1>2, <1>3 DEF Stands
  <2> QED
    BY <1>1, <1>2, <1>7, <2>1, <2>2, <2>3, <2>5, <2>6, <2>7, <2>8, <2>9, StepKept DEF Types, Active
<1> QED
  BY <1>5, <1>6, <1>7

(* Naming the neutral check changes nothing else of the outputs.           *)
NamedAs(r, n) ==
  /\ out' \in [Runs -> Outputs] /\ out'[r].named /\ out'[r].neutral = n
  /\ out'[r].reuse = out[r].reuse /\ out'[r].recovered = out[r].recovered
  /\ out'[r].check = out[r].check /\ out'[r].producer = out[r].producer
  /\ \A q \in Runs \ {r} : out'[q] = out[q]

LEMMA Naming ==
  ASSUME Types, NEW r \in Runs
  PROVE  /\ \A n \in Runs \cup {NoRun} : out' = [Named(r) EXCEPT ![r].neutral = n] => NamedAs(r, n)
         /\ out' = Named(r) => NamedAs(r, out[r].neutral)
<1>1. out \in [Runs -> Outputs]
  BY DEF Types
<1>2. ASSUME NEW n \in Runs \cup {NoRun}, out' = [Named(r) EXCEPT ![r].neutral = n]
      PROVE  NamedAs(r, n)
  BY <1>1, <1>2 DEF Named, NamedAs, Outputs
<1>3. ASSUME out' = Named(r) PROVE NamedAs(r, out[r].neutral)
  <2>1. out' = [out EXCEPT ![r].named = TRUE] /\ r \in Runs
    BY <1>3 DEF Named
  <2>2. \A q \in Runs \ {r} : out'[q] = out[q]
    BY ONLY <1>1, <2>1
  <2>3. out[r] \in Outputs /\ out'[r] = [out[r] EXCEPT !.named = TRUE]
    BY ONLY <1>1, <2>1
  <2>4. /\ out'[r].named /\ out'[r].neutral = out[r].neutral
        /\ out'[r].reuse = out[r].reuse /\ out'[r].recovered = out[r].recovered
        /\ out'[r].check = out[r].check /\ out'[r].producer = out[r].producer
    BY ONLY <2>3 DEF Outputs
  <2>5. out' \in [Runs -> Outputs]
    BY ONLY <1>1, <2>1 DEF Outputs
  <2> QED
    BY <2>2, <2>4, <2>5 DEF NamedAs
<1> QED
  BY <1>2, <1>3

LEMMA ReserveNeutralStep ==
  ASSUME IInv, NEW r \in Runs, ReserveNeutral(r) PROVE Kept(r)
<1> USE DEF IInv
<1>1. /\ Types /\ RunOK(r) /\ pc[r] = "neutral"
      /\ out \in [Runs -> Outputs] /\ neutral \in [Runs -> Check]
  BY TypeParts DEF ReserveNeutral, Types
<1>2. verdict' = verdict /\ verified' = verified /\ result' = result /\ hides' = hides
  BY DEF ReserveNeutral
<1>3. /\ neutral[r].state = "none" /\ out[r].neutral = NoRun
      /\ out[r].producer \in Runs /\ verdict[r] = "none"
      /\ ledger[r].enforce # "success" /\ pc[r] \notin After
  BY <1>1 DEF RunOK, NeutralOK, BoundOK, VerdictOK, Within, After
<1> DEFINE Fresh == /\ neutral'[r].state = "in_progress" /\ neutral'[r].producer = out[r].producer
           Passes(n) ==
             /\ NamedAs(r, n) /\ Pass(r, AfterNeutral(r)) /\ NoFault
             /\ neutral'[n].state # "none" /\ neutral'[n].producer = out[r].producer
             /\ neutral'[r] = neutral[r] \/ (Fresh /\ n = r)
           Fails(n) ==
             /\ NamedAs(r, n) /\ Fail(r)
             /\ \/ NoFault /\ neutral'[r] = neutral[r]
                \/ /\ Fault(r)
                   /\ neutral'[r] = neutral[r] \/ Fresh
<1>4. /\ neutral' \in [Runs -> Check]
      /\ \A q \in Runs : q # r => neutral'[q] = neutral[q]
      /\ neutral'[r] = neutral[r] \/ Fresh
  <2>1. \/ neutral' = neutral
        \/ neutral' = Posted(neutral, r, out[r].producer)
        \/ neutral' = Unseen(neutral, r, out[r].producer)
    BY DEF ReserveNeutral, Created, Posted, Unseen
  <2>2. neutral \in [Runs -> Check] /\ out[r].producer \in Runs \cup {NoRun}
    BY <1>1, <1>3
  <2> QED
    BY ONLY <2>1, <2>2, r \in Runs, SetPosted, SetUnseen
<1>5. (\E n \in Runs : Passes(n)) \/ (\E n \in Runs \cup {NoRun} : Fails(n))
  <2>1. CASE /\ Pass(r, AfterNeutral(r)) /\ NoFault
             /\ Created(r, neutral, out[r].producer, TRUE)
             /\ out' = [Named(r) EXCEPT ![r].neutral = r]
    <3>1. neutral' = Posted(neutral, r, out[r].producer)
      BY <2>1 DEF Created, Posted
    <3>2. neutral \in [Runs -> Check] /\ out[r].producer \in Runs \cup {NoRun}
      BY <1>1, <1>3
    <3>3. Fresh
      BY ONLY <3>1, <3>2, r \in Runs, SetPosted
    <3>4. NamedAs(r, r)
      BY <1>1, <2>1, Naming
    <3> QED
      BY <2>1, <3>3, <3>4
  <2>2. ASSUME Fail(r), Fault(r), NEW n \in Runs \cup {NoRun},
               out' = [Named(r) EXCEPT ![r].neutral = n]
        PROVE  Fails(n)
    BY <1>1, <1>4, <2>2, Naming
  <2>3. ASSUME NEW c \in Visible(neutral), neutral' = neutral,
               out' = [Named(r) EXCEPT ![r].neutral = c],
               \/ NeutralFits(r, c) /\ Pass(r, AfterNeutral(r)) /\ NoFault
               \/ Fail(r) /\ (NoFault \/ Fault(r))
        PROVE  c \in Runs /\ (Passes(c) \/ Fails(c))
    <3>1. c \in Runs /\ NamedAs(r, c)
      BY <1>1, <2>3, Naming DEF Visible
    <3>2. neutral[c].state # "none"
      BY <2>3, <3>1 DEF Visible, RunOK, OpenOK
    <3> QED
      BY <2>3, <3>1, <3>2 DEF NeutralFits
  <2>4. ASSUME Fail(r), NoFault, out' = Named(r), neutral' = neutral
        PROVE  Fails(out[r].neutral)
    BY <1>1, <2>4, Naming
  <2>5. NoRun \in Runs \cup {NoRun} /\ r \in Runs
    OBVIOUS
  <2> HIDE DEF Passes, Fails
  <2>6. \A n \in Runs \cup {NoRun} : Fail(r) /\ Fault(r)
                /\ out' = [Named(r) EXCEPT ![r].neutral = n] => Fails(n)
    BY <2>2
  <2> QED
    BY <1>3, <2>1, <2>6, <2>3, <2>4, <2>5 DEF ReserveNeutral
<1>6. PassIsEarned'
  BY <1>2, <1>3, <1>4, PassKept
<1>s. Stands(r)
  BY <1>2, <1>3 DEF Stands
<1>7. ASSUME NEW n \in Runs, Passes(n) PROVE Kept(r)
  <2>1. /\ pc'[r] = AfterNeutral(r) /\ ledger' = ledger /\ clean' = clean
        /\ \A q \in Runs \ {r} : pc'[q] = pc[q]
    BY <1>1, <1>7, PassEffect DEF NoFault
  <2>2. pc'[r] = IF out[r].reuse THEN "enforce" ELSE "codex"
    BY <2>1 DEF AfterNeutral
  <2>3. EarlyOK(r)'
    BY <2>2 DEF EarlyOK, Before
  <2>4. BoundOK(r)'
    BY <1>1, <1>2, <1>7, <2>2 DEF RunOK, BoundOK, Within, Reused, NamedAs
  <2>5. NeutralOK(r)'
    BY <1>7, <2>2 DEF NeutralOK, NamedAs
  <2>6. VerdictOK(r)'
    BY <1>1, <1>2, <1>3, <1>7, <2>1, <2>2 DEF RunOK, VerdictOK, NamedAs
  <2>7. OpenOK(r)'
    BY <1>1, <1>2, <1>3, <1>4, <1>7, <2>1, <2>2 DEF RunOK, OpenOK, NamedAs, Within, Reused
  <2>8. RunOK(r)'
    BY <2>3, <2>4, <2>5, <2>6, <2>7 DEF RunOK
  <2>9. \A q \in Runs \ {r} : Same(q) /\ ChecksMove(q)
    BY <1>2, <1>4, <1>7, <2>1 DEF Same, ChecksMove, NamedAs
  <2>10. pc'[r] \in Active /\ AfterNeutral(r) \in Steps
    BY <2>1, <2>2 DEF Active, Steps, AfterNeutral
  <2>11. pc' \in [Runs -> Steps] /\ ok' \in [Runs -> BOOLEAN] /\ ledger' \in [Runs -> Jobs]
    BY <1>1, <1>7, <2>10, PassTypes
  <2>12. clean' \in [Runs -> BOOLEAN] /\ faults' \in 0..MaxFaults
    BY <1>1, <1>7, FaultTypes
  <2> QED
    BY <1>1, <1>2, <1>4, <1>6, <1>7, <1>s, <2>8, <2>9, <2>10, <2>11, <2>12, StepKept DEF Types, NamedAs
<1>8. ASSUME NEW n \in Runs \cup {NoRun}, Fails(n) PROVE Kept(r)
  <2>1. /\ pc'[r] = "close_result"
        /\ \A q \in Runs \ {r} : pc'[q] = pc[q] /\ ledger'[q] = ledger[q] /\ clean'[q] = clean[q]
        /\ (clean' = clean /\ neutral'[r] = neutral[r]) \/ clean'[r] = FALSE
    BY <1>1, <1>8, FailEffect, FaultEffect
  <2>2. out'[r].reuse = out[r].reuse /\ out'[r].check = out[r].check
        /\ out'[r].recovered = out[r].recovered
    BY <1>8 DEF NamedAs
  <2>3. EarlyOK(r)' /\ BoundOK(r)' /\ NeutralOK(r)' /\ VerdictOK(r)'
    BY <1>1, <1>2, <1>3, <1>8, <2>2, FailedRun
  <2>4. OpenOK(r)'
    BY <1>1, <1>2, <1>3, <1>4, <2>1, <2>2 DEF RunOK, OpenOK, Reused
  <2>5. RunOK(r)'
    BY <2>3, <2>4 DEF RunOK
  <2>6. \A q \in Runs \ {r} : Same(q) /\ ChecksMove(q)
    BY <1>2, <1>4, <1>8, <2>1 DEF Same, ChecksMove, NamedAs
  <2>7. pc' \in [Runs -> Steps] /\ ok' \in [Runs -> BOOLEAN] /\ ledger' \in [Runs -> Jobs]
    BY <1>1, <1>8, FailTypes
  <2>8. clean' \in [Runs -> BOOLEAN] /\ faults' \in 0..MaxFaults
    BY <1>1, <1>8, FaultTypes
  <2>9. pc'[r] \in Active
    BY <2>1 DEF Active
  <2> QED
    BY <1>1, <1>2, <1>4, <1>6, <1>8, <1>s, <2>5, <2>6, <2>7, <2>8, <2>9, StepKept DEF Types, NamedAs
<1> QED
  BY <1>5, <1>7, <1>8

LEMMA CodexStep ==
  ASSUME IInv, NEW r \in Runs, Codex(r) PROVE Kept(r)
<1> USE DEF IInv
<1>1. Types /\ RunOK(r) /\ pc[r] = "codex"
  BY TypeParts DEF Codex
<1>2. /\ UNCHANGED <<out, verified, clean, faults, hides>>
      /\ result' = result /\ neutral' = neutral
  BY DEF Codex, checks
<1>3. PICK v \in {"PASS", "FAIL", "error"} :
       /\ verdict' = [verdict EXCEPT ![r] = v]
       /\ IF v = "error"
          THEN /\ Go(r, "close_result") /\ ok' = [ok EXCEPT ![r] = FALSE]
               /\ ledger' = [ledger EXCEPT ![r].codex = "failure", ![r].enforce = "skipped"]
          ELSE /\ Go(r, "enforce") /\ UNCHANGED ok
               /\ ledger' = [ledger EXCEPT ![r].codex = "success"]
  BY DEF Codex
<1>4. /\ r = 1 /\ ~out[r].reuse /\ verdict[r] = "none" /\ ledger[r].enforce # "success"
      /\ ~Reused(r)
  BY <1>1 DEF RunOK, VerdictOK, BoundOK, Within, After, Reused
<1>5. /\ verdict'[r] = v /\ \A q \in Runs \ {r} : verdict'[q] = verdict[q]
      /\ verdict' \in [Runs -> {"none", "PASS", "FAIL", "error"}]
  BY <1>1, <1>3 DEF Types
<1>6. /\ pc'[r] = (IF v = "error" THEN "close_result" ELSE "enforce")
      /\ \A q \in Runs \ {r} : pc'[q] = pc[q]
      /\ pc' \in [Runs -> Steps] /\ ok' \in [Runs -> BOOLEAN]
  BY <1>1, <1>3 DEF Types, Go, Steps, Active
<1>7. /\ ledger' \in [Runs -> Jobs] /\ ledger'[r].enforce # "success"
      /\ \A q \in Runs \ {r} : ledger'[q] = ledger[q]
  <2>1. ledger \in [Runs -> Jobs] /\ ledger[r] \in Jobs
    BY <1>1 DEF Types
  <2>2. CASE ledger' = [ledger EXCEPT ![r].codex = "failure", ![r].enforce = "skipped"]
    BY <2>1, <2>2 DEF Jobs, Entries
  <2>3. CASE ledger' = [ledger EXCEPT ![r].codex = "success"]
    BY <1>4, <2>1, <2>3 DEF Jobs, Entries
  <2> QED
    BY <1>3, <2>2, <2>3
<1>8. PassIsEarned'
  <2>1. \A q \in Runs : result[q].state = "success" =>
          verdict'[result[q].producer] = verdict[result[q].producer]
    <3> SUFFICES ASSUME NEW q \in Runs, result[q].state = "success"
                 PROVE  verdict'[result[q].producer] = verdict[result[q].producer]
      OBVIOUS
    <3>1. result[q].producer \in Runs /\ verdict[result[q].producer] = "PASS"
      BY DEF PassIsEarned, RunOK, OpenOK
    <3> QED
      BY <1>4, <1>5, <3>1
  <2> QED
    BY <1>2, <2>1, PassKept
<1>9. RunOK(r)'
  <2>1. EarlyOK(r)'
    BY <1>6 DEF EarlyOK, Before
  <2>2. BoundOK(r)'
    BY <1>1, <1>2, <1>4, <1>6 DEF RunOK, BoundOK, Within, Reused
  <2>3. NeutralOK(r)'
    BY <1>1, <1>2, <1>6 DEF RunOK, NeutralOK
  <2>4. VerdictOK(r)'
    BY <1>2, <1>4, <1>5, <1>6, <1>7 DEF VerdictOK, After
  <2>5. OpenOK(r)'
    BY <1>1, <1>2, <1>4, <1>6 DEF RunOK, OpenOK, Within, Reused
  <2> QED
    BY <2>1, <2>2, <2>3, <2>4, <2>5 DEF RunOK
<1>10. \A q \in Runs \ {r} : Same(q) /\ ChecksMove(q)
  BY <1>2, <1>5, <1>6, <1>7 DEF Same, ChecksMove
<1>11. Stands(r) /\ pc'[r] \in Active
  BY <1>2, <1>6 DEF Stands, Active
<1> QED
  BY <1>1, <1>2, <1>5, <1>6, <1>7, <1>8, <1>9, <1>10, <1>11, StepKept DEF Types

LEMMA EnforceStep ==
  ASSUME IInv, NEW r \in Runs, Enforce(r) PROVE Kept(r)
<1> USE DEF IInv
<1>1. Types /\ RunOK(r) /\ pc[r] = "enforce" /\ pc[r] \notin After
  BY TypeParts DEF Enforce, After
<1>2. out' = out /\ verdict' = verdict /\ neutral' = neutral /\ hides' = hides
  BY DEF Enforce
<1>3. /\ out[r].check \in Runs /\ (~Reused(r) => out[r].check = r)
      /\ result[out[r].check].producer = out[r].producer /\ out[r].producer \in Runs
      /\ result[out[r].check].state = (IF Reused(r) THEN "success" ELSE "in_progress")
      /\ Conclusion(r) = "success" /\ ~Reused(r) =>
           /\ verdict[out[r].producer] = "PASS"
           /\ ~out[r].reuse => verdict[r] = "PASS"
  BY <1>1 DEF RunOK, BoundOK, Within, Conclusion, Reused
<1> DEFINE Closing == /\ ~Reused(r) /\ verified'[r]
                      /\ result' = Turned(result, r, Conclusion(r))
           Quiet   == result' = result
           Passes  == /\ Pass(r, "publish") /\ NoFault
                      /\ (Quiet /\ Reused(r)) \/ (Closing /\ Conclusion(r) = "success")
           Fails   == /\ Fail(r)
                      /\ \/ NoFault /\ Quiet
                         \/ NoFault /\ Closing /\ Conclusion(r) = "failure"
                         \/ Fault(r) /\ (Quiet \/ Closing)
<1>4. /\ verified' \in [Runs -> BOOLEAN] /\ (verified' = verified \/ verified'[r])
      /\ \A q \in Runs \ {r} : verified'[q] = verified[q]
  BY <1>1 DEF Enforce, Types
<1>5. Passes \/ Fails
  <2>1. CASE Fail(r) /\ NoFault /\ UNCHANGED <<verified, result>>
    BY <2>1
  <2>2. CASE /\ verified' = [verified EXCEPT ![r] = TRUE]
             /\ Reused(r) /\ Pass(r, "publish") /\ NoFault /\ UNCHANGED result
    BY <2>2
  <2>3. CASE /\ verified' = [verified EXCEPT ![r] = TRUE] /\ ~Reused(r)
             /\ result' = [result EXCEPT ![out[r].check].state = Conclusion(r)]
             /\ \/ Conclusion(r) = "success" /\ Pass(r, "publish") /\ NoFault
                \/ Conclusion(r) = "failure" /\ Fail(r) /\ NoFault
                \/ Fail(r) /\ Fault(r)
    <3>1. verified'[r]
      BY <1>1, <2>3 DEF Types
    <3>2. Closing
      BY <1>3, <2>3, <3>1 DEF Turned
    <3> HIDE DEF Closing
    <3> QED
      BY <2>3, <3>2
  <2>4. CASE /\ verified' = [verified EXCEPT ![r] = TRUE]
             /\ Fail(r) /\ Fault(r) /\ UNCHANGED result
    BY <2>4
  <2> HIDE DEF Passes, Fails
  <2> QED
    BY <2>1, <2>2, <2>3, <2>4 DEF Enforce, Reused
<1>6. /\ result' \in [Runs -> Check]
      /\ \A q \in Runs : /\ result'[q].producer = result[q].producer
                         /\ result'[q].visible = result[q].visible
                         /\ q # r => result'[q].state = result[q].state
      /\ \/ Quiet
         \/ Closing /\ result[r].state = "in_progress" /\ result'[r].state = Conclusion(r)
  <2>1. result \in [Runs -> Check]
    BY <1>1 DEF Types
  <2>2. CASE Quiet
    BY <2>1, <2>2
  <2>3. CASE Closing
    <3>1. /\ result' = Turned(result, r, Conclusion(r)) /\ r \in Runs
          /\ Conclusion(r) \in {"none", "in_progress", "success", "failure"}
      BY <2>3 DEF Conclusion
    <3>2. /\ result' \in [Runs -> Check] /\ result'[r].state = Conclusion(r)
          /\ result'[r].producer = result[r].producer /\ result'[r].visible = result[r].visible
          /\ \A q \in Runs : q # r => result'[q] = result[q]
      BY ONLY <2>1, <3>1, SetState
    <3>3. result[r].state = "in_progress"
      BY <1>3, <2>3
    <3> QED
      BY <2>3, <3>2, <3>3
  <2> QED
    BY <1>5, <2>2, <2>3
<1>7. PassIsEarned'
  <2>1. \A q \in Runs : result'[q].state = "success" /\ result[q].state # "success" =>
          verdict'[result'[q].producer] = "PASS" /\ verified'[q]
    BY <1>2, <1>3, <1>6
  <2>2. \A q \in Runs : verified[q] => verified'[q]
    <3>1. \A q \in Runs : q # r => (verified[q] => verified'[q])
      BY Zenon, <1>4
    <3>2. verified[r] => verified'[r]
      BY Zenon, <1>4
    <3> QED
      BY Zenon, <3>1, <3>2
  <2>3. \A q \in Runs : result[q].state = "success" =>
          result'[q].state = "success" /\ result'[q].producer = result[q].producer
    BY <1>6
  <2>4. \A n \in Runs : neutral'[n].state = "success" =>
          neutral[n].state = "success" /\ neutral'[n].producer = neutral[n].producer
    BY <1>2
  <2> QED
    BY <1>2, <2>1, <2>2, <2>3, <2>4, PassKept
<1>8. ASSUME Passes PROVE Kept(r)
  <2>1. /\ pc'[r] = "publish" /\ ledger' = ledger /\ clean' = clean /\ faults' = faults
        /\ \A q \in Runs \ {r} : pc'[q] = pc[q]
    BY <1>1, <1>8, PassEffect DEF NoFault
  <2>2. /\ result'[out[r].check].state = "success"
        /\ result'[r].state # "in_progress" \/ Reused(r)
    <3>1. CASE Quiet /\ Reused(r)
      BY <1>3, <3>1
    <3>2. CASE Closing /\ Conclusion(r) = "success"
      <4>1. result'[r].state = "success"
        <5>1. result \in [Runs -> Check] /\ result' = Turned(result, r, "success")
          BY <1>1, <3>2 DEF Types
        <5> QED
          BY ONLY <5>1, r \in Runs, SetState
      <4> QED
        BY <1>3, <3>2, <4>1
    <3> QED
      BY <1>8, <3>1, <3>2
  <2>3. EarlyOK(r)'
    BY <2>1 DEF EarlyOK, Before
  <2>4. BoundOK(r)'
    BY <1>1, <1>2, <1>3, <1>6, <2>1, <2>2 DEF RunOK, BoundOK, Within, Reused
  <2>5. NeutralOK(r)'
    BY <1>1, <1>2, <2>1 DEF RunOK, NeutralOK
  <2>6. VerdictOK(r)'
    BY <1>1, <1>2, <1>3, <1>8, <2>1 DEF RunOK, VerdictOK, Reused, After
  <2>7. OpenOK(r)'
    <3>1. result'[r].state # "none" <=> result[r].state # "none"
      BY <1>6 DEF Conclusion
    <3>2. Reused(r) => result'[r].state = result[r].state
      BY <1>6
    <3> QED
      BY <1>1, <1>2, <1>6, <2>1, <2>2, <3>1, <3>2 DEF RunOK, OpenOK, Reused
  <2>8. RunOK(r)'
    BY <2>3, <2>4, <2>5, <2>6, <2>7 DEF RunOK
  <2>9. \A q \in Runs \ {r} : Same(q) /\ ChecksMove(q)
    BY <1>2, <1>6, <2>1 DEF Same, ChecksMove
  <2>10. pc' \in [Runs -> Steps] /\ ok' \in [Runs -> BOOLEAN] /\ ledger' \in [Runs -> Jobs]
    BY <1>1, <1>8, PassTypes DEF Steps, Active
  <2>11. Stands(r) /\ pc'[r] \in Active
    BY <1>2, <1>6, <2>1 DEF Stands, Active
  <2> QED
    BY <1>1, <1>2, <1>4, <1>6, <1>7, <2>1, <2>8, <2>9, <2>10, <2>11, StepKept DEF Types
<1>9. ASSUME Fails PROVE Kept(r)
  <2>1. /\ pc'[r] = "close_result"
        /\ \A q \in Runs \ {r} : pc'[q] = pc[q] /\ ledger'[q] = ledger[q] /\ clean'[q] = clean[q]
        /\ \/ clean' = clean /\ (result'[r].state = result[r].state
                                  \/ result'[r].state = "failure")
           \/ clean'[r] = FALSE
    BY <1>1, <1>6, <1>9, FailEffect, FaultEffect, ZenonT(60)
  <2>2. EarlyOK(r)' /\ BoundOK(r)' /\ NeutralOK(r)' /\ VerdictOK(r)'
    BY <1>1, <1>2, <1>9, FailedRun
  <2>3. OpenOK(r)'
    <3>1. result'[r].state # "none" <=> result[r].state # "none"
      BY <1>6 DEF Conclusion
    <3> QED
      BY <1>1, <1>2, <1>6, <2>1, <3>1 DEF RunOK, OpenOK, Reused
  <2>4. RunOK(r)'
    BY <2>2, <2>3 DEF RunOK
  <2>5. \A q \in Runs \ {r} : Same(q) /\ ChecksMove(q)
    BY <1>2, <1>6, <2>1 DEF Same, ChecksMove
  <2>6. pc' \in [Runs -> Steps] /\ ok' \in [Runs -> BOOLEAN] /\ ledger' \in [Runs -> Jobs]
    BY <1>1, <1>9, FailTypes
  <2>7. clean' \in [Runs -> BOOLEAN] /\ faults' \in 0..MaxFaults
    BY <1>1, <1>9, FaultTypes
  <2>8. Stands(r) /\ pc'[r] \in Active
    BY <1>2, <1>6, <2>1 DEF Stands, Active
  <2> QED
    BY <1>1, <1>2, <1>4, <1>6, <1>7, <2>4, <2>5, <2>6, <2>7, <2>8, StepKept DEF Types
<1> HIDE DEF Passes, Fails
<1> QED
  BY <1>5, <1>8, <1>9

LEMMA PublishStep ==
  ASSUME IInv, NEW r \in Runs, Publish(r) PROVE Kept(r)
<1> USE DEF IInv
<1>1. /\ Types /\ RunOK(r) /\ pc[r] = "publish" /\ pc[r] \notin After
      /\ neutral \in [Runs -> Check]
  BY TypeParts DEF Publish, Types, After
<1>2. /\ out' = out /\ verdict' = verdict /\ verified' = verified /\ result' = result
      /\ hides' = hides
  BY DEF Publish
<1> DEFINE n == out[r].neutral
<1>3. /\ n \in Runs /\ neutral[n].state # "none" /\ neutral[n].producer = out[r].producer
      /\ out[r].check \in Runs /\ result[out[r].check].state = "success"
      /\ result[out[r].check].producer = out[r].producer
      /\ (~out[r].reuse => verdict[r] = "PASS")
  BY <1>1 DEF RunOK, BoundOK, NeutralOK, VerdictOK, Within
<1> HIDE DEF n
<1>4. neutral' = neutral \/ neutral' = Turned(neutral, n, "success")
  BY DEF Publish, Turned, n
<1>5. /\ neutral' \in [Runs -> Check]
      /\ \A q \in Runs : /\ neutral'[q].producer = neutral[q].producer
                         /\ neutral'[q].visible = neutral[q].visible
                         /\ neutral'[q].state = neutral[q].state
                            \/ (q = n /\ neutral'[q].state = "success")
  BY ONLY <1>1, <1>3, <1>4, SetState
<1>6. PassIsEarned'
  <2>1. \A q \in Runs : neutral'[q].state = "success" =>
          \/ neutral[q].state = "success" /\ neutral'[q].producer = neutral[q].producer
          \/ \E m \in Runs : /\ result'[m].state = "success"
                             /\ result'[m].producer = neutral'[q].producer
    BY <1>2, <1>3, <1>5
  <2> QED
    BY <1>2, <2>1, PassKept
<1>7. Stands(r) /\ \A q \in Runs \ {r} : ChecksMove(q)
  BY <1>2, <1>3, <1>5 DEF Stands, ChecksMove
<1>8. OpenOK(r) /\ ~(clean[r] /\ result[r].state = "in_progress")
  BY <1>1 DEF RunOK, OpenOK, Within
<1>9. ASSUME Fail(r), Fault(r) PROVE Kept(r)
  <2>1. /\ pc'[r] = "close_result" /\ clean'[r] = FALSE
        /\ \A q \in Runs \ {r} : pc'[q] = pc[q] /\ ledger'[q] = ledger[q] /\ clean'[q] = clean[q]
    BY <1>1, <1>9, FailEffect, FaultEffect
  <2>2. EarlyOK(r)' /\ BoundOK(r)' /\ NeutralOK(r)' /\ VerdictOK(r)'
    BY <1>1, <1>2, <1>9, FailedRun
  <2>3. OpenOK(r)'
    BY <1>2, <1>5, <1>8, <2>1 DEF OpenOK
  <2>4. RunOK(r)'
    BY <2>2, <2>3 DEF RunOK
  <2>5. \A q \in Runs \ {r} : Same(q)
    BY <1>2, <2>1 DEF Same
  <2>6. pc' \in [Runs -> Steps] /\ ok' \in [Runs -> BOOLEAN] /\ ledger' \in [Runs -> Jobs]
    BY <1>1, <1>9, FailTypes
  <2>7. clean' \in [Runs -> BOOLEAN] /\ faults' \in 0..MaxFaults /\ pc'[r] \in Active
    BY <1>1, <1>9, <2>1, FaultTypes DEF Active
  <2> QED
    BY <1>1, <1>2, <1>5, <1>6, <1>7, <2>4, <2>5, <2>6, <2>7, StepKept DEF Types
<1>10. ASSUME Go(r, "close_result"), NoFault, UNCHANGED ok,
              ledger' = [ledger EXCEPT ![r].enforce = "success",
                                       ![r].codex = Recorded(@, "skipped")]
       PROVE  Kept(r)
  <2>1. /\ pc'[r] = "close_result" /\ clean' = clean /\ faults' = faults
        /\ \A q \in Runs \ {r} : pc'[q] = pc[q]
        /\ pc' \in [Runs -> Steps]
    BY <1>1, <1>10 DEF Types, Go, NoFault, Steps, Active
  <2>2. /\ ledger' \in [Runs -> Jobs] /\ ledger'[r].codex = Recorded(ledger[r].codex, "skipped")
        /\ \A q \in Runs \ {r} : ledger'[q] = ledger[q]
    <3>1. ledger \in [Runs -> Jobs] /\ ledger[r] \in Jobs
      BY <1>1 DEF Types
    <3>2. Recorded(ledger[r].codex, "skipped") \in Entries
      BY <3>1 DEF Jobs, Recorded, Entries
    <3>3. "success" \in Entries
      BY DEF Entries
    <3> QED
      BY <1>10, <3>1, <3>2, <3>3 DEF Jobs
  <2>3. ledger'[r].codex = "success" => ~out[r].reuse
    BY <1>1, <2>2 DEF RunOK, VerdictOK, Recorded
  <2>4. VerdictOK(r)'
    BY <1>1, <1>2, <1>3, <2>1, <2>3 DEF RunOK, VerdictOK, After
  <2>5. OpenOK(r)'
    BY <1>2, <1>3, <1>5, <1>8, <2>1 DEF OpenOK
  <2>6. RunOK(r)'
    BY <2>1, <2>4, <2>5 DEF RunOK, EarlyOK, BoundOK, NeutralOK, Before, Within
  <2>7. \A q \in Runs \ {r} : Same(q)
    BY <1>2, <2>1, <2>2 DEF Same
  <2>8. pc'[r] \in Active
    BY <2>1 DEF Active
  <2> QED
    BY <1>1, <1>2, <1>5, <1>6, <1>7, <1>10, <2>1, <2>2, <2>6, <2>7, <2>8, StepKept DEF Types
<1> QED
  BY <1>9, <1>10 DEF Publish

(* The closing steps turn an open check to failure, and nothing else.      *)
Closed(check, now) ==
  /\ now \in [Runs -> Check]
  /\ \A q \in Runs : /\ now[q].producer = check[q].producer
                     /\ now[q].visible = check[q].visible
                     /\ \/ now[q].state = check[q].state
                        \/ check[q].state = "in_progress" /\ now[q].state = "failure"

LEMMA ClosedCheck ==
  ASSUME NEW check \in [Runs -> Check], NEW c \in Runs
  PROVE  /\ Closed(check, check)
         /\ check[c].state = "in_progress" =>
              /\ Closed(check, Turned(check, c, "failure"))
              /\ Turned(check, c, "failure")[c].state = "failure"
<1>1. Closed(check, check)
  BY DEF Closed
<1>2. ASSUME check[c].state = "in_progress"
      PROVE  /\ Closed(check, Turned(check, c, "failure"))
             /\ Turned(check, c, "failure")[c].state = "failure"
  <2> DEFINE now == Turned(check, c, "failure")
  <2>1. /\ now \in [Runs -> Check] /\ now[c].state = "failure"
        /\ now[c].producer = check[c].producer /\ now[c].visible = check[c].visible
        /\ \A q \in Runs : q # c => now[q] = check[q]
    BY ONLY check \in [Runs -> Check], c \in Runs, SetState
  <2> HIDE DEF now
  <2>2. Closed(check, now) /\ now[c].state = "failure"
    BY <1>2, <2>1 DEF Closed
  <2> QED
    BY <2>2 DEF now
<1> QED
  BY <1>1, <1>2

(* A run that has ended its work and moves to a later step.                *)
LEMMA LateMove ==
  ASSUME Types, PassIsEarned, NEW r \in Runs, RunOK(r), pc[r] \in After, pc'[r] \in After,
         NEW next, Go(r, next), next \in Steps,
         UNCHANGED <<out, verdict, verified, hides>>,
         Fault(r) \/ NoFault, ok' \in [Runs -> BOOLEAN],
         ledger' \in [Runs -> Jobs], \A q \in Runs \ {r} : ledger'[q] = ledger[q],
         ledger'[r].codex = ledger[r].codex, ledger'[r].enforce = ledger[r].enforce,
         Closed(result, result'), Closed(neutral, neutral'),
         ~(clean'[r] /\ result'[r].state = "in_progress"),
         clean'[r] /\ neutral'[r].state = "in_progress" => pc'[r] = "close_neutral"
  PROVE  Kept(r)
<1>1. /\ pc' \in [Runs -> Steps] /\ \A q \in Runs \ {r} : pc'[q] = pc[q]
      /\ pc'[r] \in Active \cup {"completed"}
  BY DEF Types, Go, After, Active
<1>2. /\ clean' \in [Runs -> BOOLEAN] /\ faults' \in 0..MaxFaults
      /\ \A q \in Runs \ {r} : clean'[q] = clean[q]
      /\ clean'[r] => clean[r]
  BY FaultTypes, FaultEffect
<1>3. PassIsEarned'
  BY PassKept DEF Closed
<1>4. VerdictOK(r)'
  BY DEF RunOK, VerdictOK, After
<1>5. OpenOK(r)'
  <2>1. /\ result'[r].visible = result[r].visible /\ neutral'[r].visible = neutral[r].visible
        /\ result'[r].state # "none" <=> result[r].state # "none"
        /\ neutral'[r].state # "none" <=> neutral[r].state # "none"
        /\ result'[r].producer = result[r].producer
        /\ neutral'[r].state = "in_progress" => neutral[r].state = "in_progress"
        /\ neutral'[r].producer = neutral[r].producer
    BY DEF Closed
  <2> QED
    BY <1>2, <2>1 DEF RunOK, OpenOK
<1>6. RunOK(r)'
  BY <1>4, <1>5 DEF RunOK, EarlyOK, BoundOK, NeutralOK, Before, Within, After
<1>7. Stands(r) /\ \A q \in Runs \ {r} : Same(q) /\ ChecksMove(q)
  BY <1>1, <1>2 DEF Stands, Same, ChecksMove, Closed
<1> QED
  BY <1>1, <1>2, <1>3, <1>6, <1>7, StepKept DEF Types, Closed

LEMMA CloseResultStep ==
  ASSUME IInv, NEW r \in Runs, CloseResult(r) PROVE Kept(r)
<1> USE DEF IInv
<1>1. /\ Types /\ RunOK(r) /\ pc[r] = "close_result" /\ pc[r] \in After
      /\ result \in [Runs -> Check] /\ neutral \in [Runs -> Check]
  BY TypeParts DEF CloseResult, Types, After
<1>2. /\ UNCHANGED <<out, verdict, verified, hides>> /\ Go(r, "close_neutral")
      /\ ledger' = ledger /\ neutral' = neutral
  BY DEF CloseResult
<1>3. pc'[r] = "close_neutral" /\ pc'[r] \in After /\ "close_neutral" \in Steps
  BY <1>1, <1>2 DEF Types, Go, After, Steps, Active
<1>4. ok' \in [Runs -> BOOLEAN] /\ (Fault(r) \/ NoFault) /\ ledger' \in [Runs -> Jobs]
  BY <1>1, <1>2 DEF CloseResult, Types
<1>5. Closed(result, result') /\ ~(clean'[r] /\ result'[r].state = "in_progress")
  <2>1. clean[r] /\ result[r].state = "in_progress" => out[r].check = r /\ OwnsReservation(r)
    BY <1>1, NumbersOfRuns DEF RunOK, OpenOK, OwnsReservation, Reused
  <2>2. CASE UNCHANGED result /\ ~OwnsReservation(r) /\ NoFault
    BY <1>1, <2>1, <2>2, FaultEffect, ClosedCheck
  <2>3. CASE UNCHANGED result /\ Fault(r)
    BY <1>1, <2>3, FaultEffect, ClosedCheck
  <2>4. CASE OwnsReservation(r) /\ CloseOpen(result, out[r].check) /\ (NoFault \/ Fault(r))
    <3>1. out[r].check \in Runs
      BY <1>1, <2>4 DEF OwnsReservation, Types, Outputs
    <3>2. CASE result[out[r].check].state = "in_progress"
      <4>1. result' = Turned(result, out[r].check, "failure")
        BY <2>4, <3>2 DEF CloseOpen, Turned
      <4>2. Closed(result, result') /\ result'[out[r].check].state = "failure"
        BY <1>1, <3>1, <3>2, <4>1, ClosedCheck
      <4>3. result'[r].state = "in_progress" => result[r].state = "in_progress"
        BY <4>2 DEF Closed
      <4>4. clean'[r] => clean[r]
        BY <1>1, <2>4, FaultEffect
      <4> QED
        BY <2>1, <4>2, <4>3, <4>4
    <3>3. CASE result[out[r].check].state # "in_progress"
      <4>1. result' = result /\ (clean'[r] => clean[r])
        BY <1>1, <2>4, <3>3, FaultEffect DEF CloseOpen
      <4> QED
        BY <1>1, <2>1, <3>3, <4>1, ClosedCheck
    <3> QED
      BY <3>2, <3>3
  <2> QED
    BY <2>2, <2>3, <2>4 DEF CloseResult
<1>6. Closed(neutral, neutral')
  BY <1>1, <1>2, ClosedCheck
<1> QED
  BY <1>1, <1>2, <1>3, <1>4, <1>5, <1>6, LateMove

LEMMA CloseNeutralStep ==
  ASSUME IInv, NEW r \in Runs, CloseNeutral(r) PROVE Kept(r)
<1> USE DEF IInv
<1>1. /\ Types /\ RunOK(r) /\ pc[r] = "close_neutral" /\ pc[r] \in After
      /\ result \in [Runs -> Check] /\ neutral \in [Runs -> Check]
  BY TypeParts DEF CloseNeutral, Types, After
<1>2. /\ UNCHANGED <<out, verdict, verified, hides>> /\ Go(r, "end")
      /\ ledger' = ledger /\ result' = result /\ (Fault(r) \/ NoFault)
      /\ ledger' \in [Runs -> Jobs]
  BY <1>1 DEF CloseNeutral, Types
<1>3. pc'[r] = "end" /\ pc'[r] \in After /\ "end" \in Steps
  BY <1>1, <1>2 DEF Types, Go, After, Steps, Active
<1>4. ok' \in [Runs -> BOOLEAN]
  <2> DEFINE now == ok[r] /\ (out[r].named => /\ Cardinality(Found(r)) <= 1
                                              /\ Known(r) => Found(r) # {})
  <2>1. now \in BOOLEAN
    BY Zenon
  <2>2. ok' = [ok EXCEPT ![r] = now] \/ ok' = [ok EXCEPT ![r] = FALSE]
    BY Zenon DEF CloseNeutral
  <2> HIDE DEF now
  <2> QED
    BY <1>1, <2>1, <2>2 DEF Types
<1>5. ~(clean'[r] /\ result'[r].state = "in_progress") /\ Closed(result, result')
  BY <1>1, <1>2, FaultEffect, ClosedCheck DEF RunOK, OpenOK, Within
<1>6. Closed(neutral, neutral') /\ ~(clean'[r] /\ neutral'[r].state = "in_progress")
  <2>1. clean[r] /\ neutral[r].state = "in_progress" =>
          out[r].neutral = r /\ out[r].named /\ neutral[r].producer = out[r].producer
    BY <1>1 DEF RunOK, OpenOK
  <2>2. out[r].neutral = r /\ neutral[r].producer = out[r].producer =>
          Found(r) = {r} /\ Cardinality(Found(r)) = 1
    <3>1. ASSUME out[r].neutral = r, neutral[r].producer = out[r].producer
          PROVE  Found(r) = {r}
      <4>1. Known(r)
        BY <3>1, NumbersOfRuns DEF Known
      <4>. QED BY <3>1, <4>1 DEF Found
    <3>. QED BY ONLY <3>1, FS_Singleton
  <2>3. CASE UNCHANGED neutral /\ Fault(r)
    BY <1>1, <2>3, FaultEffect, ClosedCheck
  <2>4. CASE UNCHANGED neutral /\ NoFault /\ ~(out[r].named /\ Cardinality(Found(r)) = 1)
    BY <1>1, <2>1, <2>2, <2>4, FaultEffect, ClosedCheck
  <2>5. CASE /\ NoFault \/ Fault(r)
             /\ out[r].named /\ Cardinality(Found(r)) = 1
             /\ CloseOpen(neutral, CHOOSE c \in Found(r) : TRUE)
    <3> DEFINE c == CHOOSE x \in Found(r) : TRUE
    <3>1. Found(r) # {}
      BY <2>5, FS_EmptySet
    <3>2. c \in Found(r)
      BY <3>1
    <3>3. Found(r) \subseteq Runs
      <4>1. out[r].neutral \in Runs \cup {NoRun} /\ Visible(neutral) \subseteq Runs
        BY <1>1 DEF Types, Outputs, Visible
      <4> QED
        BY <4>1 DEF Found, Known, NoRun
    <3>4. c \in Runs /\ CloseOpen(neutral, c)
      BY <2>5, <3>2, <3>3
    <3>5. clean[r] /\ neutral[r].state = "in_progress" => c = r
      BY <2>1, <2>2, <3>2
    <3> HIDE DEF c
    <3>6. clean'[r] => clean[r]
      BY <1>1, <2>5, FaultEffect
    <3>7. CASE neutral[c].state = "in_progress"
      <4>1. neutral' = Turned(neutral, c, "failure")
        BY <3>4, <3>7 DEF CloseOpen, Turned
      <4>2. Closed(neutral, neutral') /\ neutral'[c].state = "failure"
        BY <1>1, <3>4, <3>7, <4>1, ClosedCheck
      <4>3. neutral'[r].state = "in_progress" => neutral[r].state = "in_progress"
        BY <4>2 DEF Closed
      <4> QED
        BY <3>5, <3>6, <4>2, <4>3
    <3>8. CASE neutral[c].state # "in_progress"
      <4>1. neutral' = neutral
        BY <3>4, <3>8 DEF CloseOpen
      <4> QED
        BY <1>1, <3>4, <3>5, <3>6, <3>8, <4>1, ClosedCheck
    <3> QED
      BY <3>7, <3>8
  <2> QED
    BY <2>3, <2>4, <2>5 DEF CloseNeutral, CloseNamed
<1> QED
  BY <1>1, <1>2, <1>3, <1>4, <1>5, <1>6, LateMove

LEMMA EndStep ==
  ASSUME IInv, NEW r \in Runs, End(r) PROVE Kept(r)
<1> USE DEF IInv
<1>1. /\ Types /\ RunOK(r) /\ pc[r] = "end" /\ pc[r] \in After
      /\ result \in [Runs -> Check] /\ neutral \in [Runs -> Check]
  BY TypeParts DEF End, Types, After
<1>2. /\ UNCHANGED <<out, verdict, verified, hides>> /\ Go(r, "completed") /\ NoFault
      /\ result' = result /\ neutral' = neutral /\ ok' \in [Runs -> BOOLEAN]
  BY <1>1 DEF End, Types, checks, NoFault
<1>3. pc'[r] = "completed" /\ pc'[r] \in After /\ "completed" \in Steps
  BY <1>1, <1>2 DEF Types, Go, After, Steps
<1>4. /\ ledger' \in [Runs -> Jobs] /\ \A q \in Runs \ {r} : ledger'[q] = ledger[q]
      /\ ledger'[r].codex = ledger[r].codex /\ ledger'[r].enforce = ledger[r].enforce
  BY <1>1 DEF End, Types, Jobs
<1>5. /\ ~(clean'[r] /\ result'[r].state = "in_progress")
      /\ ~(clean'[r] /\ neutral'[r].state = "in_progress")
  BY <1>1, <1>2 DEF RunOK, OpenOK, Within, NoFault
<1> QED
  BY <1>1, <1>2, <1>3, <1>4, <1>5, LateMove, ClosedCheck

LEMMA LostStep ==
  ASSUME IInv, NEW r \in Runs, Lost(r) PROVE Kept(r)
<1> USE DEF IInv
<1>1. /\ Types /\ RunOK(r) /\ pc[r] \in Active
      /\ UNCHANGED <<out, verified, hides>> /\ result' = result /\ neutral' = neutral
  BY TypeParts DEF Lost, checks
<1>2. /\ pc'[r] = "completed" /\ pc' \in [Runs -> Steps]
      /\ \A q \in Runs \ {r} : pc'[q] = pc[q]
  BY <1>1 DEF Lost, Go, Types, Steps
<1>3. PICK c \in {ledger[r].codex} \cup (IF pc[r] = "codex" THEN {"failure"} ELSE {}) :
        ledger' = [ledger EXCEPT ![r].codex = c, ![r].conclusion = "failure"]
  BY DEF Lost
<1>4. PICK v \in {verdict[r]} \cup (IF pc[r] = "codex" THEN {"error"} ELSE {}) :
        verdict' = [verdict EXCEPT ![r] = v]
  BY DEF Lost
<1>5. /\ ledger' \in [Runs -> Jobs] /\ ledger'[r].codex \in {ledger[r].codex, "failure"}
      /\ ledger'[r].enforce = ledger[r].enforce
      /\ \A q \in Runs \ {r} : ledger'[q] = ledger[q]
  <2>1. ledger \in [Runs -> Jobs] /\ ledger[r] \in Jobs /\ c \in Entries
    BY <1>1, <1>3 DEF Types, Jobs, Entries
  <2> QED
    BY <1>3, <2>1 DEF Jobs
<1>6. /\ verdict' \in [Runs -> {"none", "PASS", "FAIL", "error"}]
      /\ \A q \in Runs \ {r} : verdict'[q] = verdict[q]
      /\ verdict'[r] = verdict[r] \/ (pc[r] = "codex" /\ verdict[r] = "none")
  BY <1>1, <1>4 DEF Types, RunOK, VerdictOK, After
<1>7. /\ ok' \in [Runs -> BOOLEAN] /\ clean' \in [Runs -> BOOLEAN] /\ clean'[r] = FALSE
      /\ faults' \in 0..MaxFaults /\ \A q \in Runs \ {r} : clean'[q] = clean[q]
  BY <1>1 DEF Lost, Types
<1>8. PassIsEarned'
  <2>1. \A q \in Runs : result[q].state = "success" =>
          verdict'[result[q].producer] = verdict[result[q].producer]
    <3> SUFFICES ASSUME NEW q \in Runs, result[q].state = "success"
                 PROVE  verdict'[result[q].producer] = verdict[result[q].producer]
      OBVIOUS
    <3>1. result[q].producer \in Runs /\ verdict[result[q].producer] = "PASS"
      BY DEF PassIsEarned, RunOK, OpenOK
    <3> QED
      BY <1>6, <3>1
  <2> QED
    BY <1>1, <2>1, PassKept
<1>9. RunOK(r)'
  <2>1. VerdictOK(r)'
    <3>1. verdict'[r] # "none" => r = 1
      BY <1>1, <1>6 DEF RunOK, VerdictOK, BoundOK, Within
    <3>2. ledger[r].enforce = "success" => verdict'[r] = verdict[r]
      BY <1>1, <1>6 DEF RunOK, VerdictOK, After
    <3> QED
      BY <1>1, <1>2, <1>5, <3>1, <3>2 DEF RunOK, VerdictOK, After
  <2>2. OpenOK(r)'
    BY <1>1, <1>7 DEF RunOK, OpenOK
  <2> QED
    BY <1>2, <2>1, <2>2 DEF RunOK, EarlyOK, BoundOK, NeutralOK, Before, Within
<1>10. Stands(r) /\ \A q \in Runs \ {r} : Same(q) /\ ChecksMove(q)
  BY <1>1, <1>2, <1>5, <1>6, <1>7 DEF Stands, Same, ChecksMove
<1> QED
  BY <1>1, <1>2, <1>5, <1>6, <1>7, <1>8, <1>9, <1>10, StepKept DEF Types

-----------------------------------------------------------------------------
(* GitHub's own steps.                                                     *)

(* The step of a run that is at work keeps the invariant.                  *)
LEMMA WorkKept ==
  ASSUME IInv, NEW r \in Runs, pc[r] \in Active, Kept(r)
  PROVE  IInv'
<1> USE DEF IInv
<1>1. Types /\ Types'
  BY TypeParts DEF Kept
<1>2. \A q \in Runs \ {r} : pc[q] \notin Active /\ pc'[q] = pc[q]
  BY DEF GroupOK, Kept, Same
<1>3. GroupOK'
  <2>1. \A p, q \in Runs : pc'[p] \in Active /\ pc'[q] \in Active => p = q
    BY <1>2
  <2>2. pc[r] # "undispatched" /\ pc'[r] # "undispatched"
    BY DEF Kept, Active
  <2>3. \A p, q \in Runs : p < q /\ pc'[p] = "undispatched" => pc'[q] = "undispatched"
    BY <1>2, <2>2 DEF GroupOK
  <2> QED
    BY <2>1, <2>3 DEF GroupOK
<1>4. ASSUME NEW q \in Runs PROVE RunOK(q)'
  <2>1. CASE q # r
    BY <1>1, <1>2, <2>1, OtherRun DEF Kept
  <2> QED
    BY <2>1 DEF Kept
<1> QED
  BY <1>1, <1>3, <1>4, TypesAfter DEF Kept

LEMMA DispatchStep ==
  ASSUME IInv, NEW r \in Runs, Dispatch(r) PROVE IInv'
<1> USE DEF IInv
<1>1. /\ Types /\ pc[r] = "undispatched" /\ \A q \in Runs : q < r => pc[q] # "undispatched"
      /\ pc' = [q \in Runs |-> IF q = r THEN "queued"
                               ELSE IF pc[q] = "queued" THEN "completed" ELSE pc[q]]
      /\ UNCHANGED <<ok, out, verdict, verified, clean, ledger, faults, hides>>
      /\ result' = result /\ neutral' = neutral
  BY TypeParts DEF Dispatch, checks
<1>2. Types'
  BY <1>1 DEF Types, Steps
<1>3. GroupOK'
  <2>1. \A p, q \in Runs : pc'[p] \in Active /\ pc'[q] \in Active => p = q
    BY <1>1 DEF GroupOK, Active
  <2>2. \A p, q \in Runs : p < q /\ pc'[p] = "undispatched" => pc'[q] = "undispatched"
    BY <1>1 DEF GroupOK
  <2> QED
    BY <2>1, <2>2 DEF GroupOK
<1>4. PassIsEarned'
  BY <1>1 DEF PassIsEarned
<1>5. ASSUME NEW q \in Runs PROVE RunOK(q)'
  <2>1. CASE pc'[q] = pc[q]
    BY <1>1, <2>1 DEF RunOK, EarlyOK, BoundOK, NeutralOK, VerdictOK, OpenOK, Reused
  <2>2. CASE pc[q] = "undispatched" /\ pc'[q] = "queued"
    BY <1>1, <2>2 DEF RunOK, EarlyOK, BoundOK, NeutralOK, VerdictOK, OpenOK, Before, Within, After
  <2>3. CASE pc[q] = "queued" /\ pc'[q] = "completed"
    BY <1>1, <2>3 DEF RunOK, EarlyOK, BoundOK, NeutralOK, VerdictOK, OpenOK, Before, Within, After
  <2> QED
    BY <1>1, <2>1, <2>2, <2>3
<1> QED
  BY <1>2, <1>3, <1>4, <1>5, TypesAfter

LEMMA StartStep ==
  ASSUME IInv, NEW r \in Runs, Start(r) PROVE IInv'
<1> USE DEF IInv
<1>1. /\ Types /\ pc[r] = "queued" /\ \A q \in Runs : pc[q] \notin Active
      /\ UNCHANGED <<ok, out, verdict, verified, clean, faults, hides>>
      /\ result' = result /\ neutral' = neutral
  BY TypeParts DEF Start, checks
<1>2. /\ pc'[r] = "load" /\ pc' \in [Runs -> Steps]
      /\ \A q \in Runs \ {r} : pc'[q] = pc[q]
  BY <1>1 DEF Start, Go, Types, Steps, Active
<1>3. /\ ledger' \in [Runs -> Jobs] /\ ledger'[r].codex = "" /\ ledger'[r].enforce = ""
      /\ \A q \in Runs \ {r} : ledger'[q] = ledger[q]
  BY <1>1 DEF Start, Types, Jobs, Entries
<1>4. Types' /\ PassIsEarned'
  BY <1>1, <1>2, <1>3 DEF Types, PassIsEarned
<1>5. GroupOK'
  <2>1. \A p, q \in Runs : pc'[p] \in Active /\ pc'[q] \in Active => p = q
    BY <1>1, <1>2
  <2>2. \A p, q \in Runs : p < q /\ pc'[p] = "undispatched" => pc'[q] = "undispatched"
    BY <1>1, <1>2 DEF GroupOK
  <2> QED
    BY <2>1, <2>2 DEF GroupOK
<1>6. ASSUME NEW q \in Runs \ {r} PROVE RunOK(q)'
  <2>1. RunOK(q) /\ pc'[q] = pc[q] /\ ledger'[q] = ledger[q]
    BY <1>2, <1>3, <1>6
  <2>2. out' = out /\ verdict' = verdict /\ clean' = clean /\ result' = result /\ neutral' = neutral
    BY <1>1
  <2>3. EarlyOK(q)' /\ BoundOK(q)'
    BY ONLY <2>1, <2>2 DEF RunOK, EarlyOK, BoundOK, Reused
  <2>4. NeutralOK(q)' /\ VerdictOK(q)' /\ OpenOK(q)'
    BY ONLY <2>1, <2>2 DEF RunOK, NeutralOK, VerdictOK, OpenOK, Reused
  <2> QED
    BY <2>3, <2>4 DEF RunOK
<1>7. RunOK(r)'
  BY <1>1, <1>2, <1>3 DEF RunOK, EarlyOK, BoundOK, NeutralOK, VerdictOK, OpenOK, Before, Within, After
<1> QED
  BY <1>4, <1>5, <1>6, <1>7, TypesAfter

(* What listings show of a check.                                          *)
Listed(r) ==
  /\ run' = run /\ result' \in [Runs -> Check] /\ neutral' \in [Runs -> Check]
  /\ \A q \in Runs : /\ result'[q].state = result[q].state
                     /\ result'[q].producer = result[q].producer
                     /\ neutral'[q].state = neutral[q].state
                     /\ neutral'[q].producer = neutral[q].producer
                     /\ result'[q].visible => result[q].visible \/ result[q].state # "none"
                     /\ neutral'[q].visible => neutral[q].visible \/ neutral[q].state # "none"
  /\ faults' \in 0..MaxFaults /\ hides' \in 0..MaxHides

LEMMA ListingStep ==
  ASSUME IInv, NEW r \in Runs, Hide(r) \/ Appear(r) PROVE Listed(r)
<1> USE DEF IInv
<1>1. Types /\ result \in [Runs -> Check] /\ neutral \in [Runs -> Check]
  BY TypeParts DEF Types
<1>2. run' = run /\ faults' \in 0..MaxFaults /\ hides' \in 0..MaxHides
  BY <1>1 DEF Hide, Appear, Types
<1>3. \/ result' = result
      \/ result' = [result EXCEPT ![r].visible = FALSE]
      \/ result[r].state # "none" /\ result' = [result EXCEPT ![r].visible = TRUE]
  BY DEF Hide, Appear
<1>4. \/ neutral' = neutral
      \/ neutral' = [neutral EXCEPT ![r].visible = FALSE]
      \/ neutral[r].state # "none" /\ neutral' = [neutral EXCEPT ![r].visible = TRUE]
  BY DEF Hide, Appear
<1>5. ASSUME NEW f \in [Runs -> Check], NEW now,
             \/ now = f
             \/ now = [f EXCEPT ![r].visible = FALSE]
             \/ f[r].state # "none" /\ now = [f EXCEPT ![r].visible = TRUE]
      PROVE  /\ now \in [Runs -> Check]
             /\ \A q \in Runs : /\ now[q].state = f[q].state /\ now[q].producer = f[q].producer
                                /\ now[q].visible => f[q].visible \/ f[q].state # "none"
  <2>1. CASE now = f
    BY <2>1
  <2>2. ASSUME NEW b \in BOOLEAN, b => f[r].state # "none", now = [f EXCEPT ![r].visible = b]
        PROVE  /\ now \in [Runs -> Check]
               /\ \A q \in Runs : /\ now[q].state = f[q].state /\ now[q].producer = f[q].producer
                                  /\ now[q].visible => f[q].visible \/ f[q].state # "none"
    <3>1. f \in [Runs -> Check] /\ f[r] \in Check /\ r \in Runs /\ b \in BOOLEAN
      OBVIOUS
    <3>2. [f[r] EXCEPT !.visible = b] \in Check
      BY ONLY <3>1 DEF Check
    <3>3. /\ now \in [Runs -> Check] /\ now[r] = [f[r] EXCEPT !.visible = b]
          /\ \A q \in Runs : q # r => now[q] = f[q]
      BY ONLY <2>2, <3>1, <3>2
    <3>4. /\ now[r].state = f[r].state /\ now[r].producer = f[r].producer
          /\ now[r].visible = b
      BY ONLY <3>1, <3>3 DEF Check
    <3> QED
      BY <2>2, <3>3, <3>4
  <2>3. TRUE \in BOOLEAN /\ FALSE \in BOOLEAN
    OBVIOUS
  <2> QED
    BY <1>5, <2>1, <2>2, <2>3
<1>6. /\ result' \in [Runs -> Check]
      /\ \A q \in Runs : /\ result'[q].state = result[q].state
                         /\ result'[q].producer = result[q].producer
                         /\ result'[q].visible => result[q].visible \/ result[q].state # "none"
  BY ONLY <1>1, <1>3, <1>5
<1>7. /\ neutral' \in [Runs -> Check]
      /\ \A q \in Runs : /\ neutral'[q].state = neutral[q].state
                         /\ neutral'[q].producer = neutral[q].producer
                         /\ neutral'[q].visible => neutral[q].visible \/ neutral[q].state # "none"
  BY ONLY <1>1, <1>4, <1>5
<1> QED
  BY <1>2, <1>6, <1>7 DEF Listed

LEMMA ListedKept ==
  ASSUME IInv, NEW r \in Runs, Listed(r) PROVE IInv'
<1> USE DEF IInv
<1>1. /\ Types /\ pc' = pc /\ ok' = ok /\ out' = out /\ verdict' = verdict
      /\ verified' = verified /\ clean' = clean /\ ledger' = ledger
  BY TypeParts DEF Listed, run
<1>2. Types'
  BY <1>1 DEF Types, Listed
<1>3. GroupOK'
  BY <1>1 DEF GroupOK
<1>4. PassIsEarned'
  BY <1>1, PassKept DEF Listed
<1>5. ASSUME NEW q \in Runs PROVE RunOK(q)'
  <2>1. EarlyOK(q)'
    BY <1>1 DEF RunOK, EarlyOK, Listed
  <2>4. VerdictOK(q)'
    BY <1>1 DEF RunOK, VerdictOK
  <2>2. BoundOK(q)' /\ NeutralOK(q)'
    BY <1>1 DEF RunOK, BoundOK, NeutralOK, Listed, Reused
  <2>3. OpenOK(q)'
    BY <1>1 DEF RunOK, OpenOK, Listed, Reused
  <2> QED
    BY <2>1, <2>2, <2>3, <2>4 DEF RunOK
<1> QED
  BY <1>2, <1>3, <1>4, <1>5, TypesAfter

-----------------------------------------------------------------------------
(* The theorems.                                                           *)

LEMMA JobStep ==
  ASSUME IInv, NEW r \in Runs, Job(r) \/ Lost(r) PROVE pc[r] \in Active /\ Kept(r)
<1>1. pc[r] \in Active
  BY DEF Job, Lost, Active, Load, Dedupe, DedupeFound, ReadLedger, Reserve, BindDetails,
         ReserveNeutral, Codex, Enforce, Publish, CloseResult, CloseNeutral, End
<1> QED
  BY <1>1, LoadStep, DedupeStep, DedupeFoundStep, ReadLedgerStep, ReserveStep,
     BindDetailsStep, ReserveNeutralStep, CodexStep, EnforceStep, PublishStep,
     CloseResultStep, CloseNeutralStep, EndStep, LostStep DEF Job

LEMMA InitInv == Init => IInv
<1> SUFFICES ASSUME Init PROVE IInv
  OBVIOUS
<1>1. Types /\ GroupOK /\ PassIsEarned
  BY DEF Init, Types, GroupOK, PassIsEarned, Steps, Outputs, Jobs, Entries, Check, NoCheck,
         NoOutputs, NoJob, Active
<1>2. ASSUME NEW r \in Runs PROVE RunOK(r)
  BY DEF Init, RunOK, EarlyOK, BoundOK, NeutralOK, VerdictOK, OpenOK, NoCheck, NoOutputs,
         NoJob, Before, Within, After
<1> QED
  BY <1>1, <1>2, TypeParts DEF IInv

LEMMA NextInv == IInv /\ [Next]_vars => IInv'
<1> SUFFICES ASSUME IInv, [Next]_vars PROVE IInv'
  OBVIOUS
<1>1. ASSUME NEW r \in Runs, Dispatch(r) PROVE IInv'
  BY <1>1, DispatchStep
<1>2. ASSUME NEW r \in Runs, Start(r) PROVE IInv'
  BY <1>2, StartStep
<1>3. ASSUME NEW r \in Runs, Job(r) \/ Lost(r) PROVE IInv'
  BY <1>3, JobStep, WorkKept
<1>4. ASSUME NEW r \in Runs, Hide(r) \/ Appear(r) PROVE IInv'
  BY <1>4, ListingStep, ListedKept
<1>5. CASE UNCHANGED vars
  <2>1. Types /\ result \in [Runs -> Check] /\ neutral \in [Runs -> Check]
    BY TypeParts DEF IInv, Types
  <2>2. ASSUME NEW r \in Runs PROVE Listed(r)
    BY <1>5, <2>1 DEF vars, checks, Listed, Types
  <2> QED
    BY <2>2, ListedKept, NumbersOfRuns
<1> QED
  BY <1>1, <1>2, <1>3, <1>4, <1>5 DEF Next

THEOREM InvariantHolds == Spec => []IInv
<1> QED
  BY InitInv, NextInv, PTL DEF Spec

(* The AI is asked once for one immutable input, however many runs are     *)
(* dispatched and whatever is lost, hidden or recovered: only the first    *)
(* run reaches the step that asks it.                                      *)
THEOREM AskedOnce == Spec => []OneInvocation
<1>1. IInv => OneInvocation
  <2> SUFFICES ASSUME IInv PROVE OneInvocation
    OBVIOUS
  <2> DEFINE S == {r \in Runs : verdict[r] # "none"}
  <2>1. \A x, y \in S : x = y
    BY DEF IInv, RunOK, VerdictOK
  <2> HIDE DEF S
  <2>2. Cardinality(S) <= 1
    BY <2>1, AtMostOne
  <2> QED
    BY <2>2 DEF S, OneInvocation, IInv
<1> QED
  BY <1>1, InvariantHolds, PTL

(* Every success on GitHub goes back to a PASS of the AI and to a verified *)
(* revision, the neutral one through a protected result of the same run.   *)
THEOREM SuccessesAreEarned == Spec => []PassIsEarned
<1>1. IInv => PassIsEarned
  BY DEF IInv
<1> QED
  BY <1>1, InvariantHolds, PTL

(* A run that ends with all its requests answered has closed the checks it *)
(* created.                                                                *)
THEOREM ChecksAreClosed == Spec => []NothingLeftOpen
<1>1. IInv => NothingLeftOpen
  BY DEF IInv, RunOK, OpenOK, NothingLeftOpen, Within
<1> QED
  BY <1>1, InvariantHolds, PTL

(* No step turns a concluded result, nor a published success.              *)
THEOREM ConclusionsAreFinal == Spec => ConclusionsStand
<1> DEFINE A == /\ \A r \in Concluded(result) : result'[r].state = result[r].state
                /\ \A r \in Runs : neutral[r].state = "success" => neutral'[r].state = "success"
<1>1. IInv /\ [Next]_vars => [A]_vars
  <2> SUFFICES ASSUME IInv, [Next]_vars PROVE [A]_vars
    OBVIOUS
  <2>1. ASSUME NEW r \in Runs, Job(r) \/ Lost(r) PROVE A
    <3>1. Kept(r)
      BY <2>1, JobStep
    <3>2. \A q \in Runs : /\ result[q].state \in {"success", "failure"} => result'[q].state = result[q].state
                          /\ neutral[q].state = "success" => neutral'[q].state = "success"
      BY <3>1 DEF Kept, Stands, ChecksMove
    <3> QED
      BY <3>2 DEF Concluded
  <2>2. ASSUME NEW r \in Runs, Hide(r) \/ Appear(r) PROVE A
    BY <2>2, ListingStep DEF Listed, Concluded
  <2>3. ASSUME NEW r \in Runs, Dispatch(r) \/ Start(r) PROVE A
    BY <2>3 DEF Dispatch, Start, checks, Concluded
  <2> HIDE DEF A
  <2> QED
    BY <2>1, <2>2, <2>3 DEF Next
<1> HIDE DEF A
<1>2. Spec => [][A]_vars
  BY <1>1, InvariantHolds, PTL DEF Spec
<1> QED
  BY <1>2 DEF ConclusionsStand, A

=============================================================================
