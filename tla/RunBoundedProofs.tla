-------------------------- MODULE RunBoundedProofs --------------------------
(***************************************************************************)
(* Proofs about run_bounded of scripts/governed-ansible-exec.py, for every *)
(* timeout, output limit and grace period, and for any amount of output.   *)
(***************************************************************************)
EXTENDS RunBounded, TLAPS

(* Nothing that was written gets lost between the pipes and the count.     *)
OutputOK ==
  /\ total + pipe["stdout"] + pipe["stderr"] = written
  /\ kept = IF total <= MaxOutput THEN total ELSE MaxOutput
  /\ total > MaxOutput => reason # "none"
  /\ ~forced => \A s \in Streams \ open : AtEof(s)

(* Where the reason of an anomaly comes from, and until when it is open.   *)
ReasonOK ==
  /\ termination # Never => reason # "none"
  /\ signalled => reason # "none" \/ interrupted
  /\ killed \/ forced => reason # "none"
  /\ ~Alive => leaderEnds = {} /\ (unprompted \/ signalled)
  /\ forced => pc \in {"wait", "last_wait"} \cup Ended
  /\ pc \in {"wait", "last_wait"} \cup Ended => open = {}
  /\ pc \in {"last_wait", "raised"} => killed
  /\ pc = "done" => ~Alive /\ (interrupted => reason # "none")

(* How late it can be at each step.                                        *)
Latest == Timeout + PipeGrace + 3

ClockOK ==
  /\ pc \in {"top", "select", "bottom"} =>
       /\ reason # "none" => termination # Never /\ termination <= Timeout + 1
       /\ reason = "none" => termination = Never /\ clock <= Timeout + 1
  /\ pc = "top" => clock <= Latest - 1
  /\ pc = "select" => /\ roundTime = clock /\ clock <= Latest - 1
                      /\ reason = "none" => clock <= Timeout
  /\ pc = "bottom" => /\ roundTime <= clock /\ clock <= roundTime + 1 /\ clock <= Latest
                      /\ reason = "none" => roundTime <= Timeout
  /\ pc \in {"wait", "last_wait"} => clock <= deadline
  /\ pc = "wait" => deadline <= Latest + WaitGrace
  /\ pc = "last_wait" => deadline <= Latest + 2 * WaitGrace
  /\ clock <= Latest + 2 * WaitGrace

IInv == TypeOK /\ OutputOK /\ ReasonOK /\ ClockOK

-----------------------------------------------------------------------------

USE RunBoundedAssumption DEF RunBoundedAssumption

(* The types in two parts, of which each prover takes one.                 *)
Data ==
  /\ leader \in {"running", "zero", "nonzero"}
  /\ leaderEnds \subseteq Streams /\ heldEnds \subseteq Streams
  /\ pipe \in [Streams -> 0..MaxWrites] /\ written \in 0..MaxWrites
  /\ pc \in {"top", "select", "bottom", "wait", "last_wait"} \cup Ended
  /\ clock \in Nat /\ roundTime \in Nat /\ deadline \in Nat
  /\ termination \in Nat \cup {Never} /\ exitSeen \in Nat \cup {Never}
  /\ open \subseteq Streams
  /\ total \in Nat /\ kept \in 0..MaxOutput
  /\ reason \in Reasons

Flags ==
  /\ forced \in BOOLEAN /\ interrupted \in BOOLEAN
  /\ signalled \in BOOLEAN /\ killed \in BOOLEAN /\ unprompted \in BOOLEAN

LEMMA TypeParts == (TypeOK <=> Data /\ Flags) /\ (TypeOK' <=> (Data /\ Flags)')
  BY Zenon DEF TypeOK, Data, Flags

LEMMA InitInv == Init => IInv
<1> SUFFICES ASSUME Init PROVE IInv
  OBVIOUS
<1>1. Data
  BY DEF Init, Data, Reasons, Streams, Never, Ended
<1>4. Flags
  BY Zenon DEF Init, Flags
<1>2. OutputOK /\ ReasonOK
  BY DEF Init, OutputOK, ReasonOK, Streams, Never, Alive, Ended
<1>3. ClockOK
  BY DEF Init, ClockOK, Latest, Never
<1> QED
  BY <1>1, <1>2, <1>3, <1>4, TypeParts DEF IInv

(* What one poll of the selector reads.                                    *)
LEMMA ChunksReady ==
  ASSUME Data
  PROVE  /\ Chunks(Readable) \in Nat
         /\ [s \in Streams |-> IF s \in Readable THEN 0 ELSE pipe[s]] \in [Streams -> 0..MaxWrites]
         /\ Chunks(Readable) + (IF "stdout" \in Readable THEN 0 ELSE pipe["stdout"])
                             + (IF "stderr" \in Readable THEN 0 ELSE pipe["stderr"])
              = pipe["stdout"] + pipe["stderr"]
<1>1. pipe["stdout"] \in 0..MaxWrites /\ pipe["stderr"] \in 0..MaxWrites
  BY DEF Data, Streams
<1> QED
  BY <1>1 DEF Data, Chunks, Streams

(* Every step keeps the types.                                             *)
LEMMA FlagsStep == Flags /\ [Next]_vars => Flags'
<1> SUFFICES ASSUME Flags, [Next]_vars PROVE Flags'
  OBVIOUS
<1> USE DEF Flags, child, capture, timing, verdict, signals
<1>1. CASE TopOfRound
  BY Zenon, <1>1 DEF TopOfRound
<1>2. CASE Select
  BY Zenon, <1>2 DEF Select
<1>3. CASE BottomOfRound
  BY Zenon, <1>3 DEF BottomOfRound
<1>4. CASE Return
  BY Zenon, <1>4 DEF Return
<1>5. CASE Wait
  BY Zenon, <1>5 DEF Wait
<1>6. CASE KillAndWaitAgain
  BY Zenon, <1>6 DEF KillAndWaitAgain
<1>7. CASE RaiseTimeoutExpired
  BY Zenon, <1>7 DEF RaiseTimeoutExpired
<1>8. CASE LeaderExits
  BY Zenon, <1>8 DEF LeaderExits
<1>9. CASE ForwardSignal
  BY Zenon, <1>9 DEF ForwardSignal
<1>10. ASSUME NEW s \in Streams, Write(s) \/ Inherit(s) \/ LeaderCloses(s) \/ DescendantCloses(s)
       PROVE  Flags'
  BY Zenon, <1>10 DEF Write, Inherit, LeaderCloses, DescendantCloses
<1>11. CASE UNCHANGED vars
  BY Zenon, <1>11 DEF vars
<1> QED
  BY Zenon, <1>1, <1>2, <1>3, <1>4, <1>5, <1>6, <1>7, <1>8, <1>9, <1>10, <1>11
     DEF Next, Function, Environment

LEMMA DataStep == Data /\ OutputOK /\ [Next]_vars => Data'
<1> SUFFICES ASSUME Data, OutputOK, [Next]_vars PROVE Data'
  OBVIOUS
<1> USE DEF Data, Never, Reasons, Ended, child, capture, timing, verdict, signals
<1>1. CASE TopOfRound
  BY <1>1 DEF TopOfRound
<1>2. CASE Select
  <2>1. total' \in Nat /\ kept' \in 0..MaxOutput /\ pipe' \in [Streams -> 0..MaxWrites]
    BY <1>2, ChunksReady DEF Select, Keep
  <2>2. clock' \in Nat
    BY <1>2 DEF Select
  <2>3. reason' \in Reasons /\ termination' \in Nat \cup {Never} /\ open' \subseteq Streams
    BY <1>2, <2>2 DEF Select
  <2> QED
    BY <1>2, <2>1, <2>2, <2>3 DEF Select
<1>3. CASE BottomOfRound
  BY <1>3 DEF BottomOfRound, Or
<1>4. CASE Return
  BY <1>4 DEF Return, FinalReason
<1>5. CASE Wait
  BY <1>5 DEF Wait
<1>6. CASE KillAndWaitAgain
  BY <1>6 DEF KillAndWaitAgain, Or
<1>7. CASE RaiseTimeoutExpired
  BY <1>7 DEF RaiseTimeoutExpired
<1>8. CASE LeaderExits
  BY <1>8 DEF LeaderExits
<1>9. CASE ForwardSignal
  BY <1>9 DEF ForwardSignal
<1>10. ASSUME NEW s \in Streams, Write(s) PROVE Data'
  <2>1. pipe[s] + 1 \in 0..MaxWrites /\ written + 1 \in 0..MaxWrites
    <3>1. pipe["stdout"] \in 0..MaxWrites /\ pipe["stderr"] \in 0..MaxWrites
      BY DEF Streams
    <3> QED
      BY <1>10, <3>1 DEF Write, OutputOK, Streams
  <2> QED
    BY <1>10, <2>1 DEF Write
<1>11. ASSUME NEW s \in Streams, Inherit(s) \/ LeaderCloses(s) \/ DescendantCloses(s)
       PROVE  Data'
  BY <1>11 DEF Inherit, LeaderCloses, DescendantCloses
<1>12. CASE UNCHANGED vars
  BY <1>12 DEF vars
<1> QED
  BY <1>1, <1>2, <1>3, <1>4, <1>5, <1>6, <1>7, <1>8, <1>9, <1>10, <1>11, <1>12
     DEF Next, Function, Environment

LEMMA OutputStep == Data /\ OutputOK /\ ReasonOK /\ [Next]_vars => OutputOK'
<1> SUFFICES ASSUME Data, OutputOK, ReasonOK, [Next]_vars PROVE OutputOK'
  OBVIOUS
<1> USE DEF child, capture, timing, verdict, signals
<1>1. CASE TopOfRound
  BY <1>1 DEF TopOfRound, OutputOK, AtEof
<1>2. CASE Select
  <2> DEFINE n == Chunks(Readable)
  <2>1. n \in Nat /\ total \in Nat
    BY ChunksReady DEF Data
  <2>2. pipe' = [s \in Streams |-> IF s \in Readable THEN 0 ELSE pipe[s]]
    BY <1>2 DEF Select
  <2>3. /\ pipe'["stdout"] = IF "stdout" \in Readable THEN 0 ELSE pipe["stdout"]
        /\ pipe'["stderr"] = IF "stderr" \in Readable THEN 0 ELSE pipe["stderr"]
    BY <2>2 DEF Streams
  <2>4. total' = total + n /\ kept' = Keep(n) /\ written' = written
    BY <1>2 DEF Select
  <2>5. pipe'["stdout"] \in Nat /\ pipe'["stderr"] \in Nat
    BY <2>3 DEF Data, Streams
  <2>6. n + pipe'["stdout"] + pipe'["stderr"] = pipe["stdout"] + pipe["stderr"]
    BY <2>3, ChunksReady
  <2>7. (total + pipe["stdout"] + pipe["stderr"] = written)'
    <3>1. pipe["stdout"] \in Nat /\ pipe["stderr"] \in Nat
      BY DEF Data, Streams
    <3>2. total + pipe["stdout"] + pipe["stderr"] = written
      BY DEF OutputOK
    <3>3. total' + pipe'["stdout"] + pipe'["stderr"]
            = total + (n + pipe'["stdout"] + pipe'["stderr"])
      <4> HIDE DEF n
      <4> QED
        BY <2>1, <2>4, <2>5
    <3> QED
      BY <2>1, <2>4, <2>6, <3>1, <3>2, <3>3
  <2>8. (kept = IF total <= MaxOutput THEN total ELSE MaxOutput)'
    <3>1. kept = IF total <= MaxOutput THEN total ELSE MaxOutput
      BY DEF OutputOK
    <3> HIDE DEF n
    <3> QED
      BY <2>1, <2>4, <3>1 DEF Keep
  <2>9. (total > MaxOutput => reason # "none")'
    <3>1. IF n > 0 /\ OverLimit(n) /\ reason = "none"
          THEN reason' = "output_limit" ELSE reason' = reason
      BY <1>2 DEF Select
    <3>2. total > MaxOutput => reason # "none"
      BY DEF OutputOK
    <3> HIDE DEF n
    <3> QED
      BY <2>1, <2>4, <3>1, <3>2 DEF OverLimit
  <2>10. (~forced => \A s \in Streams \ open : AtEof(s))'
    <3> SUFFICES ASSUME ~forced', NEW s \in Streams, s \notin open' PROVE AtEof(s)'
      OBVIOUS
    <3>1. AtEof(s)
      BY <1>2 DEF Select, OutputOK
    <3> QED
      BY <1>2, <2>2, <3>1 DEF Select, AtEof
  <2> QED
    BY <2>7, <2>8, <2>9, <2>10 DEF OutputOK
<1>3. CASE BottomOfRound
  <2>1. ~forced
    BY <1>3 DEF BottomOfRound, ReasonOK, Ended
  <2>2. (~forced => \A s \in Streams \ open : AtEof(s))'
    BY <1>3, <2>1 DEF BottomOfRound, OutputOK, AtEof
  <2>3. (total > MaxOutput => reason # "none")'
    BY <1>3 DEF BottomOfRound, OutputOK, Or
  <2> QED
    BY <1>3, <2>2, <2>3 DEF BottomOfRound, OutputOK
<1>4. CASE Return
  BY <1>4 DEF Return, FinalReason, OutputOK, AtEof
<1>5. CASE Wait
  BY <1>5 DEF Wait, OutputOK, AtEof
<1>6. CASE KillAndWaitAgain
  BY <1>6 DEF KillAndWaitAgain, Or, OutputOK, AtEof
<1>7. CASE RaiseTimeoutExpired
  BY <1>7 DEF RaiseTimeoutExpired, OutputOK, AtEof
<1>8. CASE LeaderExits
  BY <1>8 DEF LeaderExits, OutputOK, AtEof
<1>9. CASE ForwardSignal
  BY <1>9 DEF ForwardSignal, OutputOK, AtEof
<1>10. ASSUME NEW s \in Streams, Write(s) PROVE OutputOK'
  <2>1. /\ pipe'["stdout"] = IF s = "stdout" THEN pipe["stdout"] + 1 ELSE pipe["stdout"]
        /\ pipe'["stderr"] = IF s = "stderr" THEN pipe["stderr"] + 1 ELSE pipe["stderr"]
    BY <1>10 DEF Write, Data, Streams
  <2>2. pipe["stdout"] \in Nat /\ pipe["stderr"] \in Nat /\ total \in Nat
    BY DEF Data, Streams
  <2>3. (total + pipe["stdout"] + pipe["stderr"] = written)'
    BY <1>10, <2>1, <2>2 DEF Write, OutputOK, Streams
  <2>4. (~forced => \A r \in Streams \ open : AtEof(r))'
    BY <1>10 DEF Write, OutputOK, AtEof, Data
  <2> QED
    BY <1>10, <2>3, <2>4 DEF Write, OutputOK
<1>11. ASSUME NEW s \in Streams, Inherit(s) \/ LeaderCloses(s) \/ DescendantCloses(s)
       PROVE  OutputOK'
  BY <1>11 DEF Inherit, LeaderCloses, DescendantCloses, OutputOK, AtEof
<1>12. CASE UNCHANGED vars
  BY <1>12 DEF vars, OutputOK, AtEof
<1> QED
  BY <1>1, <1>2, <1>3, <1>4, <1>5, <1>6, <1>7, <1>8, <1>9, <1>10, <1>11, <1>12
     DEF Next, Function, Environment

LEMMA ReasonStep == Data /\ Flags /\ ReasonOK /\ ClockOK /\ [Next]_vars => ReasonOK'
<1> SUFFICES ASSUME Data, Flags, ReasonOK, ClockOK, [Next]_vars PROVE ReasonOK'
  OBVIOUS
<1> USE DEF child, capture, timing, verdict, signals, ReasonOK, Alive, Ended
<1>1. CASE TopOfRound
  BY <1>1 DEF TopOfRound
<1>2. CASE Select
  BY <1>2 DEF Select
<1>3. CASE BottomOfRound
  BY <1>3 DEF BottomOfRound, Or, Past
<1>4. CASE Return
  BY <1>4 DEF Return, FinalReason
<1>5. CASE Wait
  BY <1>5 DEF Wait
<1>6. CASE KillAndWaitAgain
  BY <1>6 DEF KillAndWaitAgain, Or
<1>7. CASE RaiseTimeoutExpired
  BY <1>7 DEF RaiseTimeoutExpired
<1>8. CASE LeaderExits
  BY <1>8 DEF LeaderExits
<1>9. CASE ForwardSignal
  BY <1>9 DEF ForwardSignal
<1>10. ASSUME NEW s \in Streams, Write(s) \/ Inherit(s) \/ LeaderCloses(s) \/ DescendantCloses(s)
       PROVE  ReasonOK'
  BY <1>10 DEF Write, Inherit, LeaderCloses, DescendantCloses
<1>11. CASE UNCHANGED vars
  BY <1>11 DEF vars
<1> QED
  BY <1>1, <1>2, <1>3, <1>4, <1>5, <1>6, <1>7, <1>8, <1>9, <1>10, <1>11
     DEF Next, Function, Environment

LEMMA ClockStep == Data /\ ReasonOK /\ ClockOK /\ [Next]_vars => ClockOK'
<1> SUFFICES ASSUME Data, ReasonOK, ClockOK, [Next]_vars PROVE ClockOK'
  OBVIOUS
<1> USE DEF child, capture, timing, verdict, signals, ClockOK, Latest, Data, Never
<1>1. CASE TopOfRound
  BY <1>1 DEF TopOfRound
<1>2. CASE Select
  BY <1>2 DEF Select
<1>3. CASE BottomOfRound
  BY <1>3 DEF BottomOfRound, HardPipeDeadline, Past, Or
<1>4. CASE Return
  BY <1>4 DEF Return
<1>5. CASE Wait
  BY <1>5 DEF Wait
<1>6. CASE KillAndWaitAgain
  BY <1>6 DEF KillAndWaitAgain, Or
<1>7. CASE RaiseTimeoutExpired
  BY <1>7 DEF RaiseTimeoutExpired
<1>8. CASE LeaderExits
  BY <1>8 DEF LeaderExits
<1>9. CASE ForwardSignal
  BY <1>9 DEF ForwardSignal
<1>10. ASSUME NEW s \in Streams, Write(s) \/ Inherit(s) \/ LeaderCloses(s) \/ DescendantCloses(s)
       PROVE  ClockOK'
  BY <1>10 DEF Write, Inherit, LeaderCloses, DescendantCloses
<1>11. CASE UNCHANGED vars
  BY <1>11 DEF vars
<1> QED
  BY <1>1, <1>2, <1>3, <1>4, <1>5, <1>6, <1>7, <1>8, <1>9, <1>10, <1>11
     DEF Next, Function, Environment

-----------------------------------------------------------------------------

(* The four parts hold together in every state of the function.            *)
THEOREM Invariance == Spec => []IInv
<1>1. IInv /\ [Next]_vars => IInv'
  BY FlagsStep, DataStep, OutputStep, ReasonStep, ClockStep, TypeParts DEF IInv
<1> QED
  BY InitInv, <1>1, PTL DEF Spec

(* The buffers of run_bounded never outgrow max_output_bytes, and up to    *)
(* that limit they hold everything that was read.                          *)
THEOREM BuffersAreBounded == Spec => []CaptureIsBounded
<1>1. IInv => CaptureIsBounded
  BY Zenon DEF IInv, OutputOK, CaptureIsBounded
<1> QED
  BY Invariance, <1>1, PTL

(* Exit code 0 without a termination reason, which is what main() takes    *)
(* for success, means that the child ended before any signal and that the  *)
(* captured output is complete, whatever its descendants did.              *)
THEOREM CleanExitIsComplete == Spec => []SuccessIsComplete
<1>1. IInv => SuccessIsComplete
  <2> SUFFICES ASSUME IInv, pc = "done", leader = "zero", reason = "none"
               PROVE  /\ unprompted /\ ~forced /\ heldEnds = {}
                      /\ total = written /\ kept = total /\ total <= MaxOutput
    BY DEF SuccessIsComplete
  <2> USE DEF IInv
  <2>1. open = {} /\ ~forced
    BY DEF ReasonOK, Ended
  <2>2. unprompted
    BY DEF ReasonOK, Alive, Ended
  <2>3. AtEof("stdout") /\ AtEof("stderr")
    BY <2>1 DEF OutputOK, Streams
  <2>4. heldEnds = {}
    BY <2>3, TypeParts DEF AtEof, Data, Streams
  <2>5. total = written
    BY <2>3, TypeParts DEF AtEof, OutputOK, Data
  <2>6. total <= MaxOutput /\ kept = total
    BY TypeParts DEF OutputOK, Data
  <2> QED
    BY <2>1, <2>2, <2>4, <2>5, <2>6
<1> QED
  BY Invariance, <1>1, PTL

(* run_bounded is over within the timeout, the pipe deadline and the two   *)
(* waits, plus three polls, whatever the child does: no descendant that    *)
(* holds a pipe and no child that ignores SIGTERM keeps the recorder.      *)
THEOREM FunctionIsTimely == Spec => []TimeIsBounded
<1>1. IInv => TimeIsBounded
  BY TypeParts DEF IInv, ClockOK, Latest, TimeIsBounded, Data
<1> QED
  BY Invariance, <1>1, PTL

(* A child that is still alive when run_bounded is over has been sent      *)
(* SIGKILL, and the function has raised TimeoutExpired.                    *)
THEOREM OnlyKilledChildrenSurvive == Spec => []SurvivorWasKilled
<1>1. IInv => SurvivorWasKilled
  BY DEF IInv, ReasonOK, SurvivorWasKilled, Alive, Ended
<1> QED
  BY Invariance, <1>1, PTL

(* A result whose pipes were closed by force, whose child was killed, or   *)
(* during which a signal reached the recorder carries a reason.            *)
THEOREM AnomaliesHaveReasons == Spec => []AnomalyIsReported
<1>1. IInv => AnomalyIsReported
  BY DEF IInv, ReasonOK, AnomalyIsReported
<1> QED
  BY Invariance, <1>1, PTL

=============================================================================
