------------------------- MODULE GovernedExecProofs -------------------------
(***************************************************************************)
(* Proofs about GovernedExec, for every set of invocations, directories    *)
(* and approvals, every fault set and every bound.                         *)
(*                                                                         *)
(* The first part is about approvals, journals and claims.  IInv is        *)
(* inductive: TypeOK, ControlOK, JournalOK and ClaimsOK each get a lemma   *)
(* that says a step preserves it, with one case per action.                *)
(*                                                                         *)
(* The second part is about what an invocation leaves behind: which        *)
(* processes it has run and under which checks, what its final record      *)
(* says, and that all of it implements OneShotExecution.  HistoryOK(i)     *)
(* speaks of one invocation.  A step of anything else leaves its own state *)
(* alone and only adds to what is shared (Locality, SharedIsKept), so that *)
(* the proof has one case per action of the invocation itself.             *)
(***************************************************************************)
EXTENDS GovernedExec, SequenceTheorems, TLAPS

IInv == TypeOK /\ ControlOK /\ JournalOK /\ ClaimsOK

(* The entries of procs and of phases.                                     *)
Proc  == [phase : Stages, fate : Fates]
Phase == [phase : Stages, outcome : Outcomes \cup {"process_start"}]

-----------------------------------------------------------------------------
(* Lemmas about the operators of the model.                                *)

(* Updating the fate of the last process keeps the type, the length and    *)
(* every phase of the history.                                             *)
LEMMA WithFateKeepsPhases ==
  ASSUME NEW s \in Seq(Proc), s # <<>>, NEW f \in Fates
  PROVE  /\ WithFate(s, f) \in Seq(Proc)
         /\ WithFate(s, f) # <<>>
         /\ Len(WithFate(s, f)) = Len(s)
         /\ \A n \in 1..Len(s) : WithFate(s, f)[n].phase = s[n].phase
<1>1. Len(s) \in 1..Len(s)
  OBVIOUS
<1>2. s[Len(s)] \in Proc
  BY <1>1
<1>3. [s[Len(s)] EXCEPT !.fate = f] \in Proc
  BY <1>2 DEF Proc
<1>4. [s[Len(s)] EXCEPT !.fate = f].phase = s[Len(s)].phase
  BY <1>2 DEF Proc
<1> QED
  BY <1>1, <1>2, <1>3, <1>4 DEF WithFate

(* write_new_json always writes one of the four records.                   *)
LEMMA DocIsADoc == \A i : Doc(i) \in Docs
  BY DEF Doc, Docs

(* An approval that is still to be claimed is one of the approvals.        *)
LEMMA NeededIsAnApproval ==
  ASSUME NEW i \in Invocations, NEW n \in 1..Len(Needed[i])
  PROVE  Needed[i][n] \in Approvals
  BY GovernedAssumption DEF GovernedAssumption

(* There is at least one approval, and their number is a natural number.   *)
LEMMA LenOfNeeded ==
  \A i \in Invocations : Len(Needed[i]) \in Nat /\ 0 < Len(Needed[i])
<1> SUFFICES ASSUME NEW i \in Invocations
             PROVE  Len(Needed[i]) \in Nat /\ 0 < Len(Needed[i])
  OBVIOUS
<1>1. Needed[i] \in Seq(Approvals) /\ Needed[i] # <<>>
  BY GovernedAssumption DEF GovernedAssumption
<1> QED
  BY <1>1

(* What the types say of one invocation.                                   *)
LEMMA TypesOfOne ==
  ASSUME TypeOK, NEW i \in Invocations
  PROVE  /\ held[i] \in Nat /\ held[i] <= Len(Needed[i])
         /\ stage[i] = "payload" => held[i] = Len(Needed[i])
         /\ stage[i] \in Stages /\ pc[i] \in Pcs /\ reply[i] \in Replies
         /\ Journal[i] \in Journals
  BY GovernedAssumption DEF TypeOK, GovernedAssumption

(* The claims made by one invocation, as far as TypeOK limits them.        *)
ClaimTypeOK ==
  /\ stage \in [Invocations -> Stages] /\ held \in [Invocations -> Nat]
  /\ \A i \in Invocations :
       /\ held[i] <= Len(Needed[i])
       /\ stage[i] = "payload" => held[i] = Len(Needed[i])

LEMMA ClaimOrPayloadKeepsType ==
  ASSUME ClaimTypeOK, NEW i \in Invocations, NEW n \in Nat,
         n <= Len(Needed[i]), held' = [held EXCEPT ![i] = n],
         stage[i] # "payload",
         pc \in [Invocations -> Pcs], ClaimOrPayload(i, n)
  PROVE  ClaimTypeOK' /\ pc' \in [Invocations -> Pcs]
<1>1. Len(Needed[i]) \in Nat
  BY LenOfNeeded
<1>2. CASE n < Len(Needed[i])
  BY <1>2 DEF ClaimOrPayload, ClaimTypeOK, Goto, Pcs, TryPcs
<1>3. CASE n = Len(Needed[i])
  BY <1>1, <1>3 DEF ClaimOrPayload, ClaimTypeOK, Goto, Pcs, TryPcs, Stages
<1> QED
  BY <1>1, <1>2, <1>3

LEMMA StatusIsAStatus == \A i : ExecutionStatus(i) \in Statuses
  BY DEF ExecutionStatus, Statuses

(* A longer sequence of the same elements.                                 *)
LEMMA AppendKeepsType ==
  ASSUME NEW S, NEW s \in Seq(S), NEW e \in S
  PROVE  /\ Append(s, e) \in Seq(S)
         /\ Append(s, e) # <<>>
         /\ Len(Append(s, e)) = Len(s) + 1
         /\ Append(s, e)[Len(s) + 1] = e
         /\ \A n \in 1..Len(s) : Append(s, e)[n] = s[n]
  OBVIOUS

(* Replacing one value of a function on the invocations.                   *)
LEMMA UpdateKeepsType ==
  ASSUME NEW S, NEW f \in [Invocations -> S], NEW i \in Invocations, NEW e \in S
  PROVE  [f EXCEPT ![i] = e] \in [Invocations -> S]
  OBVIOUS

(* The process histories stay well typed when the running one is abandoned.*)
LEMMA AbandonKeepsType ==
  ASSUME TypeOK, ControlOK, NEW i \in Invocations, AbandonProcess(i)
  PROVE  procs' \in [Invocations -> Seq(Proc)]
<1>1. procs \in [Invocations -> Seq(Proc)]
  BY DEF TypeOK, Proc
<1>2. CASE pc[i] = "running"
  <2>1. procs[i] \in Seq(Proc) /\ procs[i] # <<>>
    BY <1>1, <1>2 DEF ControlOK
  <2>2. WithFate(procs[i], "abandoned") \in Seq(Proc)
    BY <2>1, WithFateKeepsPhases DEF Fates
  <2> QED
    BY <1>1, <1>2, <2>2 DEF AbandonProcess
<1>3. CASE pc[i] # "running"
  BY <1>1, <1>3 DEF AbandonProcess
<1> QED
  BY <1>2, <1>3

(* Abandoning a process removes none from the history and adds none.       *)
LEMMA AbandonKeepsHistory ==
  ASSUME TypeOK, ControlOK, NEW i \in Invocations, AbandonProcess(i)
  PROVE  \A k \in Invocations :
           /\ procs[k] = <<>> <=> procs'[k] = <<>>
           /\ Len(procs'[k]) = Len(procs[k])
           /\ \A n \in 1..Len(procs[k]) :
                procs'[k][n].phase = procs[k][n].phase
<1>1. procs \in [Invocations -> Seq(Proc)]
  BY DEF TypeOK, Proc
<1>2. CASE pc[i] = "running"
  <2>1. procs[i] \in Seq(Proc) /\ procs[i] # <<>> /\ "abandoned" \in Fates
    BY <1>1, <1>2 DEF ControlOK, Fates
  <2>2. procs' = [procs EXCEPT ![i] = WithFate(procs[i], "abandoned")]
    BY <1>2 DEF AbandonProcess
  <2>3. /\ Len(WithFate(procs[i], "abandoned")) = Len(procs[i])
        /\ WithFate(procs[i], "abandoned") # <<>>
        /\ \A n \in 1..Len(procs[i]) :
             WithFate(procs[i], "abandoned")[n].phase = procs[i][n].phase
    BY <2>1, WithFateKeepsPhases
  <2>4. procs'[i] = WithFate(procs[i], "abandoned")
        /\ \A k \in Invocations \ {i} : procs'[k] = procs[k]
    BY ONLY <1>1, <2>2
  <2> QED
    BY ONLY <2>1, <2>3, <2>4
<1>3. CASE pc[i] # "running"
  BY <1>1, <1>3 DEF AbandonProcess
<1> QED
  BY <1>2, <1>3

-----------------------------------------------------------------------------
(* Types.                                                                  *)

(* Every step keeps the types.                                             *)
LEMMA TypeStep == TypeOK /\ ControlOK /\ [Next]_vars => TypeOK'
<1> SUFFICES ASSUME TypeOK, ControlOK, [Next]_vars PROVE TypeOK'
  OBVIOUS
<1> USE GovernedAssumption, DocIsADoc DEF TypeOK, ControlOK, Goto, Pcs,
   TryPcs, Stages, evidence, store, records, history
<1>1. ASSUME NEW i \in Invocations, Admit(i) PROVE TypeOK'
  BY <1>1 DEF Admit
<1>2. ASSUME NEW i \in Invocations, RefuseAdmission(i) PROVE TypeOK'
  BY <1>2 DEF RefuseAdmission
<1>3. ASSUME NEW i \in Invocations, PinInputs(i) PROVE TypeOK'
  BY <1>3 DEF PinInputs
<1>4. ASSUME NEW i \in Invocations, Probe(i) PROVE TypeOK'
  BY <1>4 DEF Probe
<1>5. ASSUME NEW i \in Invocations, CreateRecord(i) PROVE TypeOK'
  BY <1>5 DEF CreateRecord, NameTaken
<1>6. ASSUME NEW i \in Invocations, CreateSidecar(i) PROVE TypeOK'
  <2>1. ClaimTypeOK /\ held[i] \in Nat /\ held[i] <= Len(Needed[i])
    BY TypesOfOne DEF ClaimTypeOK
  <2>2. ClaimTypeOK' /\ pc' \in [Invocations -> Pcs]
    <3>1. CASE stage[i] = "prelive"
      <4>1. held' = [held EXCEPT ![i] = held[i]] /\ ClaimOrPayload(i, held[i])
        <5>1. held \in [Invocations -> Nat]
          BY <2>1 DEF ClaimTypeOK
        <5> QED
          BY ONLY <1>6, <3>1, <5>1 DEF CreateSidecar
      <4>2. pc \in [Invocations -> Pcs] /\ stage[i] # "payload"
        BY <3>1
      <4> QED
        BY ONLY <2>1, <3>1, <4>1, <4>2, i \in Invocations, ClaimOrPayloadKeepsType
    <3>2. CASE stage[i] # "prelive"
      BY <1>6, <2>1, <3>2 DEF CreateSidecar, ClaimTypeOK
    <3> QED
      BY <3>1, <3>2
  <2> QED
    BY <1>6, <2>2 DEF CreateSidecar, ClaimTypeOK
<1>7. ASSUME NEW i \in Invocations, OpenBoundary(i) PROVE TypeOK'
  BY <1>7 DEF OpenBoundary, BoundaryTime
<1>8. ASSUME NEW i \in Invocations, Revalidate(i) PROVE TypeOK'
  BY <1>8 DEF Revalidate
<1>9. ASSUME NEW i \in Invocations, SendClaim(i) PROVE TypeOK'
  <2>1. held[i] + 1 \in 1..Len(Needed[i])
    BY <1>9, LenOfNeeded DEF SendClaim
  <2>2. <<i, Needed[i][held[i] + 1]>> \in Invocations \X Approvals
    BY <2>1, NeededIsAnApproval
  <2> QED
    BY <1>9, <2>2 DEF SendClaim
<1>10. ASSUME NEW i \in Invocations, ReceiveReply(i) PROVE TypeOK'
  <2>1. /\ ClaimTypeOK /\ held[i] + 1 \in Nat /\ pc \in [Invocations -> Pcs]
        /\ held[i] + 1 <= Len(Needed[i]) /\ stage[i] \in {"claim", "prelive"}
    <3>1. held[i] \in Nat /\ held[i] < Len(Needed[i])
          /\ stage[i] \in {"claim", "prelive"}
      BY <1>10 DEF ReceiveReply
    <3> QED
      BY <3>1, LenOfNeeded DEF ClaimTypeOK
  <2>2. ClaimTypeOK' /\ pc' \in [Invocations -> Pcs]
    <3>1. CASE stage[i] = "claim" /\ Live[i]
      <4> HIDE DEF TypeOK, ControlOK
      <4>1. /\ stage' = [stage EXCEPT ![i] = "prelive"]
            /\ held' = [held EXCEPT ![i] = held[i] + 1]
            /\ pc' = [pc EXCEPT ![i] = "boundary"]
        BY <1>10, <3>1 DEF ReceiveReply
      <4> QED
        BY <2>1, <4>1 DEF ClaimTypeOK
    <3>2. CASE ~(stage[i] = "claim" /\ Live[i])
      <4>1. /\ held' = [held EXCEPT ![i] = held[i] + 1]
            /\ ClaimOrPayload(i, held[i] + 1)
        BY <1>10, <3>2 DEF ReceiveReply
      <4> QED
        BY <2>1, <4>1, ClaimOrPayloadKeepsType
    <3> QED
      BY <3>1, <3>2
  <2>3. reply' \in [Invocations -> Replies]
    BY <1>10 DEF ReceiveReply, Replies
  <2> QED
    BY <1>10, <2>2, <2>3 DEF ReceiveReply, ClaimTypeOK
<1>11. ASSUME NEW i \in Invocations, StartProcess(i) PROVE TypeOK'
  <2>1. procs \in [Invocations -> Seq(Proc)]
    BY DEF Proc
  <2>2. [phase |-> stage[i], fate |-> "running"] \in Proc
    BY DEF Proc, Fates
  <2>3. Append(procs[i], [phase |-> stage[i], fate |-> "running"]) \in Seq(Proc)
    BY <2>1, <2>2, AppendKeepsType
  <2>4. procs' \in [Invocations -> Seq(Proc)]
    BY <1>11, <2>1, <2>3 DEF StartProcess
  <2> QED
    BY <1>11, <2>4 DEF StartProcess, Proc
<1>12. ASSUME NEW i \in Invocations, ProcessReturns(i) PROVE TypeOK'
  <2>1. PICK outcome \in Outcomes : ProcessReturns(i)!2!(outcome)
    BY <1>12 DEF ProcessReturns
  <2>2. procs' \in [Invocations -> Seq(Proc)]
    <3>1. procs[i] \in Seq(Proc) /\ procs[i] # <<>> /\ outcome \in Fates
      BY <1>12 DEF ProcessReturns, Proc, Fates
    <3>2. WithFate(procs[i], outcome) \in Seq(Proc)
      BY <3>1, WithFateKeepsPhases
    <3>3. procs \in [Invocations -> Seq(Proc)]
      BY DEF Proc
    <3> QED
      BY <2>1, <3>2, <3>3
  <2>3. phases' \in [Invocations -> Seq(Phase)]
    <3>1. [phase |-> stage[i], outcome |-> outcome] \in Phase
      BY DEF Phase
    <3>2. phases \in [Invocations -> Seq(Phase)]
      BY DEF Phase
    <3>3. Append(phases[i], [phase |-> stage[i], outcome |-> outcome])
            \in Seq(Phase)
      BY <3>1, <3>2, AppendKeepsType
    <3> QED
      BY <2>1, <3>2, <3>3
  <2>4. result' \in [Invocations ->
                       Outcomes \cup {"pre_process_contract", "process_start"}]
    <3>1. result \in [Invocations ->
                      Outcomes \cup {"pre_process_contract", "process_start"}]
      OBVIOUS
    <3>2. \/ result' = [result EXCEPT ![i] = outcome]
          \/ result' = result
      BY <2>1
    <3> HIDE DEF TypeOK
    <3> QED
      BY <3>1, <3>2
  <2>5. exitTaint' \in [Invocations -> SUBSET Inputs]
    <3>1. exitTaint \in [Invocations -> SUBSET Inputs]
          /\ tampered[i] \in SUBSET Inputs
      OBVIOUS
    <3>2. \/ exitTaint' = [exitTaint EXCEPT ![i] = tampered[i]]
          \/ exitTaint' = exitTaint
      BY <2>1
    <3> HIDE DEF TypeOK
    <3> QED
      BY <3>1, <3>2
  <2>6. pc' \in [Invocations -> Pcs]
    <3>1. PICK step \in Pcs : pc' = [pc EXCEPT ![i] = step]
      <4>1. AfterProcess(i) \in Pcs /\ "post_claim" \in Pcs
        BY DEF AfterProcess, Pcs
      <4> HIDE DEF TypeOK
      <4> QED
        BY <2>1, <4>1 DEF Unwind, Goto
    <3> QED
      BY <3>1
  <2>7. error' \in [Invocations -> {"none", "contract", "uncaught"}]
    BY <2>1
  <2> QED
    BY <1>12, <2>2, <2>3, <2>4, <2>5, <2>6, <2>7 DEF ProcessReturns, Proc, Phase
<1>13. ASSUME NEW i \in Invocations, ReadBack(i) PROVE TypeOK'
  <2>1. (Len(Needed[i]) > 1) \in BOOLEAN
    OBVIOUS
  <2> QED
    BY <1>13, <2>1 DEF ReadBack
<1>14. ASSUME NEW i \in Invocations, Remeasure(i) PROVE TypeOK'
  BY <1>14 DEF Remeasure, Unwind
<1>15. ASSUME NEW i \in Invocations, RaiseContractError(i) PROVE TypeOK'
  BY <1>15 DEF RaiseContractError, Unwind, Trying
<1>16. ASSUME NEW i \in Invocations, RaiseOSError(i) PROVE TypeOK'
  <2>1. procs' \in [Invocations -> Seq(Proc)]
    BY <1>16, AbandonKeepsType DEF RaiseOSError
  <2>2. phases' \in [Invocations -> Seq(Phase)]
    <3>1. [phase |-> stage[i], outcome |-> "process_start"] \in Phase
      BY DEF Phase
    <3>2. phases \in [Invocations -> Seq(Phase)]
      BY DEF Phase
    <3>3. Append(phases[i], [phase |-> stage[i], outcome |-> "process_start"])
            \in Seq(Phase)
      BY <3>1, <3>2, AppendKeepsType
    <3>4. \/ phases' = phases
          \/ phases' = [phases EXCEPT
                ![i] = Append(phases[i], [phase |-> stage[i], outcome |-> "process_start"])]
      BY <1>16 DEF RaiseOSError
    <3> QED
      BY ONLY <3>2, <3>3, <3>4
  <2>3. sidecar' \in [Journals -> [Docs -> Invocations \cup {Nobody}]]
    <3>1. sidecar \in [Journals -> [Docs -> Invocations \cup {Nobody}]]
          /\ Journal[i] \in Journals
      BY DEF GovernedAssumption
    <3>2. \/ sidecar' = sidecar
          \/ sidecar' = [sidecar EXCEPT ![Journal[i]][Doc(i)] = i]
      BY <1>16 DEF RaiseOSError
    <3>3. Doc(i) \in Docs
      BY DocIsADoc
    <3> HIDE DEF TypeOK
    <3>4. CASE sidecar' = [sidecar EXCEPT ![Journal[i]][Doc(i)] = i]
      <4> HIDE DocIsADoc
      <4> QED
        BY <3>1, <3>3, <3>4
    <3> QED
      BY <3>1, <3>2, <3>4
  <2> QED
    BY <1>16, <2>1, <2>2, <2>3 DEF RaiseOSError, Unwind, Proc, Phase
<1>17. ASSUME NEW i \in Invocations, RaiseUncaught(i) PROVE TypeOK'
  <2>1. procs' \in [Invocations -> Seq(Proc)]
    BY <1>17, AbandonKeepsType DEF RaiseUncaught
  <2> QED
    BY <1>17, <2>1 DEF RaiseUncaught, Unwind, Proc
<1>18. ASSUME NEW i \in Invocations, VerifyAfterwards(i) PROVE TypeOK'
  BY <1>18 DEF VerifyAfterwards, NoteFailure
<1>19. ASSUME NEW i \in Invocations, RemoveTree(i) PROVE TypeOK'
  BY <1>19 DEF RemoveTree, NoteFailure
<1>20. ASSUME NEW i \in Invocations, Conclude(i) PROVE TypeOK'
  <2>1. ExecutionStatus(i) \in Statuses
    BY StatusIsAStatus
  <2>2. CASE error[i] = "uncaught" \/ ~journaled[i]
    BY <1>20, <2>2 DEF Conclude
  <2>3. CASE ~(error[i] = "uncaught" \/ ~journaled[i])
    <3>1. status' \in [Invocations -> Statuses]
      <4>1. status \in [Invocations -> Statuses]
        OBVIOUS
      <4> HIDE DEF TypeOK
      <4> QED
        BY <1>20, <2>1, <2>3, <4>1 DEF Conclude
    <3>2. stage' = [stage EXCEPT ![i] = "report"]
          /\ pc' = [pc EXCEPT ![i] = "write"]
      BY <1>20, <2>3 DEF Conclude
    <3>3. ClaimTypeOK' /\ pc' \in [Invocations -> Pcs]
      <4>1. ClaimTypeOK /\ pc \in [Invocations -> Pcs] /\ held' = held
        BY <1>20 DEF Conclude, ClaimTypeOK
      <4> HIDE DEF TypeOK
      <4> QED
        BY <3>2, <4>1 DEF ClaimTypeOK
    <3> QED
      BY <1>20, <3>1, <3>3 DEF Conclude, ClaimTypeOK
  <2> QED
    BY <2>2, <2>3
<1>21. ASSUME NEW i \in Invocations, ReportFails(i) PROVE TypeOK'
  <2>1. sidecar' \in [Journals -> [Docs -> Invocations \cup {Nobody}]]
    <3>1. sidecar \in [Journals -> [Docs -> Invocations \cup {Nobody}]]
          /\ Journal[i] \in Journals
      BY DEF GovernedAssumption
    <3>2. \/ sidecar' = sidecar
          \/ sidecar' = [sidecar EXCEPT ![Journal[i]][Doc(i)] = i]
      BY <1>21 DEF ReportFails
    <3>3. Doc(i) \in Docs
      BY DocIsADoc
    <3> HIDE DEF TypeOK
    <3>4. CASE sidecar' = [sidecar EXCEPT ![Journal[i]][Doc(i)] = i]
      <4> HIDE DocIsADoc
      <4> QED
        BY <3>1, <3>3, <3>4
    <3> QED
      BY <3>1, <3>2, <3>4
  <2>2. /\ UNCHANGED <<now, primary, requests, claimedBy, claimTime, markers, stage,
                       tree, tampered, observed, reply, held, journaled, listed,
                       error, result, phases, status, procs, base, exitTaint>>
        /\ pc' = [pc EXCEPT ![i] = "ended"]
    BY ONLY <1>21 DEF ReportFails, Goto, store, records, history
  <2>3. pc' \in [Invocations -> Pcs]
    BY <2>2
  <2> QED
    BY ONLY TypeOK, <2>1, <2>2, <2>3, Zenon DEF TypeOK
<1>22. ASSUME NEW i \in Invocations, EscapeTry(i) \/ Kill(i) PROVE TypeOK'
  BY <1>22 DEF EscapeTry, Kill
<1>23. ASSUME NEW i \in Invocations, NEW a \in Approvals, BrokerHandles(i, a)
   PROVE TypeOK'
  <2>1. claimedBy' \in [Approvals -> Invocations \cup {Nobody}]
        /\ claimTime' \in [Approvals -> 0..MaxTime]
    <3>1. claimedBy \in [Approvals -> Invocations \cup {Nobody}]
          /\ claimTime \in [Approvals -> 0..MaxTime] /\ now \in 0..MaxTime
      OBVIOUS
    <3> HIDE DEF TypeOK
    <3> QED
      BY <1>23, <3>1 DEF BrokerHandles
  <2>2. reply' \in [Invocations -> Replies]
    BY <1>23 DEF BrokerHandles, Replies
  <2> QED
    BY <1>23, <2>1, <2>2 DEF BrokerHandles
<1>24. ASSUME NEW i \in Invocations, NEW input \in Inputs, Tamper(i, input)
   PROVE TypeOK'
  BY <1>24 DEF Tamper, GovernedAssumption
<1>25. ASSUME NEW a \in Approvals, Mark(a) PROVE TypeOK'
  BY <1>25 DEF Mark
<1>26. CASE Tick
  <2>1. MaxTime \in Nat
    BY DEF GovernedAssumption
  <2>2. now' \in 0..MaxTime
    BY <1>26, <2>1 DEF Tick
  <2> QED
    BY <1>26, <2>2 DEF Tick
<1>27. CASE UNCHANGED vars
  BY <1>27 DEF vars
<1> QED
  BY <1>1, <1>2, <1>3, <1>4, <1>5, <1>6, <1>7, <1>8, <1>9, <1>10, <1>11,
     <1>12, <1>13, <1>14, <1>15, <1>16, <1>17, <1>18, <1>19, <1>20, <1>21,
     <1>22, <1>23, <1>24, <1>25, <1>26, <1>27 DEF Next, Step

-----------------------------------------------------------------------------
(* Control.                                                                *)

(* Every step keeps to its stage.                                          *)
LEMMA ControlStep == TypeOK /\ ControlOK /\ [Next]_vars => ControlOK'
<1> SUFFICES ASSUME TypeOK, ControlOK, [Next]_vars PROVE ControlOK'
  OBVIOUS
<1> USE DEF ControlOK, Goto, evidence, store, records, history
<1>t. /\ pc \in [Invocations -> Pcs] /\ stage \in [Invocations -> Stages]
      /\ held \in [Invocations -> Nat]
      /\ \A i \in Invocations :
           /\ Len(Needed[i]) \in Nat /\ 0 < Len(Needed[i])
           /\ held[i] <= Len(Needed[i])
           /\ stage[i] = "payload" => held[i] = Len(Needed[i])
  BY LenOfNeeded DEF TypeOK
<1>p. procs \in [Invocations -> Seq(Proc)]
  BY DEF TypeOK, Proc
<1> USE <1>t, <1>p
<1>1. ASSUME NEW i \in Invocations, Admit(i) PROVE ControlOK'
  BY <1>1 DEF Admit
<1>2. ASSUME NEW i \in Invocations, RefuseAdmission(i) PROVE ControlOK'
  BY <1>2 DEF RefuseAdmission
<1>3. ASSUME NEW i \in Invocations, PinInputs(i) PROVE ControlOK'
  BY <1>3 DEF PinInputs
<1>4. ASSUME NEW i \in Invocations, Probe(i) PROVE ControlOK'
  BY <1>4 DEF Probe
<1>5. ASSUME NEW i \in Invocations, CreateRecord(i) PROVE ControlOK'
  BY <1>5 DEF CreateRecord, NameTaken
<1>6. ASSUME NEW i \in Invocations, CreateSidecar(i) PROVE ControlOK'
  BY <1>6 DEF CreateSidecar, ClaimOrPayload, Stages
<1>7. ASSUME NEW i \in Invocations, OpenBoundary(i) PROVE ControlOK'
  BY <1>7 DEF OpenBoundary, BoundaryTime
<1>8. ASSUME NEW i \in Invocations, Revalidate(i) PROVE ControlOK'
  BY <1>8 DEF Revalidate
<1>9. ASSUME NEW i \in Invocations, SendClaim(i) PROVE ControlOK'
  BY <1>9 DEF SendClaim
<1>10. ASSUME NEW i \in Invocations, ReceiveReply(i) PROVE ControlOK'
  BY <1>10 DEF ReceiveReply, ClaimOrPayload, Accepted
<1>11. ASSUME NEW i \in Invocations, StartProcess(i) PROVE ControlOK'
  <2>1. procs'[i] # <<>>
    BY <1>11, AppendKeepsType DEF StartProcess
  <2>2. procs' = [procs EXCEPT ![i] = procs'[i]]
    BY <1>11 DEF StartProcess
  <2> QED
    BY <1>11, <2>1, <2>2 DEF StartProcess
<1>12. ASSUME NEW i \in Invocations, ProcessReturns(i) PROVE ControlOK'
  BY <1>12 DEF ProcessReturns, Unwind, AfterProcess
<1>13. ASSUME NEW i \in Invocations, ReadBack(i) PROVE ControlOK'
  BY <1>13 DEF ReadBack
<1>14. ASSUME NEW i \in Invocations, Remeasure(i) PROVE ControlOK'
  BY <1>14 DEF Remeasure, Unwind
<1>15. ASSUME NEW i \in Invocations, RaiseContractError(i) PROVE ControlOK'
  BY <1>15 DEF RaiseContractError, Unwind, Trying
<1>16. ASSUME NEW i \in Invocations, RaiseOSError(i) PROVE ControlOK'
  BY <1>16, AbandonKeepsHistory DEF RaiseOSError, Unwind, Trying,
     AbandonProcess
<1>17. ASSUME NEW i \in Invocations, RaiseUncaught(i) PROVE ControlOK'
  BY <1>17, AbandonKeepsHistory DEF RaiseUncaught, Unwind, Trying,
     AbandonProcess
<1>18. ASSUME NEW i \in Invocations, VerifyAfterwards(i) PROVE ControlOK'
  BY <1>18 DEF VerifyAfterwards, NoteFailure
<1>19. ASSUME NEW i \in Invocations, RemoveTree(i) PROVE ControlOK'
  BY <1>19 DEF RemoveTree, NoteFailure
<1>20. ASSUME NEW i \in Invocations, Conclude(i) PROVE ControlOK'
  BY <1>20 DEF Conclude
<1>21. ASSUME NEW i \in Invocations, ReportFails(i) PROVE ControlOK'
  BY <1>21 DEF ReportFails
<1>22. ASSUME NEW i \in Invocations, EscapeTry(i) \/ Kill(i) PROVE ControlOK'
  BY <1>22 DEF EscapeTry, Kill
<1>23. ASSUME NEW i \in Invocations, NEW a \in Approvals, BrokerHandles(i, a)
   PROVE ControlOK'
  BY <1>23 DEF BrokerHandles
<1>24. ASSUME NEW i \in Invocations, NEW input \in Inputs, Tamper(i, input)
   PROVE ControlOK'
  BY <1>24 DEF Tamper
<1>25. ASSUME NEW a \in Approvals, Mark(a) PROVE ControlOK'
  BY <1>25 DEF Mark
<1>26. CASE Tick
  BY <1>26 DEF Tick
<1>27. CASE UNCHANGED vars
  BY <1>27 DEF vars
<1> QED
  BY <1>1, <1>2, <1>3, <1>4, <1>5, <1>6, <1>7, <1>8, <1>9, <1>10, <1>11,
     <1>12, <1>13, <1>14, <1>15, <1>16, <1>17, <1>18, <1>19, <1>20, <1>21,
     <1>22, <1>23, <1>24, <1>25, <1>26, <1>27 DEF Next, Step

-----------------------------------------------------------------------------
(* The journal.                                                            *)

(* Nothing is done before its journal is in place, and no journal is lost. *)
LEMMA JournalStep == TypeOK /\ ControlOK /\ JournalOK /\ [Next]_vars => JournalOK'
<1> SUFFICES ASSUME TypeOK, ControlOK, JournalOK, [Next]_vars PROVE
   JournalOK'
  OBVIOUS
<1> USE DEF JournalOK, Goto, evidence, store, records, history
<1>t. /\ pc \in [Invocations -> Pcs] /\ stage \in [Invocations -> Stages]
      /\ journaled \in [Invocations -> BOOLEAN]
      /\ primary \in [Journals -> [Docs -> Invocations \cup {Nobody}]]
      /\ sidecar \in [Journals -> [Docs -> Invocations \cup {Nobody}]]
      /\ claimedBy \in [Approvals -> Invocations \cup {Nobody}]
      /\ \A k \in Invocations : Journal[k] \in Journals
      /\ Nobody \notin Invocations
  BY GovernedAssumption DEF TypeOK, GovernedAssumption
<1>p. procs \in [Invocations -> Seq(Proc)]
  BY DEF TypeOK, Proc
<1> USE <1>t, <1>p
<1>1. ASSUME NEW i \in Invocations, Admit(i) PROVE JournalOK'
  BY <1>1 DEF Admit
<1>2. ASSUME NEW i \in Invocations, RefuseAdmission(i) PROVE JournalOK'
  BY <1>2 DEF RefuseAdmission
<1>3. ASSUME NEW i \in Invocations, PinInputs(i) PROVE JournalOK'
  BY <1>3 DEF PinInputs
<1>4. ASSUME NEW i \in Invocations, Probe(i) PROVE JournalOK'
  BY <1>4 DEF Probe, Stages
<1>5. ASSUME NEW i \in Invocations, CreateRecord(i) PROVE JournalOK'
  BY <1>5 DEF CreateRecord, NameTaken, Doc, Docs
<1>6. ASSUME NEW i \in Invocations, CreateSidecar(i) PROVE JournalOK'
  BY <1>6 DEF CreateSidecar, ClaimOrPayload, NameTaken, Doc, Docs, Stages,
     ControlOK
<1>7. ASSUME NEW i \in Invocations, OpenBoundary(i) PROVE JournalOK'
  BY <1>7 DEF OpenBoundary, BoundaryTime
<1>8. ASSUME NEW i \in Invocations, Revalidate(i) PROVE JournalOK'
  BY <1>8 DEF Revalidate
<1>9. ASSUME NEW i \in Invocations, SendClaim(i) PROVE JournalOK'
  <2>1. journaled[i]
    BY <1>9 DEF SendClaim, ControlOK
  <2> QED
    BY <1>9, <2>1 DEF SendClaim
<1>10. ASSUME NEW i \in Invocations, ReceiveReply(i) PROVE JournalOK'
  <2>1. journaled[i]
    BY <1>10 DEF ReceiveReply, ControlOK
  <2> QED
    BY <1>10, <2>1 DEF ReceiveReply, ClaimOrPayload
<1>11. ASSUME NEW i \in Invocations, StartProcess(i) PROVE JournalOK'
  <2>1. journaled[i]
    BY <1>11 DEF StartProcess, ControlOK
  <2>2. \A k \in Invocations : k # i => procs'[k] = procs[k]
    BY <1>11 DEF StartProcess
  <2> QED
    BY <1>11, <2>1, <2>2 DEF StartProcess
<1>12. ASSUME NEW i \in Invocations, ProcessReturns(i) PROVE JournalOK'
  <2>1. journaled[i]
    BY <1>12 DEF ProcessReturns, ControlOK
  <2>2. \A k \in Invocations : k # i => procs'[k] = procs[k]
    BY <1>12 DEF ProcessReturns
  <2>3. \A k \in Invocations : k # i => pc'[k] = pc[k]
    BY <1>12 DEF ProcessReturns, Unwind
  <2>4. pc'[i] \notin {"sidecar", "probe"}
    BY <1>12 DEF ProcessReturns, Unwind, AfterProcess
  <2> QED
    BY <1>12, <2>1, <2>2, <2>3, <2>4 DEF ProcessReturns
<1>13. ASSUME NEW i \in Invocations, ReadBack(i) PROVE JournalOK'
  BY <1>13 DEF ReadBack
<1>14. ASSUME NEW i \in Invocations, Remeasure(i) PROVE JournalOK'
  BY <1>14 DEF Remeasure, Unwind
<1>15. ASSUME NEW i \in Invocations, RaiseContractError(i) PROVE JournalOK'
  BY <1>15 DEF RaiseContractError, Unwind, Trying
<1>16. ASSUME NEW i \in Invocations, RaiseOSError(i) PROVE JournalOK'
  <2>1. \A k \in Invocations : procs'[k] = <<>> <=> procs[k] = <<>>
    BY <1>16, AbandonKeepsHistory DEF RaiseOSError
  <2>2. \A k \in Invocations :
          sidecar[Journal[k]]["started"] = k => sidecar'[Journal[k]]["started"] = k
    <3>1. CASE sidecar' = sidecar
      BY <3>1
    <3>2. CASE /\ sidecar' = [sidecar EXCEPT ![Journal[i]][Doc(i)] = i]
               /\ sidecar[Journal[i]][Doc(i)] = Nobody
      BY <3>2, DocIsADoc DEF Docs
    <3> QED
      BY <1>16, <3>1, <3>2 DEF RaiseOSError, NameTaken
  <2>3. \A k \in Invocations : k # i => pc'[k] = pc[k]
    BY <1>16 DEF RaiseOSError, Unwind
  <2>4. pc'[i] = "post_claim"
    BY <1>16 DEF RaiseOSError, Unwind
  <2> QED
    BY <1>16, <2>1, <2>2, <2>3, <2>4 DEF RaiseOSError
<1>17. ASSUME NEW i \in Invocations, RaiseUncaught(i) PROVE JournalOK'
  BY <1>17, AbandonKeepsHistory DEF RaiseUncaught, Unwind, Trying,
     AbandonProcess
<1>18. ASSUME NEW i \in Invocations, VerifyAfterwards(i) PROVE JournalOK'
  BY <1>18 DEF VerifyAfterwards, NoteFailure
<1>19. ASSUME NEW i \in Invocations, RemoveTree(i) PROVE JournalOK'
  BY <1>19 DEF RemoveTree, NoteFailure
<1>20. ASSUME NEW i \in Invocations, Conclude(i) PROVE JournalOK'
  BY <1>20 DEF Conclude
<1>21. ASSUME NEW i \in Invocations, ReportFails(i) PROVE JournalOK'
  <2>1. \A k \in Invocations :
          sidecar[Journal[k]]["started"] = k => sidecar'[Journal[k]]["started"] = k
    <3>1. CASE sidecar' = sidecar
      BY <3>1
    <3>2. CASE /\ sidecar' = [sidecar EXCEPT ![Journal[i]][Doc(i)] = i]
               /\ sidecar[Journal[i]][Doc(i)] = Nobody
      BY <3>2, DocIsADoc DEF Docs
    <3> QED
      BY <1>21, <3>1, <3>2 DEF ReportFails, NameTaken
  <2>2. /\ UNCHANGED <<primary, requests, claimedBy, stage, journaled, procs>>
        /\ pc' = [pc EXCEPT ![i] = "ended"]
    BY <1>21 DEF ReportFails
  <2> QED
    BY <2>1, <2>2
<1>22. ASSUME NEW i \in Invocations, EscapeTry(i) \/ Kill(i) PROVE JournalOK'
  BY <1>22 DEF EscapeTry, Kill
<1>23. ASSUME NEW i \in Invocations, NEW a \in Approvals, BrokerHandles(i, a)
   PROVE JournalOK'
  BY <1>23 DEF BrokerHandles
<1>24. ASSUME NEW i \in Invocations, NEW input \in Inputs, Tamper(i, input)
   PROVE JournalOK'
  BY <1>24 DEF Tamper
<1>25. ASSUME NEW a \in Approvals, Mark(a) PROVE JournalOK'
  BY <1>25 DEF Mark
<1>26. CASE Tick
  BY <1>26 DEF Tick
<1>27. CASE UNCHANGED vars
  BY <1>27 DEF vars
<1> QED
  BY <1>1, <1>2, <1>3, <1>4, <1>5, <1>6, <1>7, <1>8, <1>9, <1>10, <1>11,
     <1>12, <1>13, <1>14, <1>15, <1>16, <1>17, <1>18, <1>19, <1>20, <1>21,
     <1>22, <1>23, <1>24, <1>25, <1>26, <1>27 DEF Next, Step

-----------------------------------------------------------------------------
(* The claims.                                                             *)

(* What an invocation holds stays burned for it, and it launches no payload*)
(* before it holds everything.                                             *)
LEMMA ClaimsStep == TypeOK /\ ControlOK /\ ClaimsOK /\ [Next]_vars => ClaimsOK'
<1> SUFFICES ASSUME TypeOK, ControlOK, ClaimsOK, [Next]_vars PROVE ClaimsOK'
  OBVIOUS
<1> USE DEF ClaimsOK, PayloadLaunched, Launched, Goto, evidence,
   store, records, history
<1>t. /\ reply \in [Invocations -> Replies] /\ held \in [Invocations -> Nat]
      /\ claimedBy \in [Approvals -> Invocations \cup {Nobody}]
      /\ \A k \in Invocations :
           /\ Len(Needed[k]) \in Nat /\ held[k] <= Len(Needed[k])
           /\ \A n \in 1..Len(Needed[k]) : Needed[k][n] \in Approvals
      /\ Nobody \notin Invocations
  BY LenOfNeeded, NeededIsAnApproval, GovernedAssumption
     DEF TypeOK, GovernedAssumption
<1>p. procs \in [Invocations -> Seq(Proc)]
  BY DEF TypeOK, Proc
<1> USE <1>t, <1>p
<1>1. ASSUME NEW i \in Invocations, Admit(i) PROVE ClaimsOK'
  BY <1>1 DEF Admit
<1>2. ASSUME NEW i \in Invocations, RefuseAdmission(i) PROVE ClaimsOK'
  BY <1>2 DEF RefuseAdmission
<1>3. ASSUME NEW i \in Invocations, PinInputs(i) PROVE ClaimsOK'
  BY <1>3 DEF PinInputs
<1>4. ASSUME NEW i \in Invocations, Probe(i) PROVE ClaimsOK'
  BY <1>4 DEF Probe
<1>5. ASSUME NEW i \in Invocations, CreateRecord(i) PROVE ClaimsOK'
  BY <1>5 DEF CreateRecord, NameTaken
<1>6. ASSUME NEW i \in Invocations, CreateSidecar(i) PROVE ClaimsOK'
  BY <1>6 DEF CreateSidecar, ClaimOrPayload, NameTaken
<1>7. ASSUME NEW i \in Invocations, OpenBoundary(i) PROVE ClaimsOK'
  BY <1>7 DEF OpenBoundary, BoundaryTime
<1>8. ASSUME NEW i \in Invocations, Revalidate(i) PROVE ClaimsOK'
  BY <1>8 DEF Revalidate
<1>9. ASSUME NEW i \in Invocations, SendClaim(i) PROVE ClaimsOK'
  BY <1>9 DEF SendClaim
<1>10. ASSUME NEW i \in Invocations, ReceiveReply(i) PROVE ClaimsOK'
  <2>1. held[i] < Len(Needed[i]) /\ held' = [held EXCEPT ![i] = held[i] + 1]
    BY <1>10 DEF ReceiveReply, ControlOK
  <2>2. claimedBy[Needed[i][held[i] + 1]] = i
    BY <1>10 DEF ReceiveReply, Accepted, Replies
  <2>3. reply' = [reply EXCEPT ![i] = "none"] /\ UNCHANGED <<claimedBy, procs>>
    BY <1>10 DEF ReceiveReply
  <2>4. \A n \in 1..(held[i] + 1) : claimedBy[Needed[i][n]] = i
    BY <2>1, <2>2
  <2> QED
    BY <2>1, <2>3, <2>4
<1>11. ASSUME NEW i \in Invocations, StartProcess(i) PROVE ClaimsOK'
  <2>1. \A k \in Invocations : k # i => procs'[k] = procs[k]
    BY <1>11 DEF StartProcess
  <2>2. PayloadLaunched(i)' => held[i] = Len(Needed[i])
    <3>1. CASE stage[i] = "payload"
      BY <3>1 DEF TypeOK
    <3>2. CASE stage[i] # "payload"
      <4>1. [phase |-> stage[i], fate |-> "running"] \in Proc
        BY DEF TypeOK, Proc, Fates
      <4>2. procs'[i] = Append(procs[i], [phase |-> stage[i], fate |-> "running"])
        BY <1>11 DEF StartProcess
      <4> QED
        BY <3>2, <4>1, <4>2, AppendKeepsType
    <3> QED
      BY <3>1, <3>2
  <2> QED
    BY <1>11, <2>1, <2>2 DEF StartProcess
<1>12. ASSUME NEW i \in Invocations, ProcessReturns(i) PROVE ClaimsOK'
  <2>1. PICK outcome \in Outcomes :
          procs' = [procs EXCEPT ![i] = WithFate(procs[i], outcome)]
    BY <1>12 DEF ProcessReturns
  <2>2. procs[i] # <<>> /\ outcome \in Fates
    BY <1>12 DEF ProcessReturns, ControlOK, Fates
  <2>3. PayloadLaunched(i)' => PayloadLaunched(i)
    BY <2>1, <2>2, WithFateKeepsPhases
  <2>4. \A k \in Invocations : k # i => procs'[k] = procs[k]
    BY <2>1
  <2>5. UNCHANGED <<held, reply, claimedBy>>
    BY <1>12 DEF ProcessReturns
  <2>6. \A k \in Invocations : PayloadLaunched(k)' => PayloadLaunched(k)
    BY <2>3, <2>4
  <2> QED
    BY <2>3, <2>5, <2>6
<1>13. ASSUME NEW i \in Invocations, ReadBack(i) PROVE ClaimsOK'
  BY <1>13 DEF ReadBack
<1>14. ASSUME NEW i \in Invocations, Remeasure(i) PROVE ClaimsOK'
  BY <1>14 DEF Remeasure, Unwind
<1>15. ASSUME NEW i \in Invocations, RaiseContractError(i) PROVE ClaimsOK'
  BY <1>15 DEF RaiseContractError, Unwind, Trying
<1>16. ASSUME NEW i \in Invocations, RaiseOSError(i) PROVE ClaimsOK'
  <2>1. \A k \in Invocations : PayloadLaunched(k)' => PayloadLaunched(k)
    BY <1>16, AbandonKeepsHistory DEF RaiseOSError
  <2> QED
    BY <1>16, <2>1 DEF RaiseOSError
<1>17. ASSUME NEW i \in Invocations, RaiseUncaught(i) PROVE ClaimsOK'
  <2>1. \A k \in Invocations : PayloadLaunched(k)' => PayloadLaunched(k)
    BY <1>17, AbandonKeepsHistory DEF RaiseUncaught
  <2> QED
    BY <1>17, <2>1 DEF RaiseUncaught
<1>18. ASSUME NEW i \in Invocations, VerifyAfterwards(i) PROVE ClaimsOK'
  BY <1>18 DEF VerifyAfterwards, NoteFailure
<1>19. ASSUME NEW i \in Invocations, RemoveTree(i) PROVE ClaimsOK'
  BY <1>19 DEF RemoveTree, NoteFailure
<1>20. ASSUME NEW i \in Invocations, Conclude(i) PROVE ClaimsOK'
  BY <1>20 DEF Conclude
<1>21. ASSUME NEW i \in Invocations, ReportFails(i) PROVE ClaimsOK'
  BY <1>21 DEF ReportFails
<1>22. ASSUME NEW i \in Invocations, EscapeTry(i) \/ Kill(i) PROVE ClaimsOK'
  BY <1>22 DEF EscapeTry, Kill
<1>23. ASSUME NEW i \in Invocations, NEW a \in Approvals, BrokerHandles(i, a)
   PROVE ClaimsOK'
  <2>1. \A k \in Invocations, b \in Approvals :
          claimedBy[b] = k => claimedBy'[b] = k
    BY <1>23 DEF BrokerHandles, Burned
  <2>2. reply'[i] = "CLAIMED" =>
          /\ held[i] < Len(Needed[i])
          /\ claimedBy'[Needed[i][held[i] + 1]] = i
    <3>1. CASE pc[i] = "reply" /\ Needed[i][held[i] + 1] = a
      BY <1>23, <3>1 DEF BrokerHandles, Burned, ControlOK
    <3>2. CASE ~(pc[i] = "reply" /\ Needed[i][held[i] + 1] = a)
      BY <1>23, <2>1, <3>2 DEF BrokerHandles
    <3> QED
      BY <3>1, <3>2
  <2>3. \A k \in Invocations : k # i => reply'[k] = reply[k]
    BY <1>23 DEF BrokerHandles
  <2>4. UNCHANGED <<held, procs>>
    BY <1>23 DEF BrokerHandles
  <2>5. ASSUME NEW k \in Invocations
        PROVE  /\ \A n \in 1..held[k] : claimedBy'[Needed[k][n]] = k
               /\ reply'[k] = "CLAIMED" =>
                    /\ held[k] < Len(Needed[k])
                    /\ claimedBy'[Needed[k][held[k] + 1]] = k
    <3>1. \A n \in 1..held[k] : Needed[k][n] \in Approvals
      OBVIOUS
    <3>2. held[k] < Len(Needed[k]) => Needed[k][held[k] + 1] \in Approvals
      OBVIOUS
    <3> QED
      BY <2>1, <2>2, <2>3, <3>1, <3>2
  <2>6. \A k \in Invocations : PayloadLaunched(k)' = PayloadLaunched(k)
    BY <2>4
  <2> QED
    BY <2>4, <2>5, <2>6
<1>24. ASSUME NEW i \in Invocations, NEW input \in Inputs, Tamper(i, input)
   PROVE ClaimsOK'
  BY <1>24 DEF Tamper
<1>25. ASSUME NEW a \in Approvals, Mark(a) PROVE ClaimsOK'
  BY <1>25 DEF Mark
<1>26. CASE Tick
  BY <1>26 DEF Tick
<1>27. CASE UNCHANGED vars
  BY <1>27 DEF vars
<1> QED
  BY <1>1, <1>2, <1>3, <1>4, <1>5, <1>6, <1>7, <1>8, <1>9, <1>10, <1>11,
     <1>12, <1>13, <1>14, <1>15, <1>16, <1>17, <1>18, <1>19, <1>20, <1>21,
     <1>22, <1>23, <1>24, <1>25, <1>26, <1>27 DEF Next, Step

-----------------------------------------------------------------------------
(* The theorems.                                                           *)

LEMMA InitIsTyped == Init => IInv
<1> SUFFICES ASSUME Init PROVE IInv
  OBVIOUS
<1>1. TypeOK
  <2>1. MaxTime \in Nat
    BY GovernedAssumption DEF GovernedAssumption
  <2>2. 0 \in 0..MaxTime
    BY <2>1
  <2>3. ASSUME NEW i \in Invocations PROVE 0 <= Len(Needed[i])
    BY LenOfNeeded
  <2> QED
    BY <2>2, <2>3
       DEF Init, TypeOK, Pcs, Stages, Replies, Outcomes, Statuses
<1>2. ControlOK
  BY DEF Init, ControlOK
<1>3. JournalOK
  BY GovernedAssumption DEF Init, JournalOK, GovernedAssumption
<1>4. ClaimsOK
  <2>1. \A i \in Invocations :
          held[i] = 0 /\ reply[i] = "none" /\ procs[i] = <<>>
    BY DEF Init
  <2>2. ASSUME NEW i \in Invocations PROVE ~PayloadLaunched(i)
    <3>1. 1..Len(procs[i]) = {}
      BY <2>1
    <3> QED
      BY <3>1 DEF PayloadLaunched, Launched
  <2>3. ASSUME NEW i \in Invocations
        PROVE  \A n \in 1..held[i] : claimedBy[Needed[i][n]] = i
    <3>1. 1..held[i] = {}
      BY <2>1
    <3> QED
      BY <3>1
  <2> QED
    BY <2>1, <2>2, <2>3 DEF ClaimsOK
<1> QED
  BY <1>1, <1>2, <1>3, <1>4 DEF IInv

(* IInv holds in every state of every behaviour.                           *)
THEOREM Invariance == Spec => []IInv
<1>1. Init => IInv
  BY InitIsTyped
<1>2. IInv /\ [Next]_vars => IInv'
  BY TypeStep, ControlStep, JournalStep, ClaimsStep DEF IInv
<1> QED
  BY <1>1, <1>2, PTL DEF Spec

(* The variables keep their types; with them, no invocation ever holds     *)
(* more approvals than it needs or reaches its payload with fewer.         *)
THEOREM TypeCorrect == Spec => []TypeOK
<1>1. IInv => TypeOK
  BY DEF IInv
<1> QED
  BY <1>1, Invariance, PTL

(* However many invocations race for an approval, at most one of them ever *)
(* starts a payload under it: whoever has launched holds the approval, and *)
(* the store names one owner.                                              *)
THEOREM ApprovalsAreSingleUse == Spec => []OnePayloadPerApproval
<1>1. IInv => OnePayloadPerApproval
  <2> SUFFICES ASSUME IInv, NEW i \in Invocations, NEW j \in Invocations,
                      PayloadLaunched(i), PayloadLaunched(j),
                      NEW a \in NeededSet(i) \cap NeededSet(j)
               PROVE  i = j
    BY DEF OnePayloadPerApproval
  <2>1. PICK m \in 1..Len(Needed[i]) : a = Needed[i][m]
    BY DEF NeededSet
  <2>2. PICK n \in 1..Len(Needed[j]) : a = Needed[j][n]
    BY DEF NeededSet
  <2>3. claimedBy[a] = i
    BY <2>1 DEF IInv, ClaimsOK
  <2>4. claimedBy[a] = j
    BY <2>2 DEF IInv, ClaimsOK
  <2> QED
    BY <2>3, <2>4
<1> QED
  BY <1>1, Invariance, PTL

(* No approval is requested or burned and no process exists for an         *)
(* invocation whose started journal and sidecar are not in place.          *)
THEOREM ConsumptionIsAlwaysJournaled == Spec => []ConsumptionIsJournaled
<1>1. IInv => ConsumptionIsJournaled
  BY DEF IInv, JournalOK, ConsumptionIsJournaled
<1> QED
  BY <1>1, Invariance, PTL

(* A step that writes a file finds its name free: write_new_json opens     *)
(* with O_EXCL, and nothing else touches the evidence.                     *)
LEMMA EvidenceStep == TypeOK /\ [Next]_vars => [EvidenceKept]_evidence
<1> SUFFICES ASSUME TypeOK, [Next]_vars PROVE [EvidenceKept]_evidence
  OBVIOUS
<1> USE DEF store, records, history, Goto
<1>t. /\ primary \in [Journals -> [Docs -> Invocations \cup {Nobody}]]
      /\ sidecar \in [Journals -> [Docs -> Invocations \cup {Nobody}]]
      /\ \A i \in Invocations : Journal[i] \in Journals
  BY GovernedAssumption DEF TypeOK, GovernedAssumption
<1>1. ASSUME NEW i \in Invocations, CreateRecord(i) PROVE EvidenceKept
  BY <1>1, <1>t, DocIsADoc DEF CreateRecord, NameTaken, EvidenceKept
<1>2. ASSUME NEW i \in Invocations, CreateSidecar(i) PROVE EvidenceKept
  BY <1>2, <1>t, DocIsADoc DEF CreateSidecar, NameTaken, EvidenceKept
<1>3. ASSUME NEW i \in Invocations, RaiseOSError(i) \/ ReportFails(i) PROVE EvidenceKept
  <2>1. UNCHANGED primary
    BY <1>3 DEF RaiseOSError, ReportFails
  <2>2. CASE sidecar' = sidecar
    BY <2>1, <2>2 DEF EvidenceKept
  <2>3. CASE /\ sidecar' = [sidecar EXCEPT ![Journal[i]][Doc(i)] = i]
             /\ sidecar[Journal[i]][Doc(i)] = Nobody
    BY <1>t, <2>1, <2>3, DocIsADoc DEF EvidenceKept
  <2> QED
    BY <1>3, <2>2, <2>3 DEF RaiseOSError, ReportFails, NameTaken
<1>4. ASSUME NEW i \in Invocations,
             \/ Admit(i) \/ RefuseAdmission(i) \/ EscapeTry(i) \/ Kill(i)
             \/ PinInputs(i) \/ Probe(i) \/ OpenBoundary(i) \/ Revalidate(i)
             \/ SendClaim(i) \/ ReceiveReply(i)
             \/ StartProcess(i) \/ ProcessReturns(i)
             \/ ReadBack(i) \/ Remeasure(i)
             \/ RaiseContractError(i) \/ RaiseUncaught(i)
             \/ VerifyAfterwards(i) \/ RemoveTree(i) \/ Conclude(i)
      PROVE  UNCHANGED evidence
  BY <1>4 DEF Admit, RefuseAdmission, EscapeTry, Kill, PinInputs, Probe, OpenBoundary,
     Revalidate, SendClaim, ReceiveReply, StartProcess, ProcessReturns,
     ReadBack, Remeasure, RaiseContractError, RaiseUncaught,
     VerifyAfterwards, RemoveTree, Conclude, evidence
<1>5. ASSUME NEW i \in Invocations, NEW a \in Approvals, BrokerHandles(i, a)
      PROVE  UNCHANGED evidence
  BY <1>5 DEF BrokerHandles, evidence
<1>6. ASSUME NEW i \in Invocations, NEW input \in Inputs, Tamper(i, input)
      PROVE  UNCHANGED evidence
  BY <1>6 DEF Tamper, evidence
<1>7. ASSUME NEW a \in Approvals, Mark(a) PROVE UNCHANGED evidence
  BY <1>7 DEF Mark, evidence
<1>8. CASE Tick
  BY <1>8 DEF Tick, evidence
<1>9. CASE UNCHANGED vars
  BY <1>9 DEF vars, evidence
<1> QED
  BY <1>1, <1>2, <1>3, <1>4, <1>5, <1>6, <1>7, <1>8, <1>9 DEF Next, Step

(* Records of earlier attempts stay as they are, whatever happens to the   *)
(* attempts that follow.                                                   *)
THEOREM EvidenceIsNeverReplaced == Spec => EvidenceIsAppendOnly
<1>1. TypeOK /\ [Next]_vars => [EvidenceKept]_evidence
  BY EvidenceStep
<1> QED
  BY <1>1, TypeCorrect, PTL DEF Spec, EvidenceIsAppendOnly

-----------------------------------------------------------------------------
(* The history of one invocation.                                          *)


(* The processes that come before the payload, all of them completed.      *)
Before(i) == IF Live[i] THEN <<[phase |-> "prelive", fate |-> "ok"]>> ELSE <<>>

(* The payload was created after them and met this fate.                   *)
Ran(i, fate) == procs[i] = Append(Before(i), [phase |-> "payload", fate |-> fate])

Projected(i) ==
  Live[i] => /\ primary[Journal[i]]["prelive"] = i
             /\ sidecar[Journal[i]]["prelive"] = i

(* Which processes exist at which step.                                    *)
ProcsOK(i) ==
  /\ PayloadLaunched(i) =>
       /\ stage[i] \in {"payload", "report"} /\ Projected(i)
       /\ \E fate \in Fates : Ran(i, fate)
  /\ stage[i] \in {"journal", "claim"} => procs[i] = <<>>
  /\ stage[i] = "prelive" =>
       /\ Live[i]
       /\ pc[i] \in {"boundary", "revalidate", "start"} => procs[i] = <<>>
       /\ pc[i] = "running" => procs[i] = <<[phase |-> "prelive", fate |-> "running"]>>
       /\ pc[i] \in {"write", "sidecar", "claim", "reply"} => procs[i] = Before(i)
       /\ pc[i] = "sidecar" => primary[Journal[i]]["prelive"] = i
       /\ pc[i] \in {"claim", "reply"} => Projected(i)
  /\ stage[i] = "payload" =>
       /\ Projected(i)
       /\ pc[i] \in {"boundary", "revalidate", "start"} => procs[i] = Before(i)
       /\ pc[i] = "running" => Ran(i, "running")
       /\ pc[i] \in {"write", "sidecar", "read_back", "remeasure"} => Ran(i, "ok")

(* What the last boundary before the payload has established.              *)
Judged(i) ==
  /\ base[i] \cap {"trust", "snapshots", "ssh", "attestation", "extra_vars"} = {}
  /\ WithinAuthorization(i, observed[i])
  /\ \A a \in NeededSet(i) : Current(a, observed[i]) /\ claimTime[a] <= observed[i]

BoundaryOK(i) ==
  /\ base[i] \subseteq tampered[i] /\ exitTaint[i] \subseteq tampered[i]
  /\ pc[i] = "revalidate" =>
       /\ "trust" \notin base[i] /\ WithinAuthorization(i, observed[i])
       /\ stage[i] = "payload" => \A a \in NeededSet(i) : claimTime[a] <= observed[i]
  /\ pc[i] = "start" /\ stage[i] = "payload" => Judged(i)
  /\ PayloadLaunched(i) => Judged(i)

(* The payload and all checks after it went well.                          *)
Passed(i) ==
  /\ Ran(i, "ok")
  /\ exitTaint[i] \cap FinalInputs = {}
  /\ Artifact[i] => sidecar[Journal[i]]["artifact"] = i
  /\ listed[i] = (Len(Needed[i]) > 1)

(* What leads to the final record and what it says.                        *)
ReportOK(i) ==
  /\ primary[Journal[i]]["result"] = i =>
       stage[i] = "report" /\ pc[i] \in {"sidecar", "ended", "escaped", "killed"}
  /\ sidecar[Journal[i]]["result"] = i =>
       stage[i] = "report" /\ pc[i] \in {"ended", "escaped", "killed"}
  /\ stage[i] = "report" => error[i] # "uncaught" /\ status[i] = ExecutionStatus(i)
  /\ stage[i] # "report" => status[i] = "none"
  /\ result[i] = "ok" => PayloadLaunched(i)
  /\ pc[i] \in {"read_back", "remeasure"} /\ Artifact[i] =>
       sidecar[Journal[i]]["artifact"] = i
  /\ pc[i] = "remeasure" => listed[i] = (Len(Needed[i]) > 1)
  /\ \/ pc[i] \in {"post_claim", "cleanup", "conclude"}
     \/ stage[i] = "report"
     => (error[i] = "none" => Passed(i))

(* The phases of a record agree with the processes of the history.         *)
Agree(past, told) ==
  /\ Len(past) <= Len(told)
  /\ \A m, n \in 1..Len(told) : told[m].phase = told[n].phase => m = n
  /\ \A n \in 1..Len(told) :
       IF told[n].outcome = "process_start"
       THEN /\ n = Len(told)
            /\ n <= Len(past) => past[n] = [phase |-> told[n].phase, fate |-> "abandoned"]
       ELSE /\ n <= Len(past)
            /\ past[n] = [phase |-> told[n].phase, fate |-> told[n].outcome]

ToldBefore(i) == IF Live[i] THEN <<[phase |-> "prelive", outcome |-> "ok"]>> ELSE <<>>

(* What the phases list holds at which step.                               *)
PhasesOK(i) ==
  /\ stage[i] \in {"journal", "claim"} /\ pc[i] \in TryPcs \cup {"idle"} => phases[i] = <<>>
  /\ stage[i] = "prelive" =>
       /\ pc[i] \in {"boundary", "revalidate", "start", "running"} => phases[i] = <<>>
       /\ pc[i] \in {"write", "sidecar", "claim", "reply"} => phases[i] = ToldBefore(i)
  /\ stage[i] = "payload" =>
       /\ pc[i] \in {"boundary", "revalidate", "start", "running"} => phases[i] = ToldBefore(i)
       /\ pc[i] \in {"write", "sidecar", "read_back", "remeasure"} =>
            phases[i] = Append(ToldBefore(i), [phase |-> "payload", outcome |-> "ok"])
  /\ pc[i] \in {"post_claim", "cleanup", "conclude"} \/ stage[i] = "report" =>
       error[i] = "uncaught" \/ Agree(procs[i], phases[i])

RequestsOK(i) == \A a \in Approvals : <<i, a>> \in requests => a \in NeededSet(i)

HistoryOK(i) ==
  ProcsOK(i) /\ BoundaryOK(i) /\ ReportOK(i) /\ PhasesOK(i) /\ RequestsOK(i)

(* The broker's clock is not ahead of the wall clock.                      *)
ClockOK == \A a \in Approvals : claimTime[a] <= now

HInv == IInv /\ ClockOK /\ \A i \in Invocations : HistoryOK(i)

-----------------------------------------------------------------------------
(* What a step leaves alone.                                               *)

(* The state of invocation i itself stays as it is.                        *)
Alone(i) ==
  /\ pc'[i] = pc[i] /\ stage'[i] = stage[i] /\ tree'[i] = tree[i]
  /\ tampered'[i] = tampered[i] /\ observed'[i] = observed[i] /\ held'[i] = held[i]
  /\ listed'[i] = listed[i] /\ error'[i] = error[i] /\ result'[i] = result[i]
  /\ phases'[i] = phases[i] /\ status'[i] = status[i] /\ procs'[i] = procs[i]
  /\ base'[i] = base[i] /\ exitTaint'[i] = exitTaint[i]

(* Steps of one invocation, those of the broker for it left out.           *)
Own(i) ==
  \/ Admit(i) \/ RefuseAdmission(i) \/ Step(i) \/ RaiseUncaught(i) \/ EscapeTry(i) \/ Kill(i)
  \/ \E input \in Inputs : Tamper(i, input)

LEMMA OthersLeaveAlone ==
  ASSUME TypeOK, NEW i \in Invocations, NEW k \in Invocations, k # i, Own(k)
  PROVE  Alone(i)
<1> USE DEF TypeOK, Alone, Goto, records, history, Unwind
<1>1. CASE Admit(k) \/ RefuseAdmission(k) \/ PinInputs(k) \/ Probe(k) \/ CreateRecord(k)
  BY <1>1 DEF Admit, RefuseAdmission, PinInputs, Probe, CreateRecord
<1>2. CASE CreateSidecar(k)
  BY <1>2 DEF CreateSidecar, ClaimOrPayload
<1>3. CASE OpenBoundary(k) \/ Revalidate(k) \/ SendClaim(k)
  BY <1>3 DEF OpenBoundary, Revalidate, SendClaim
<1>4. CASE ReceiveReply(k)
  BY <1>4 DEF ReceiveReply, ClaimOrPayload
<1>5. CASE StartProcess(k)
  BY <1>5 DEF StartProcess
<1>6. CASE ProcessReturns(k)
  BY <1>6 DEF ProcessReturns
<1>7. CASE ReadBack(k) \/ Remeasure(k) \/ RaiseContractError(k)
  BY <1>7 DEF ReadBack, Remeasure, RaiseContractError
<1>8. CASE RaiseOSError(k) \/ RaiseUncaught(k)
  BY <1>8 DEF RaiseOSError, RaiseUncaught, AbandonProcess
<1>9. CASE VerifyAfterwards(k) \/ RemoveTree(k)
  BY <1>9 DEF VerifyAfterwards, RemoveTree, NoteFailure
<1>10. CASE Conclude(k)
  BY <1>10 DEF Conclude
<1>11. CASE ReportFails(k) \/ EscapeTry(k) \/ Kill(k) \/ \E input \in Inputs : Tamper(k, input)
  BY <1>11 DEF ReportFails, EscapeTry, Kill, Tamper
<1> QED
  BY <1>1, <1>2, <1>3, <1>4, <1>5, <1>6, <1>7, <1>8, <1>9, <1>10, <1>11 DEF Own, Step

(* Every step is one of the invocation itself or leaves it alone.          *)
LEMMA Locality ==
  ASSUME TypeOK, [Next]_vars, NEW i \in Invocations
  PROVE  Own(i) \/ Alone(i)
<1>1. ASSUME NEW k \in Invocations, NEW a \in Approvals, BrokerHandles(k, a)
      PROVE  Alone(i)
  BY <1>1 DEF BrokerHandles, Alone, records, history
<1>2. ASSUME NEW a \in Approvals, Mark(a) PROVE Alone(i)
  BY <1>2 DEF Mark, Alone, records, history
<1>3. CASE Tick
  BY <1>3 DEF Tick, Alone, records, history
<1>4. CASE UNCHANGED vars
  BY <1>4 DEF vars, Alone, records, history
<1>5. ASSUME NEW k \in Invocations, Own(k) PROVE Own(i) \/ Alone(i)
  BY <1>5, OthersLeaveAlone
<1> QED
  BY <1>1, <1>2, <1>3, <1>4, <1>5 DEF Next, Own

(* What is shared only grows: a record or a burned approval stays.         *)
LEMMA SharedIsKept ==
  ASSUME TypeOK, [Next]_vars, NEW i \in Invocations
  PROVE  /\ \A d \in Docs : primary[Journal[i]][d] = i => primary'[Journal[i]][d] = i
         /\ \A d \in Docs : sidecar[Journal[i]][d] = i => sidecar'[Journal[i]][d] = i
         /\ \A a \in Approvals : claimedBy[a] = i =>
              claimedBy'[a] = i /\ claimTime'[a] = claimTime[a]
<1>1. Journal[i] \in Journals /\ i # Nobody
  BY GovernedAssumption DEF GovernedAssumption
<1>2. EvidenceKept
  BY EvidenceStep DEF EvidenceKept, evidence
<1>3. ASSUME NEW a \in Approvals, claimedBy[a] = i
      PROVE  claimedBy'[a] = i /\ claimTime'[a] = claimTime[a]
  <2>1. ASSUME NEW k \in Invocations, NEW b \in Approvals, BrokerHandles(k, b)
        PROVE  claimedBy'[a] = i /\ claimTime'[a] = claimTime[a]
    BY <1>1, <1>3, <2>1 DEF BrokerHandles, Burned, TypeOK
  <2>2. CASE UNCHANGED <<claimedBy, claimTime>>
    BY <1>3, <2>2
  <2>3. ASSUME NEW k \in Invocations, Own(k) PROVE UNCHANGED <<claimedBy, claimTime>>
    BY <2>3 DEF Own, Step, Admit, RefuseAdmission, PinInputs, CreateRecord,
       CreateSidecar, Probe, OpenBoundary, Revalidate, SendClaim, ReceiveReply,
       StartProcess, ProcessReturns, ReadBack, Remeasure, RaiseContractError,
       RaiseOSError, VerifyAfterwards, RemoveTree, Conclude, ReportFails,
       RaiseUncaught, EscapeTry, Kill, Tamper, store
  <2>4. CASE Tick \/ UNCHANGED vars \/ \E b \in Approvals : Mark(b)
    BY <1>3, <2>4 DEF Tick, Mark, vars, store
  <2> QED
    BY <2>1, <2>2, <2>3, <2>4 DEF Next, Own
<1> QED
  BY <1>1, <1>2, <1>3 DEF EvidenceKept

-----------------------------------------------------------------------------
(* Which processes exist.                                                  *)

(* The histories that occur, and how they grow.                            *)
LEMMA Histories ==
  ASSUME NEW i \in Invocations
  PROVE  /\ procs[i] = <<>> => ~PayloadLaunched(i)
         /\ procs[i] = Before(i) => ~PayloadLaunched(i)
         /\ \A fate : procs[i] = <<[phase |-> "prelive", fate |-> fate]>> =>
              ~PayloadLaunched(i)
         /\ \A fate : Ran(i, fate) => PayloadLaunched(i)
<1>1. \A fate : Append(Before(i), [phase |-> "payload", fate |-> fate])
                   [Len(Append(Before(i), [phase |-> "payload", fate |-> fate]))].phase = "payload"
  BY DEF Before
<1>2. \A fate : Ran(i, fate) => Len(procs[i]) \in 1..Len(procs[i])
                              /\ procs[i][Len(procs[i])].phase = "payload"
  BY DEF Ran, Before
<1> QED
  BY <1>2 DEF PayloadLaunched, Launched, Before

LEMMA HistoriesNext ==
  ASSUME NEW i \in Invocations, NEW fate, procs'[i] = <<[phase |-> "prelive", fate |-> fate]>>
  PROVE  ~PayloadLaunched(i)'
  BY DEF PayloadLaunched, Launched

LEMMA RanNext ==
  ASSUME NEW i \in Invocations, NEW fate, Ran(i, fate)'
  PROVE  PayloadLaunched(i)'
<1>1. Len(procs'[i]) \in 1..Len(procs'[i]) /\ procs'[i][Len(procs'[i])].phase = "payload"
  BY DEF Ran, Before
<1> QED
  BY <1>1 DEF PayloadLaunched, Launched

LEMMA ShortSequences ==
  ASSUME NEW x, NEW y
  PROVE  Append(<<>>, y) = <<y>> /\ Append(<<x>>, y) = <<x, y>>
<1>1. /\ <<>> \in Seq({x, y}) /\ <<x>> \in Seq({x, y}) /\ y \in {x, y}
      /\ <<y>> \in Seq({x, y}) /\ <<x, y>> \in Seq({x, y})
      /\ Len(<<>>) = 0 /\ Len(<<x>>) = 1 /\ Len(<<y>>) = 1 /\ Len(<<x, y>>) = 2
      /\ <<x>>[1] = x /\ <<y>>[1] = y /\ <<x, y>>[1] = x /\ <<x, y>>[2] = y
  OBVIOUS
<1>2. /\ Append(<<>>, y) \in Seq({x, y}) /\ Len(Append(<<>>, y)) = 1
      /\ Append(<<>>, y)[1] = y
  BY <1>1, AppendProperties
<1>3. /\ Append(<<x>>, y) \in Seq({x, y}) /\ Len(Append(<<x>>, y)) = 2
      /\ Append(<<x>>, y)[1] = x /\ Append(<<x>>, y)[2] = y
  BY <1>1, AppendProperties
<1>4. Append(<<>>, y) = <<y>>
  BY <1>1, <1>2, SeqEqual
<1>5. Append(<<x>>, y) = <<x, y>>
  <2>1. \A k \in 1..2 : Append(<<x>>, y)[k] = <<x, y>>[k]
    BY <1>1, <1>3
  <2> QED
    BY <1>1, <1>3, <2>1, SeqEqual
<1> QED
  BY <1>4, <1>5

LEMMA FateOfFirst ==
  ASSUME NEW y, NEW new
  PROVE  WithFate(<<y>>, new) = <<[y EXCEPT !.fate = new]>>
<1>1. Len(<<y>>) = 1 /\ <<y>>[1] = y
  OBVIOUS
<1>2. \A z : [<<y>> EXCEPT ![1] = z] = <<z>>
  OBVIOUS
<1> QED
  BY <1>1, <1>2, Zenon DEF WithFate

LEMMA FateOfSecond ==
  ASSUME NEW x, NEW y, NEW new
  PROVE  WithFate(<<x, y>>, new) = <<x, [y EXCEPT !.fate = new]>>
<1>1. Len(<<x, y>>) = 2 /\ <<x, y>>[2] = y
  OBVIOUS
<1>2. \A z : [<<x, y>> EXCEPT ![2] = z] = <<x, z>>
  OBVIOUS
<1> QED
  BY <1>1, <1>2, Zenon DEF WithFate

LEMMA FatesOfHistories ==
  ASSUME NEW i \in Invocations, NEW fate, NEW new
  PROVE  /\ WithFate(<<[phase |-> "prelive", fate |-> fate]>>, new) =
              <<[phase |-> "prelive", fate |-> new]>>
         /\ WithFate(Append(Before(i), [phase |-> "payload", fate |-> fate]), new) =
              Append(Before(i), [phase |-> "payload", fate |-> new])
<1> DEFINE Entry(p, f) == [phase |-> p, fate |-> f]
<1>1. \A p : [Entry(p, fate) EXCEPT !.fate = new] = Entry(p, new)
  OBVIOUS
<1>2. /\ Live[i] => Before(i) = <<Entry("prelive", "ok")>>
      /\ ~Live[i] => Before(i) = <<>>
  BY DEF Before
<1> HIDE DEF Entry
<1>3. WithFate(<<Entry("prelive", fate)>>, new) = <<Entry("prelive", new)>>
  BY <1>1, FateOfFirst
<1>4. WithFate(Append(Before(i), Entry("payload", fate)), new) =
        Append(Before(i), Entry("payload", new))
  <2>1. CASE Live[i]
    <3>1. \A f : Append(Before(i), Entry("payload", f)) = <<Entry("prelive", "ok"), Entry("payload", f)>>
      BY <1>2, <2>1, ShortSequences
    <3>2. WithFate(<<Entry("prelive", "ok"), Entry("payload", fate)>>, new) =
            <<Entry("prelive", "ok"), Entry("payload", new)>>
      <4>1. ASSUME NEW x, NEW y, y = Entry("payload", fate)
            PROVE  WithFate(<<x, y>>, new) = <<x, Entry("payload", new)>>
        <5>1. WithFate(<<x, y>>, new) = <<x, [y EXCEPT !.fate = new]>>
          BY FateOfSecond, Zenon
        <5>2. [y EXCEPT !.fate = new] = Entry("payload", new)
          BY <1>1, <4>1
        <5> QED
          BY <5>1, <5>2
      <4> QED
        BY <4>1
    <3> QED
      BY <3>1, <3>2
  <2>2. CASE ~Live[i]
    <3>1. \A f : Append(Before(i), Entry("payload", f)) = <<Entry("payload", f)>>
      BY <1>2, <2>2, ShortSequences
    <3>2. WithFate(<<Entry("payload", fate)>>, new) = <<Entry("payload", new)>>
      BY <1>1, FateOfFirst
    <3> QED
      BY <3>1, <3>2
  <2> QED
    BY <2>1, <2>2
<1> QED
  BY <1>3, <1>4, Zenon DEF Entry

(* Every step of the invocation keeps its processes in order.              *)
LEMMA ProcsStep ==
  ASSUME IInv, [Next]_vars, NEW i \in Invocations, ProcsOK(i)
  PROVE  ProcsOK(i)'
<1>1. /\ pc \in [Invocations -> Pcs] /\ stage \in [Invocations -> Stages]
      /\ procs \in [Invocations -> Seq(Proc)]
  BY DEF IInv, TypeOK, Proc
<1>2. /\ Projected(i) => Projected(i)'
      /\ primary[Journal[i]]["prelive"] = i => primary'[Journal[i]]["prelive"] = i
  BY SharedIsKept DEF IInv, Projected, Docs
<1>3. procs'[i] = procs[i] => /\ PayloadLaunched(i)' <=> PayloadLaunched(i)
                             /\ \A fate : Ran(i, fate)' <=> Ran(i, fate)
  BY DEF PayloadLaunched, Launched, Ran
<1>4. /\ pc[i] \in {"idle", "inputs", "probe"} => stage[i] = "journal"
      /\ pc[i] \in {"write", "sidecar"} => stage[i] # "claim"
      /\ pc[i] \in {"boundary", "revalidate"} => stage[i] \in {"claim", "prelive", "payload"}
      /\ pc[i] \in {"claim", "reply"} => stage[i] \in {"claim", "prelive"}
      /\ pc[i] \in {"start", "running"} => stage[i] \in {"prelive", "payload"}
      /\ pc[i] \in {"read_back", "remeasure"} => stage[i] = "payload"
      /\ pc[i] \in {"post_claim", "cleanup", "conclude"} => stage[i] # "report"
  BY DEF IInv, ControlOK
<1>5. CASE Alone(i)
  BY <1>2, <1>3, <1>5 DEF ProcsOK, Alone
<1>6. CASE Admit(i) \/ RefuseAdmission(i) \/ PinInputs(i) \/ Probe(i) \/ OpenBoundary(i)
  BY <1>1, <1>2, <1>3, <1>4, <1>6 DEF ProcsOK, Admit, RefuseAdmission, PinInputs, Probe,
     OpenBoundary, Goto, history
<1>7. CASE Revalidate(i) \/ SendClaim(i)
  BY <1>1, <1>2, <1>3, <1>4, <1>7 DEF ProcsOK, Revalidate, SendClaim, Goto, history
<1>8. CASE CreateRecord(i)
  <2>1. pc'[i] = "sidecar" /\ stage'[i] = stage[i] /\ procs'[i] = procs[i] /\ pc[i] = "write"
    BY <1>1, <1>8 DEF CreateRecord, Goto, history
  <2>2. stage[i] = "prelive" => primary'[Journal[i]]["prelive"] = i
    BY <1>8, GovernedAssumption
       DEF CreateRecord, Doc, IInv, TypeOK, GovernedAssumption, Docs
  <2> QED
    BY <1>2, <1>3, <2>1, <2>2 DEF ProcsOK
<1>9. CASE CreateSidecar(i)
  <2>1. procs'[i] = procs[i] /\ pc[i] = "sidecar"
    BY <1>9 DEF CreateSidecar, history
  <2>2. CASE stage[i] = "prelive"
    <3>1. sidecar'[Journal[i]]["prelive"] = i
      <4>1. sidecar' = [sidecar EXCEPT ![Journal[i]][Doc(i)] = i] /\ Doc(i) = "prelive"
        BY <1>9, <2>2 DEF CreateSidecar, Doc
      <4> QED
        BY <4>1, GovernedAssumption DEF IInv, TypeOK, GovernedAssumption, Docs
    <3>2. Projected(i)'
      BY <1>2, <2>1, <2>2, <3>1 DEF ProcsOK, Projected
    <3>3. \/ pc'[i] = "claim" /\ stage'[i] = "prelive"
          \/ pc'[i] = "boundary" /\ stage'[i] = "payload"
      BY <1>1, <1>9, <2>2 DEF CreateSidecar, ClaimOrPayload, Goto
    <3> QED
      BY <1>2, <1>3, <2>1, <2>2, <3>2, <3>3 DEF ProcsOK
  <2>3. CASE stage[i] # "prelive"
    <3>1. /\ stage'[i] = stage[i]
          /\ pc'[i] = CASE stage[i] = "journal" -> "probe" [] stage[i] = "report" -> "ended"
                        [] OTHER -> "read_back"
      BY <1>1, <1>9, <2>3 DEF CreateSidecar, Goto
    <3> QED
      BY <1>1, <1>2, <1>3, <1>4, <2>1, <2>3, <3>1 DEF ProcsOK, Stages
  <2> QED
    BY <2>2, <2>3
<1>10. CASE ReceiveReply(i)
  <2>1. procs'[i] = procs[i] /\ pc[i] = "reply"
    BY <1>10 DEF ReceiveReply, history
  <2>2. CASE stage[i] = "claim" /\ Live[i]
    <3>1. pc'[i] = "boundary" /\ stage'[i] = "prelive"
      BY <1>1, <1>10, <2>2 DEF ReceiveReply, Goto
    <3> QED
      BY <1>3, <2>1, <2>2, <3>1 DEF ProcsOK
  <2>3. CASE ~(stage[i] = "claim" /\ Live[i])
    <3>1. \/ pc'[i] = "claim" /\ stage'[i] = stage[i]
          \/ pc'[i] = "boundary" /\ stage'[i] = "payload"
      BY <1>1, <1>10, <2>3 DEF ReceiveReply, ClaimOrPayload, Goto
    <3>2. procs[i] = Before(i) /\ Projected(i)'
      BY <1>2, <1>4, <2>1, <2>3 DEF ProcsOK, Before, Projected
    <3> QED
      BY <1>2, <1>3, <1>4, <2>1, <2>3, <3>1, <3>2 DEF ProcsOK
  <2> QED
    BY <2>2, <2>3
<1>11. CASE StartProcess(i)
  <2>1. /\ pc[i] = "start" /\ pc'[i] = "running" /\ stage'[i] = stage[i]
        /\ procs'[i] = Append(procs[i], [phase |-> stage[i], fate |-> "running"])
    BY <1>1, <1>11 DEF StartProcess, Goto
  <2>2. CASE stage[i] = "prelive"
    <3>1. procs'[i] = <<[phase |-> "prelive", fate |-> "running"]>>
      BY <2>1, <2>2, ShortSequences DEF ProcsOK
    <3>2. ~PayloadLaunched(i)'
      BY <3>1, HistoriesNext
    <3> QED
      BY <2>1, <2>2, <3>1, <3>2 DEF ProcsOK
  <2>3. CASE stage[i] = "payload"
    <3>1. Ran(i, "running")'
      BY <2>1, <2>3 DEF ProcsOK, Ran
    <3> QED
      BY <1>2, <2>1, <2>3, <3>1 DEF ProcsOK, Fates
  <2> QED
    BY <1>4, <2>1, <2>2, <2>3
<1>12. CASE ProcessReturns(i)
  <2>1. PICK outcome \in Outcomes :
          /\ pc[i] = "running" /\ stage'[i] = stage[i]
          /\ procs'[i] = WithFate(procs[i], outcome)
          /\ pc'[i] \in {"write", "read_back", "post_claim"}
          /\ pc'[i] # "post_claim" => outcome = "ok" /\ pc'[i] = AfterProcess(i)
    BY <1>1, <1>12 DEF ProcessReturns, Goto, Unwind, Completed, AfterProcess
  <2>2. CASE stage[i] = "prelive"
    <3>1. procs'[i] = <<[phase |-> "prelive", fate |-> outcome]>>
      <4>1. procs[i] = <<[phase |-> "prelive", fate |-> "running"]>>
        BY <2>1, <2>2 DEF ProcsOK
      <4>2. procs'[i] = WithFate(procs[i], outcome)
        BY <2>1
      <4>3. WithFate(<<[phase |-> "prelive", fate |-> "running"]>>, outcome) =
             <<[phase |-> "prelive", fate |-> outcome]>>
        BY ONLY i \in Invocations, FatesOfHistories, Zenon
      <4> QED
        BY ONLY <4>1, <4>2, <4>3, Zenon
    <3>2. ~PayloadLaunched(i)'
      BY <3>1, HistoriesNext
    <3> QED
      BY <2>1, <2>2, <3>1, <3>2 DEF ProcsOK, Before, AfterProcess
  <2>3. CASE stage[i] = "payload"
    <3>1. Ran(i, outcome)'
      <4>1. Ran(i, "running")
        BY <2>1, <2>3 DEF ProcsOK
      <4>2. procs'[i] = WithFate(procs[i], outcome)
        BY <2>1
      <4>3. WithFate(Append(Before(i), [phase |-> "payload", fate |-> "running"]), outcome) =
             Append(Before(i), [phase |-> "payload", fate |-> outcome])
        BY ONLY i \in Invocations, FatesOfHistories, Zenon
      <4> QED
        BY ONLY <4>1, <4>2, <4>3, Zenon DEF Ran, Before
    <3> QED
      BY <1>2, <2>1, <2>3, <3>1 DEF ProcsOK, Fates
  <2> QED
    BY <1>4, <2>1, <2>2, <2>3
<1>13. CASE RaiseOSError(i) \/ RaiseUncaught(i)
  <2>1. stage'[i] = stage[i] /\ pc'[i] = "post_claim" /\ stage[i] # "report" /\ AbandonProcess(i)
    BY <1>1, <1>13 DEF RaiseOSError, RaiseUncaught, Unwind, Goto, Trying
  <2>2. CASE pc[i] # "running"
    <3>1. procs'[i] = procs[i]
      BY <2>1, <2>2 DEF AbandonProcess
    <3> QED
      BY <1>2, <1>3, <2>1, <3>1 DEF ProcsOK
  <2>3. CASE pc[i] = "running"
    <3>1. procs'[i] = WithFate(procs[i], "abandoned")
      BY <1>1, <2>1, <2>3 DEF AbandonProcess
    <3>2. CASE stage[i] = "prelive"
      <4>1. procs'[i] = <<[phase |-> "prelive", fate |-> "abandoned"]>>
        <5>1. procs[i] = <<[phase |-> "prelive", fate |-> "running"]>>
          BY <2>3, <3>2 DEF ProcsOK
        <5> QED
          BY <3>1, <5>1, FatesOfHistories, Zenon
      <4>2. ~PayloadLaunched(i)'
        BY <4>1, HistoriesNext
      <4> QED
        BY <2>1, <3>2, <4>2 DEF ProcsOK
    <3>3. CASE stage[i] = "payload"
      <4>1. Ran(i, "abandoned")'
        <5>1. Ran(i, "running")
          BY <2>3, <3>3 DEF ProcsOK
        <5> QED
          BY <3>1, <5>1, FatesOfHistories, Zenon DEF Ran
      <4> QED
        BY <1>2, <2>1, <3>3, <4>1 DEF ProcsOK, Fates
    <3> QED
      BY <1>4, <2>3, <3>2, <3>3
  <2> QED
    BY <2>2, <2>3
<1>14. CASE ReadBack(i) \/ Remeasure(i) \/ RaiseContractError(i)
  BY <1>1, <1>2, <1>3, <1>4, <1>14 DEF ProcsOK, ReadBack, Remeasure, RaiseContractError,
     Trying, Unwind, Goto, history
<1>15. CASE VerifyAfterwards(i) \/ RemoveTree(i) \/ ReportFails(i) \/ EscapeTry(i) \/ Kill(i)
  BY <1>1, <1>2, <1>3, <1>4, <1>15 DEF ProcsOK, VerifyAfterwards, RemoveTree, ReportFails,
     EscapeTry, Kill, Goto, history
<1>16. CASE Conclude(i)
  BY <1>1, <1>2, <1>3, <1>4, <1>16 DEF ProcsOK, Conclude, Goto, history
<1>17. CASE \E input \in Inputs : Tamper(i, input)
  BY <1>2, <1>3, <1>17 DEF ProcsOK, Tamper, history
<1> QED
  BY Locality, <1>5, <1>6, <1>7, <1>8, <1>9, <1>10, <1>11, <1>12, <1>13, <1>14, <1>15,
     <1>16, <1>17 DEF IInv, Own, Step

(* A payload is created by StartProcess, and what has been created stays   *)
(* in the history.                                                         *)
LEMMA LaunchStep ==
  ASSUME IInv, [Next]_vars, NEW i \in Invocations
  PROVE  \/ PayloadLaunched(i)' <=> PayloadLaunched(i)
         \/ StartProcess(i) /\ stage[i] = "payload" /\ PayloadLaunched(i)'
<1>1. procs \in [Invocations -> Seq(Proc)]
  BY DEF IInv, TypeOK, Proc
<1>2. procs'[i] = procs[i] => (PayloadLaunched(i)' <=> PayloadLaunched(i))
  BY DEF PayloadLaunched, Launched
<1>3. CASE Alone(i)
  BY <1>2, <1>3 DEF Alone
<1>4. CASE StartProcess(i)
  <2>1. procs'[i] = Append(procs[i], [phase |-> stage[i], fate |-> "running"])
    BY <1>1, <1>4 DEF StartProcess
  <2>2. stage[i] \in Stages
    BY TypesOfOne DEF IInv
  <2>3. /\ Len(procs'[i]) = Len(procs[i]) + 1
        /\ procs'[i][Len(procs[i]) + 1].phase = stage[i]
        /\ \A n \in 1..Len(procs[i]) : procs'[i][n] = procs[i][n]
    <3>1. procs[i] \in Seq(Proc) /\ [phase |-> stage[i], fate |-> "running"] \in Proc
      BY <1>1, <2>2 DEF Proc, Fates
    <3> QED
      BY <2>1, <3>1, AppendProperties
  <2>4. Len(procs[i]) \in Nat
    BY <1>1
  <2>5. CASE stage[i] = "payload"
    BY <1>4, <2>3, <2>4, <2>5 DEF PayloadLaunched, Launched
  <2>6. CASE stage[i] # "payload"
    <3>1. 1..Len(procs'[i]) = 1..Len(procs[i]) \cup {Len(procs[i]) + 1}
      BY <2>3, <2>4
    <3> QED
      BY <2>3, <2>6, <3>1 DEF PayloadLaunched, Launched
  <2> QED
    BY <2>5, <2>6
<1>5. CASE ProcessReturns(i)
  <2>1. PICK outcome \in Outcomes : procs'[i] = WithFate(procs[i], outcome)
    BY <1>1, <1>5 DEF ProcessReturns
  <2>2. procs[i] \in Seq(Proc) /\ procs[i] # <<>> /\ outcome \in Fates
    BY <1>1, <1>5 DEF ProcessReturns, IInv, ControlOK, Fates
  <2>3. /\ Len(procs'[i]) = Len(procs[i])
        /\ \A n \in 1..Len(procs[i]) : procs'[i][n].phase = procs[i][n].phase
    BY <2>1, <2>2, WithFateKeepsPhases
  <2> QED
    BY <2>3 DEF PayloadLaunched, Launched
<1>6. CASE RaiseOSError(i) \/ RaiseUncaught(i)
  <2>1. AbandonProcess(i)
    BY <1>6 DEF RaiseOSError, RaiseUncaught
  <2> QED
    BY <2>1, AbandonKeepsHistory DEF IInv, PayloadLaunched, Launched
<1>7. CASE \/ Admit(i) \/ RefuseAdmission(i) \/ EscapeTry(i) \/ Kill(i)
           \/ \E input \in Inputs : Tamper(i, input)
           \/ PinInputs(i) \/ Probe(i) \/ CreateRecord(i) \/ CreateSidecar(i)
           \/ OpenBoundary(i) \/ Revalidate(i) \/ SendClaim(i) \/ ReceiveReply(i)
           \/ ReadBack(i) \/ Remeasure(i) \/ RaiseContractError(i)
           \/ VerifyAfterwards(i) \/ RemoveTree(i) \/ Conclude(i) \/ ReportFails(i)
  <2>1. procs' = procs
    BY <1>7 DEF Admit, RefuseAdmission, EscapeTry, Kill, Tamper, PinInputs, Probe, CreateRecord,
       CreateSidecar, OpenBoundary, Revalidate, SendClaim, ReceiveReply, ReadBack,
       Remeasure, RaiseContractError, VerifyAfterwards, RemoveTree, Conclude,
       ReportFails, history
  <2> QED
    BY <1>2, <2>1
<1> QED
  BY Locality, <1>3, <1>4, <1>5, <1>6, <1>7 DEF IInv, Own, Step

-----------------------------------------------------------------------------
(* Boundaries, requests and the clock.                                     *)

(* What an invocation that holds all its approvals was judged by stays.    *)
LEMMA ClaimTimesAreKept ==
  ASSUME IInv, [Next]_vars, NEW i \in Invocations, held[i] = Len(Needed[i])
  PROVE  \A a \in NeededSet(i) : a \in Approvals /\ claimTime'[a] = claimTime[a]
<1>1. \A n \in 1..Len(Needed[i]) : Needed[i][n] \in Approvals /\ claimedBy[Needed[i][n]] = i
  BY NeededIsAnApproval DEF IInv, ClaimsOK
<1> QED
  BY <1>1, SharedIsKept DEF IInv, NeededSet

(* Every step keeps what the boundaries have established.                  *)
LEMMA BoundaryStep ==
  ASSUME IInv, ClockOK, [Next]_vars, NEW i \in Invocations, ProcsOK(i), BoundaryOK(i)
  PROVE  BoundaryOK(i)'
<1>1. /\ pc \in [Invocations -> Pcs] /\ stage \in [Invocations -> Stages]
      /\ tampered \in [Invocations -> SUBSET Inputs]
      /\ base \in [Invocations -> SUBSET Inputs]
      /\ exitTaint \in [Invocations -> SUBSET Inputs]
      /\ observed \in [Invocations -> 0..MaxTime]
  BY DEF IInv, TypeOK
<1>2. stage[i] = "payload" \/ PayloadLaunched(i) =>
        \A a \in NeededSet(i) : claimTime'[a] = claimTime[a]
  BY ClaimTimesAreKept DEF IInv, TypeOK, ClaimsOK
<1>3. /\ PayloadLaunched(i) /\ observed'[i] = observed[i] /\ base'[i] = base[i] => Judged(i)'
      /\ pc[i] = "start" /\ stage[i] = "payload" /\ observed'[i] = observed[i] /\ base'[i] = base[i]
           => Judged(i)'
  BY <1>2 DEF BoundaryOK, Judged, NeededSet, WithinAuthorization, Current
<1>4. \/ PayloadLaunched(i)' <=> PayloadLaunched(i)
      \/ StartProcess(i) /\ stage[i] = "payload" /\ PayloadLaunched(i)'
  BY LaunchStep
<1>5. CASE Alone(i)
  <2>1. PayloadLaunched(i)' <=> PayloadLaunched(i)
    BY <1>5 DEF Alone, PayloadLaunched, Launched
  <2> QED
    BY <1>2, <1>3, <1>5, <2>1 DEF BoundaryOK, Alone
<1>6. CASE OpenBoundary(i)
  <2>1. /\ pc[i] = "boundary" /\ pc'[i] = "revalidate" /\ stage'[i] = stage[i]
        /\ "trust" \notin tampered[i] /\ base'[i] = tampered[i] /\ tampered' = tampered
        /\ WithinAuthorization(i, now) /\ observed'[i] = now /\ procs' = procs
        /\ exitTaint' = exitTaint
    BY <1>1, <1>6 DEF OpenBoundary, BoundaryTime, Goto
  <2>2. ~PayloadLaunched(i)
    <3>1. stage[i] \in {"claim", "prelive", "payload"}
      BY <2>1 DEF IInv, ControlOK
    <3> QED
      BY <2>1, <3>1, Histories DEF ProcsOK
  <2>3. ~PayloadLaunched(i)'
    BY <2>1, <2>2 DEF PayloadLaunched, Launched
  <2>4. stage'[i] = "payload" => \A a \in NeededSet(i) : claimTime'[a] <= observed'[i]
    BY <1>2, <2>1, ClaimTimesAreKept DEF ClockOK, IInv, TypeOK
  <2>5. base'[i] \subseteq tampered'[i] /\ exitTaint'[i] \subseteq tampered'[i]
    BY <2>1 DEF BoundaryOK
  <2> QED
    BY <2>1, <2>3, <2>4, <2>5 DEF BoundaryOK, WithinAuthorization, NeededSet
<1>7. CASE Revalidate(i)
  <2>1. /\ pc[i] = "revalidate" /\ stage'[i] = stage[i] /\ tampered' = tampered
        /\ pc'[i] = IF stage[i] = "claim" THEN "claim" ELSE "start"
        /\ UNCHANGED <<observed, base, exitTaint, procs>>
        /\ tampered[i] \cap BoundaryInputs = {}
        /\ stage[i] = "payload" => "extra_vars" \notin tampered[i]
        /\ \A n \in 1..Len(Needed[i]) : Current(Needed[i][n], observed[i])
    BY <1>1, <1>7 DEF Revalidate, Goto, history
  <2>2. PayloadLaunched(i)' <=> PayloadLaunched(i)
    BY <2>1 DEF PayloadLaunched, Launched
  <2>3. stage[i] = "payload" => Judged(i)
    BY <2>1 DEF BoundaryOK, Judged, BoundaryInputs, NeededSet
  <2>4. stage[i] = "payload" => Judged(i)'
    BY <1>2, <2>1, <2>3 DEF Judged, NeededSet, WithinAuthorization, Current
  <2> QED
    BY <1>3, <2>1, <2>2, <2>4 DEF BoundaryOK
<1>8. CASE StartProcess(i)
  <2>1. /\ pc[i] = "start" /\ pc'[i] = "running"
        /\ UNCHANGED <<stage, tampered, observed, base, exitTaint>>
    BY <1>1, <1>8 DEF StartProcess, Goto
  <2> QED
    BY <1>3, <1>4, <2>1 DEF BoundaryOK
<1>9. CASE ProcessReturns(i)
  <2>1. /\ pc'[i] \in {"write", "read_back", "post_claim"}
        /\ exitTaint'[i] \in {exitTaint[i], tampered[i]}
        /\ UNCHANGED <<stage, tampered, observed, base>> /\ pc[i] = "running"
    BY <1>1, <1>9 DEF ProcessReturns, Goto, Unwind, AfterProcess
  <2>2. ~StartProcess(i)
    BY <2>1 DEF StartProcess
  <2> QED
    BY <1>3, <1>4, <2>1, <2>2 DEF BoundaryOK
<1>10. CASE CreateSidecar(i) \/ ReceiveReply(i)
  <2>1. /\ pc'[i] \in {"probe", "ended", "read_back", "claim", "boundary"}
        /\ UNCHANGED <<tampered, observed, base, exitTaint>> /\ pc[i] \in {"sidecar", "reply"}
    BY <1>1, <1>10 DEF CreateSidecar, ReceiveReply, ClaimOrPayload, Goto, history
  <2>2. ~StartProcess(i)
    BY <2>1 DEF StartProcess
  <2> QED
    BY <1>3, <1>4, <2>1, <2>2 DEF BoundaryOK
<1>11. CASE \/ Admit(i) \/ RefuseAdmission(i) \/ PinInputs(i) \/ Probe(i) \/ CreateRecord(i)
            \/ SendClaim(i) \/ ReadBack(i) \/ Remeasure(i) \/ RaiseContractError(i)
            \/ VerifyAfterwards(i) \/ RemoveTree(i) \/ Conclude(i) \/ ReportFails(i)
            \/ EscapeTry(i) \/ Kill(i)
  <2>1. /\ pc'[i] \notin {"revalidate", "start"}
        /\ UNCHANGED <<tampered, observed, base, exitTaint, procs>>
    BY <1>1, <1>11 DEF Admit, RefuseAdmission, PinInputs, Probe, CreateRecord, SendClaim,
       ReadBack, Remeasure, RaiseContractError, VerifyAfterwards, RemoveTree, Conclude,
       ReportFails, EscapeTry, Kill, Goto, Unwind, history
  <2>2. PayloadLaunched(i)' <=> PayloadLaunched(i)
    BY <2>1 DEF PayloadLaunched, Launched
  <2> QED
    BY <1>3, <2>1, <2>2 DEF BoundaryOK
<1>12. CASE RaiseOSError(i) \/ RaiseUncaught(i)
  <2>1. /\ pc'[i] = "post_claim" /\ UNCHANGED <<tampered, observed, base, exitTaint>>
    BY <1>1, <1>12 DEF RaiseOSError, RaiseUncaught, Unwind, Goto
  <2>2. ~StartProcess(i)
    BY <1>1, <2>1 DEF StartProcess, Goto
  <2> QED
    BY <1>3, <1>4, <2>1, <2>2 DEF BoundaryOK
<1>13. CASE \E input \in Inputs : Tamper(i, input)
  <2>1. /\ tampered[i] \subseteq tampered'[i]
        /\ UNCHANGED <<pc, stage, observed, base, exitTaint, procs>>
    BY <1>1, <1>13 DEF Tamper, history
  <2>2. PayloadLaunched(i)' <=> PayloadLaunched(i)
    BY <2>1 DEF PayloadLaunched, Launched
  <2> QED
    BY <1>2, <1>3, <2>1, <2>2 DEF BoundaryOK
<1> QED
  BY Locality, <1>5, <1>6, <1>7, <1>8, <1>9, <1>10, <1>11, <1>12, <1>13 DEF IInv, Own, Step

(* A claim request is for one of the approvals the invocation needs.       *)
LEMMA RequestsStep ==
  ASSUME IInv, [Next]_vars, NEW i \in Invocations, RequestsOK(i)
  PROVE  RequestsOK(i)'
<1>1. ASSUME NEW k \in Invocations, SendClaim(k) PROVE RequestsOK(i)'
  <2>1. held[k] + 1 \in 1..Len(Needed[k])
    BY <1>1, TypesOfOne, LenOfNeeded DEF SendClaim, IInv
  <2> QED
    BY <1>1, <2>1 DEF SendClaim, RequestsOK, NeededSet
<1>2. CASE requests' \subseteq requests
  BY <1>2 DEF RequestsOK, NeededSet
<1>3. ASSUME NEW k \in Invocations, Own(k) PROVE SendClaim(k) \/ requests' = requests
  BY <1>3 DEF Own, Step, Admit, RefuseAdmission, PinInputs, CreateRecord,
     CreateSidecar, Probe, OpenBoundary, Revalidate, ReceiveReply,
     StartProcess, ProcessReturns, ReadBack, Remeasure, RaiseContractError,
     RaiseOSError, VerifyAfterwards, RemoveTree, Conclude, ReportFails,
     RaiseUncaught, EscapeTry, Kill, Tamper, store
<1>4. ASSUME NEW k \in Invocations, NEW a \in Approvals, BrokerHandles(k, a)
      PROVE  requests' \subseteq requests
  BY <1>4 DEF BrokerHandles
<1>5. CASE Tick \/ UNCHANGED vars \/ \E a \in Approvals : Mark(a)
  <2>1. requests' = requests
    BY <1>5 DEF Tick, Mark, vars, store
  <2> QED
    BY <1>2, <2>1
<1> QED
  BY <1>1, <1>2, <1>3, <1>4, <1>5 DEF Next, Own

(* The clock runs on, and the broker stamps with the time it reads.        *)
LEMMA ClockStep == IInv /\ ClockOK /\ [Next]_vars => ClockOK'
<1> SUFFICES ASSUME IInv, ClockOK, [Next]_vars PROVE ClockOK'
  OBVIOUS
<1>1. now \in 0..MaxTime /\ claimTime \in [Approvals -> 0..MaxTime] /\ MaxTime \in Nat
  BY GovernedAssumption DEF IInv, TypeOK, GovernedAssumption
<1>2. ASSUME NEW k \in Invocations, NEW a \in Approvals, BrokerHandles(k, a) PROVE ClockOK'
  BY <1>1, <1>2 DEF BrokerHandles, ClockOK
<1>3. CASE Tick
  BY <1>1, <1>3 DEF Tick, ClockOK, store
<1>4. CASE claimTime' = claimTime /\ now' = now
  BY <1>4 DEF ClockOK
<1>5. ASSUME NEW k \in Invocations, Own(k) PROVE claimTime' = claimTime /\ now' = now
  BY <1>5 DEF Own, Step, Admit, RefuseAdmission, PinInputs, CreateRecord,
     CreateSidecar, Probe, OpenBoundary, Revalidate, SendClaim, ReceiveReply,
     StartProcess, ProcessReturns, ReadBack, Remeasure, RaiseContractError,
     RaiseOSError, VerifyAfterwards, RemoveTree, Conclude, ReportFails,
     RaiseUncaught, EscapeTry, Kill, Tamper, store
<1>6. CASE UNCHANGED vars \/ \E a \in Approvals : Mark(a)
  BY <1>6, <1>4 DEF Mark, vars, store
<1> QED
  BY <1>2, <1>3, <1>4, <1>5, <1>6 DEF Next, Own

-----------------------------------------------------------------------------
(* The final record.                                                       *)

(* A record that names an invocation has been written by it.               *)
LEMMA WrittenByItself ==
  ASSUME TypeOK, [Next]_vars, NEW i \in Invocations, NEW d \in Docs
  PROVE  /\ primary'[Journal[i]][d] = i =>
              primary[Journal[i]][d] = i \/ (CreateRecord(i) /\ d = Doc(i))
         /\ sidecar'[Journal[i]][d] = i =>
              \/ sidecar[Journal[i]][d] = i
              \/ /\ CreateSidecar(i) \/ RaiseOSError(i) \/ ReportFails(i)
                 /\ pc[i] = "sidecar" /\ d = Doc(i)
<1>1. /\ primary \in [Journals -> [Docs -> Invocations \cup {Nobody}]]
      /\ sidecar \in [Journals -> [Docs -> Invocations \cup {Nobody}]]
      /\ Journal \in [Invocations -> Journals]
  BY GovernedAssumption DEF TypeOK, GovernedAssumption
<1>2. ASSUME NEW k \in Invocations, CreateRecord(k)
      PROVE  sidecar' = sidecar /\ (primary'[Journal[i]][d] = i =>
               primary[Journal[i]][d] = i \/ (k = i /\ d = Doc(i)))
  BY <1>1, <1>2, DocIsADoc DEF CreateRecord
<1>3. ASSUME NEW k \in Invocations, CreateSidecar(k) \/ RaiseOSError(k) \/ ReportFails(k)
      PROVE  primary' = primary /\ (sidecar'[Journal[i]][d] = i =>
               sidecar[Journal[i]][d] = i \/ (k = i /\ pc[i] = "sidecar" /\ d = Doc(i)))
  <2>1. /\ primary' = primary
        /\ \/ sidecar' = sidecar
           \/ pc[k] = "sidecar" /\ sidecar' = [sidecar EXCEPT ![Journal[k]][Doc(k)] = k]
    BY <1>3 DEF CreateSidecar, RaiseOSError, ReportFails
  <2> QED
    BY <1>1, <2>1, DocIsADoc
<1>4. ASSUME NEW k \in Invocations, Own(k)
      PROVE  \/ CreateRecord(k) \/ CreateSidecar(k) \/ RaiseOSError(k) \/ ReportFails(k)
             \/ UNCHANGED evidence
  BY <1>4 DEF Own, Step, Admit, RefuseAdmission, PinInputs, Probe, OpenBoundary, Revalidate,
     SendClaim, ReceiveReply, StartProcess, ProcessReturns, ReadBack, Remeasure,
     RaiseContractError, VerifyAfterwards, RemoveTree, Conclude,
     RaiseUncaught, EscapeTry, Kill, Tamper, evidence
<1>5. CASE \/ Tick \/ UNCHANGED vars \/ \E a \in Approvals : Mark(a)
           \/ \E k \in Invocations, a \in Approvals : BrokerHandles(k, a)
  BY <1>5 DEF Tick, Mark, BrokerHandles, vars, evidence
<1> QED
  BY <1>2, <1>3, <1>4, <1>5 DEF Next, Own, evidence

(* Every step keeps the final record true.                                 *)
LEMMA ReportStep ==
  ASSUME IInv, [Next]_vars, NEW i \in Invocations, ProcsOK(i), BoundaryOK(i), ReportOK(i)
  PROVE  ReportOK(i)'
<1>1. /\ pc \in [Invocations -> Pcs] /\ stage \in [Invocations -> Stages]
      /\ tree \in [Invocations -> BOOLEAN] /\ listed \in [Invocations -> BOOLEAN]
      /\ exitTaint \in [Invocations -> SUBSET Inputs]
      /\ error \in [Invocations -> {"none", "contract", "uncaught"}]
      /\ result \in [Invocations -> Outcomes \cup {"pre_process_contract", "process_start"}]
      /\ status \in [Invocations -> Statuses]
  BY DEF IInv, TypeOK
<1>2. /\ primary'[Journal[i]]["result"] = i =>
           primary[Journal[i]]["result"] = i \/ (CreateRecord(i) /\ Doc(i) = "result")
      /\ sidecar'[Journal[i]]["result"] = i =>
           \/ sidecar[Journal[i]]["result"] = i
           \/ /\ CreateSidecar(i) \/ RaiseOSError(i) \/ ReportFails(i)
              /\ pc[i] = "sidecar" /\ Doc(i) = "result"
      /\ sidecar[Journal[i]]["artifact"] = i => sidecar'[Journal[i]]["artifact"] = i
  BY WrittenByItself, SharedIsKept DEF IInv, Docs
<1>3. /\ pc[i] \in {"idle", "inputs", "probe"} => stage[i] = "journal"
      /\ pc[i] \in {"write", "sidecar"} => stage[i] # "claim"
      /\ pc[i] \in {"boundary", "revalidate"} => stage[i] \in {"claim", "prelive", "payload"}
      /\ pc[i] \in {"claim", "reply"} => stage[i] \in {"claim", "prelive"}
      /\ pc[i] \in {"start", "running"} => stage[i] \in {"prelive", "payload"}
      /\ pc[i] \in {"read_back", "remeasure"} => stage[i] = "payload"
      /\ pc[i] \in {"post_claim", "cleanup", "conclude"} => stage[i] # "report"
  BY DEF IInv, ControlOK
<1>4. Doc(i) = "result" <=> stage[i] = "report"
  BY TypesOfOne DEF IInv, Doc, Stages
<1>5. PayloadLaunched(i) => PayloadLaunched(i)'
  BY LaunchStep
<1>6. /\ procs'[i] = procs[i] /\ exitTaint'[i] = exitTaint[i] /\ listed'[i] = listed[i]
           => (Passed(i) => Passed(i)')
      /\ tree'[i] = tree[i] /\ error'[i] = error[i] /\ result'[i] = result[i]
           => ExecutionStatus(i)' = ExecutionStatus(i)
  BY <1>2 DEF Passed, Ran, ExecutionStatus
<1>7. CASE Alone(i)
  <2>1. /\ ~CreateRecord(i) /\ ~CreateSidecar(i)
        /\ ~((RaiseOSError(i) \/ ReportFails(i)) /\ pc[i] = "sidecar")
    BY <1>1, <1>7
       DEF Alone, CreateRecord, CreateSidecar, RaiseOSError, ReportFails, ClaimOrPayload,
       Goto, Unwind
  <2> QED
    BY <1>2, <1>5, <1>6, <1>7, <2>1 DEF ReportOK, Alone
<1>8. CASE CreateRecord(i)
  <2>1. /\ pc[i] = "write" /\ pc'[i] = "sidecar"
        /\ UNCHANGED <<stage, tree, listed, error, result, status, procs, exitTaint, sidecar>>
    BY <1>1, <1>8 DEF CreateRecord, Goto, records, history
  <2> QED
    BY <1>2, <1>4, <1>5, <1>6, <2>1 DEF ReportOK
<1>9. CASE CreateSidecar(i)
  <2>1. /\ pc[i] = "sidecar" /\ stage[i] # "claim"
        /\ UNCHANGED <<tree, listed, error, result, status, procs, exitTaint, primary>>
    BY <1>3, <1>9 DEF CreateSidecar, history
  <2>2. CASE stage[i] = "prelive"
    <3>1. stage'[i] \in {"prelive", "payload"} /\ pc'[i] \in {"claim", "boundary"}
      BY <1>1, <1>9, <2>2 DEF CreateSidecar, ClaimOrPayload, Goto
    <3> QED
      BY <1>2, <1>4, <1>5, <2>1, <2>2, <3>1 DEF ReportOK
  <2>3. CASE stage[i] # "prelive"
    <3>1. /\ stage'[i] = stage[i]
          /\ pc'[i] = CASE stage[i] = "journal" -> "probe" [] stage[i] = "report" -> "ended"
                        [] OTHER -> "read_back"
      BY <1>1, <1>9, <2>3 DEF CreateSidecar, Goto
    <3>2. stage[i] = "payload" => sidecar'[Journal[i]]["artifact"] = i
      <4>1. sidecar' = [sidecar EXCEPT ![Journal[i]][Doc(i)] = i]
        BY <1>9 DEF CreateSidecar
      <4>2. stage[i] = "payload" => Doc(i) = "artifact"
        BY DEF Doc
      <4> QED
        BY <4>1, <4>2, GovernedAssumption DEF IInv, TypeOK, GovernedAssumption, Docs
    <3>3. stage[i] \in {"journal", "payload", "report"}
      BY <1>1, <2>1, <2>3 DEF Stages
    <3> QED
      BY <1>2, <1>4, <1>5, <1>6, <2>1, <3>1, <3>2, <3>3 DEF ReportOK
  <2> QED
    BY <2>2, <2>3
<1>10. CASE ReceiveReply(i)
  <2>1. /\ pc[i] = "reply" /\ pc'[i] \in {"claim", "boundary"}
        /\ stage'[i] \in {"claim", "prelive", "payload"}
        /\ UNCHANGED <<tree, listed, error, result, status, procs, exitTaint, primary, sidecar>>
    BY <1>1, <1>3, <1>10 DEF ReceiveReply, ClaimOrPayload, Goto, records, history, evidence
  <2> QED
    BY <1>3, <1>5, <2>1 DEF ReportOK
<1>11. CASE StartProcess(i)
  <2>1. /\ pc[i] = "start" /\ pc'[i] = "running"
        /\ UNCHANGED <<stage, tree, listed, error, result, status, primary, sidecar>>
    BY <1>1, <1>11 DEF StartProcess, Goto, records, evidence
  <2> QED
    BY <1>3, <1>5, <2>1 DEF ReportOK
<1>12. CASE ProcessReturns(i)
  <2>1. /\ pc[i] = "running" /\ UNCHANGED <<stage, tree, listed, status, primary, sidecar>>
        /\ result'[i] = result[i] \/ stage[i] = "payload"
        /\ \/ pc'[i] = "post_claim" /\ error'[i] = "contract"
           \/ pc'[i] = "write"
           \/ pc'[i] = "read_back" /\ ~Artifact[i]
    BY <1>1, <1>12 DEF ProcessReturns, AfterProcess, Goto, Unwind, evidence
  <2>2. stage[i] = "payload" => PayloadLaunched(i)
    BY <2>1, Histories DEF ProcsOK
  <2> QED
    BY <1>3, <1>5, <2>1, <2>2 DEF ReportOK
<1>13. CASE ReadBack(i)
  <2>1. /\ pc[i] = "read_back" /\ pc'[i] = "remeasure" /\ listed'[i] = (Len(Needed[i]) > 1)
        /\ UNCHANGED <<stage, tree, error, result, status, primary, sidecar>>
    BY <1>1, <1>13 DEF ReadBack, Goto, evidence
  <2> QED
    BY <1>3, <1>5, <2>1 DEF ReportOK
<1>14. CASE Remeasure(i)
  <2>1. /\ pc[i] = "remeasure" /\ pc'[i] = "post_claim" /\ tampered[i] \cap FinalInputs = {}
        /\ UNCHANGED <<stage, tree, listed, error, result, status, procs, exitTaint, primary, sidecar>>
    BY <1>1, <1>14 DEF Remeasure, Unwind, Goto, records, history, evidence
  <2>2. Passed(i)
    BY <1>3, <2>1 DEF Passed, ProcsOK, BoundaryOK, ReportOK
  <2> QED
    BY <1>3, <1>5, <1>6, <2>1, <2>2 DEF ReportOK
<1>15. CASE RaiseContractError(i) \/ RaiseOSError(i) \/ RaiseUncaught(i)
  <2>1. /\ pc'[i] = "post_claim" /\ error'[i] # "none" /\ stage[i] # "report"
        /\ UNCHANGED <<stage, tree, listed, status, primary>>
        /\ result'[i] \in {result[i], "process_start"}
    BY <1>1, <1>15
       DEF RaiseContractError, RaiseOSError, RaiseUncaught, Trying, Unwind, Goto,
       evidence
  <2>2. ~CreateRecord(i) /\ ~CreateSidecar(i)
    BY <1>1, <2>1 DEF CreateRecord, CreateSidecar, ClaimOrPayload, Goto
  <2> QED
    BY <1>2, <1>4, <1>5, <2>1, <2>2 DEF ReportOK
<1>16. CASE VerifyAfterwards(i) \/ RemoveTree(i)
  <2>1. /\ pc[i] \in {"post_claim", "cleanup"} /\ pc'[i] \in {"cleanup", "conclude"}
        /\ error'[i] = error[i] \/ error'[i] # "none"
        /\ UNCHANGED <<stage, listed, result, status, procs, exitTaint, primary, sidecar>>
    BY <1>1, <1>16 DEF VerifyAfterwards, RemoveTree, NoteFailure, Goto, history, evidence
  <2> QED
    BY <1>3, <1>5, <1>6, <2>1 DEF ReportOK
<1>17. CASE Conclude(i)
  <2>1. /\ pc[i] = "conclude"
        /\ UNCHANGED <<tree, listed, error, result, procs, exitTaint, primary, sidecar>>
        /\ \/ pc'[i] = "ended" /\ stage'[i] = stage[i] /\ status'[i] = status[i]
           \/ /\ pc'[i] = "write" /\ stage'[i] = "report" /\ error[i] # "uncaught"
              /\ status'[i] = ExecutionStatus(i)
    BY <1>1, <1>17 DEF Conclude, Goto, history, evidence
  <2> QED
    BY <1>3, <1>5, <1>6, <2>1 DEF ReportOK
<1>18. CASE EscapeTry(i) \/ Kill(i) \/ \E input \in Inputs : Tamper(i, input)
  <2>1. /\ pc'[i] \in {"escaped", "killed", pc[i]}
        /\ UNCHANGED <<stage, tree, listed, error, result, status, procs, exitTaint, primary, sidecar>>
    BY <1>1, <1>18 DEF EscapeTry, Kill, Tamper, Goto, records, history, evidence
  <2> QED
    BY <1>5, <1>6, <2>1 DEF ReportOK
<1>19. CASE \/ Admit(i) \/ RefuseAdmission(i) \/ PinInputs(i) \/ Probe(i)
            \/ OpenBoundary(i) \/ Revalidate(i) \/ SendClaim(i)
  <2>1. /\ stage[i] # "report" /\ stage'[i] # "report"
        /\ pc'[i] \in {"inputs", "ended", "write", "boundary", "revalidate", "claim", "start", "reply"}
        /\ pc[i] \in {"idle", "inputs", "probe", "boundary", "revalidate", "claim"}
        /\ UNCHANGED <<listed, error, result, status, procs, exitTaint, primary, sidecar>>
    BY <1>1, <1>3, <1>19
       DEF Admit, RefuseAdmission, PinInputs, Probe, OpenBoundary, Revalidate,
       SendClaim, Goto, records, history, evidence
  <2> QED
    BY <1>5, <2>1 DEF ReportOK
<1>20. CASE ReportFails(i)
  <2>1. /\ pc[i] \in {"write", "sidecar"} /\ pc'[i] = "ended" /\ stage[i] = "report"
        /\ UNCHANGED <<stage, tree, listed, error, result, status, procs, exitTaint, primary>>
    BY <1>1, <1>20 DEF ReportFails, Goto, records, history
  <2> QED
    BY <1>2, <1>5, <1>6, <2>1 DEF ReportOK
<1> QED
  BY Locality, <1>7, <1>8, <1>9, <1>10, <1>11, <1>12, <1>13, <1>14, <1>15, <1>16, <1>17,
     <1>18, <1>19, <1>20 DEF IInv, Own, Step

-----------------------------------------------------------------------------
(* The phases of the record.                                               *)

(* A phase tells the fate of its process.                                  *)
Tells(outcome, fate) ==
  IF outcome = "process_start" THEN fate = "abandoned" ELSE fate = outcome

LEMMA FixedAgreements ==
  /\ Agree(<<>>, <<>>)
  /\ Agree(<<>>, <<[phase |-> "prelive", outcome |-> "process_start"]>>)
  /\ Agree(<<>>, <<[phase |-> "payload", outcome |-> "process_start"]>>)
  /\ Agree(<<[phase |-> "prelive", fate |-> "ok"]>>, <<[phase |-> "prelive", outcome |-> "ok"]>>)
  /\ Agree(<<[phase |-> "prelive", fate |-> "ok"]>>,
           <<[phase |-> "prelive", outcome |-> "ok"],
             [phase |-> "payload", outcome |-> "process_start"]>>)
  BY DEF Agree

LEMMA ToldAgreements ==
  ASSUME NEW fate, NEW outcome, Tells(outcome, fate)
  PROVE  /\ Agree(<<[phase |-> "prelive", fate |-> fate]>>,
                  <<[phase |-> "prelive", outcome |-> outcome]>>)
         /\ Agree(<<[phase |-> "payload", fate |-> fate]>>,
                  <<[phase |-> "payload", outcome |-> outcome]>>)
         /\ Agree(<<[phase |-> "prelive", fate |-> "ok"], [phase |-> "payload", fate |-> fate]>>,
                  <<[phase |-> "prelive", outcome |-> "ok"],
                    [phase |-> "payload", outcome |-> outcome]>>)
<1>1. \A p : Agree(<<[phase |-> p, fate |-> fate]>>, <<[phase |-> p, outcome |-> outcome]>>)
  BY DEF Agree, Tells
<1>2. Agree(<<[phase |-> "prelive", fate |-> "ok"], [phase |-> "payload", fate |-> fate]>>,
            <<[phase |-> "prelive", outcome |-> "ok"], [phase |-> "payload", outcome |-> outcome]>>)
  BY DEF Agree, Tells
<1> QED
  BY <1>1, <1>2, Zenon

LEMMA Agreements ==
  ASSUME NEW i \in Invocations, NEW fate, NEW outcome
  PROVE  /\ Agree(Before(i), ToldBefore(i))
         /\ Agree(Before(i),
                  Append(ToldBefore(i), [phase |-> "payload", outcome |-> "process_start"]))
         /\ Tells(outcome, fate) =>
              Agree(Append(Before(i), [phase |-> "payload", fate |-> fate]),
                    Append(ToldBefore(i), [phase |-> "payload", outcome |-> outcome]))
<1> DEFINE Process(f) == [phase |-> "payload", fate |-> f]
           Phased(o)  == [phase |-> "payload", outcome |-> o]
           First      == [phase |-> "prelive", fate |-> "ok"]
           FirstTold  == [phase |-> "prelive", outcome |-> "ok"]
<1>1. CASE Live[i]
  <2>1. Before(i) = <<First>> /\ ToldBefore(i) = <<FirstTold>>
    BY <1>1 DEF Before, ToldBefore
  <2>2. Append(Before(i), Process(fate)) = <<First, Process(fate)>>
    BY <2>1, ShortSequences
  <2>3. /\ Append(ToldBefore(i), Phased(outcome)) = <<FirstTold, Phased(outcome)>>
        /\ Append(ToldBefore(i), Phased("process_start")) = <<FirstTold, Phased("process_start")>>
    BY <2>1, ShortSequences
  <2> QED
    BY <2>1, <2>2, <2>3, FixedAgreements, ToldAgreements, Zenon
<1>2. CASE ~Live[i]
  <2>1. Before(i) = <<>> /\ ToldBefore(i) = <<>>
    BY <1>2 DEF Before, ToldBefore
  <2>2. Append(Before(i), Process(fate)) = <<Process(fate)>>
    BY <2>1, ShortSequences
  <2>3. /\ Append(ToldBefore(i), Phased(outcome)) = <<Phased(outcome)>>
        /\ Append(ToldBefore(i), Phased("process_start")) = <<Phased("process_start")>>
    BY <2>1, ShortSequences
  <2> QED
    BY <2>1, <2>2, <2>3, FixedAgreements, ToldAgreements, Zenon
<1> QED
  BY <1>1, <1>2

(* Every step keeps the phases in agreement with the processes.            *)
LEMMA PhasesStep ==
  ASSUME IInv, [Next]_vars, NEW i \in Invocations, ProcsOK(i), PhasesOK(i)
  PROVE  PhasesOK(i)'
<1>1. /\ pc \in [Invocations -> Pcs] /\ stage \in [Invocations -> Stages]
      /\ error \in [Invocations -> {"none", "contract", "uncaught"}]
      /\ procs \in [Invocations -> Seq(Proc)] /\ phases \in [Invocations -> Seq(Phase)]
  BY DEF IInv, TypeOK, Proc, Phase
<1>2. /\ pc[i] \in {"idle", "inputs", "probe"} => stage[i] = "journal"
      /\ pc[i] \in {"write", "sidecar"} => stage[i] # "claim"
      /\ pc[i] \in {"boundary", "revalidate"} => stage[i] \in {"claim", "prelive", "payload"}
      /\ pc[i] \in {"claim", "reply"} => stage[i] \in {"claim", "prelive"}
      /\ pc[i] \in {"start", "running"} => stage[i] \in {"prelive", "payload"}
      /\ pc[i] \in {"read_back", "remeasure"} => stage[i] = "payload"
      /\ pc[i] \in {"post_claim", "cleanup", "conclude"} => stage[i] # "report"
  BY DEF IInv, ControlOK
<1>3. pc[i] \in TryPcs \ {"start", "running"} /\ stage[i] # "report"
        => Agree(procs[i], phases[i])
  <2>1. SUFFICES ASSUME pc[i] \in TryPcs \ {"start", "running"}, stage[i] # "report"
                 PROVE  Agree(procs[i], phases[i])
    OBVIOUS
  <2>2. CASE stage[i] \in {"journal", "claim"}
    <3>1. procs[i] = <<>> /\ phases[i] = <<>>
      BY <2>1, <2>2 DEF ProcsOK, PhasesOK
    <3> QED
      BY <3>1, FixedAgreements, Zenon
  <2>3. CASE stage[i] \in {"prelive", "payload"}
    <3>1. \/ procs[i] = <<>> /\ phases[i] = <<>>
          \/ procs[i] = Before(i) /\ phases[i] = ToldBefore(i)
          \/ /\ procs[i] = Append(Before(i), [phase |-> "payload", fate |-> "ok"])
             /\ phases[i] = Append(ToldBefore(i), [phase |-> "payload", outcome |-> "ok"])
      BY <1>2, <2>1, <2>3 DEF ProcsOK, PhasesOK, Ran, TryPcs
    <3>2. Tells("ok", "ok")
      BY DEF Tells
    <3> QED
      BY <3>1, <3>2, FixedAgreements, Agreements, Zenon
  <2> QED
    BY <1>1, <2>1, <2>2, <2>3 DEF Stages
<1>4. CASE Alone(i)
  BY <1>4 DEF PhasesOK, Alone
<1>5. CASE \/ Admit(i) \/ PinInputs(i) \/ Probe(i) \/ OpenBoundary(i) \/ Revalidate(i)
           \/ SendClaim(i)
  <2>1. UNCHANGED <<phases, procs>> /\ pc[i] \in TryPcs \cup {"idle"}
    BY <1>5
       DEF Admit, PinInputs, Probe, OpenBoundary, Revalidate, SendClaim, records, history,
       TryPcs
  <2>2. \/ pc[i] = "idle" /\ pc'[i] = "inputs" /\ stage'[i] = stage[i]
        \/ pc[i] = "inputs" /\ pc'[i] = "write" /\ stage'[i] = stage[i]
        \/ pc[i] = "probe" /\ pc'[i] = "boundary" /\ stage'[i] = "claim"
        \/ pc[i] = "boundary" /\ pc'[i] = "revalidate" /\ stage'[i] = stage[i]
        \/ pc[i] = "revalidate" /\ pc'[i] = "claim" /\ stage[i] = "claim" /\ stage'[i] = stage[i]
        \/ pc[i] = "revalidate" /\ pc'[i] = "start" /\ stage[i] # "claim" /\ stage'[i] = stage[i]
        \/ pc[i] = "claim" /\ pc'[i] = "reply" /\ stage'[i] = stage[i]
    BY <1>1, <1>5 DEF Admit, PinInputs, Probe, OpenBoundary, Revalidate, SendClaim, Goto
  <2> QED
    BY <1>2, <2>1, <2>2 DEF PhasesOK, TryPcs
<1>6. CASE \/ RefuseAdmission(i) \/ ReportFails(i) \/ EscapeTry(i) \/ Kill(i)
           \/ \E input \in Inputs : Tamper(i, input)
  <2>1. /\ UNCHANGED <<phases, procs, stage, error>>
        /\ pc'[i] \in {"ended", "escaped", "killed", pc[i]}
    BY <1>1, <1>6 DEF RefuseAdmission, ReportFails, EscapeTry, Kill, Tamper, Goto, records, history
  <2> QED
    BY <2>1 DEF PhasesOK, TryPcs
<1>7. CASE CreateRecord(i) \/ ReadBack(i)
  <2>1. /\ UNCHANGED <<phases, procs, stage, error>>
        /\ \/ pc[i] = "write" /\ pc'[i] = "sidecar"
           \/ pc[i] = "read_back" /\ pc'[i] = "remeasure"
    BY <1>1, <1>7 DEF CreateRecord, ReadBack, Goto, records, history
  <2> QED
    BY <1>2, <2>1 DEF PhasesOK, TryPcs
<1>8. CASE CreateSidecar(i)
  <2>1. pc[i] = "sidecar" /\ UNCHANGED <<phases, procs, error>>
    BY <1>8 DEF CreateSidecar, history
  <2>2. \/ pc'[i] = "probe" /\ stage[i] = "journal" /\ stage'[i] = stage[i]
        \/ pc'[i] = "ended" /\ stage[i] = "report" /\ stage'[i] = stage[i]
        \/ pc'[i] = "claim" /\ stage[i] = "prelive" /\ stage'[i] = stage[i]
        \/ pc'[i] = "boundary" /\ stage[i] = "prelive" /\ stage'[i] = "payload"
        \/ pc'[i] = "read_back" /\ stage[i] = "payload" /\ stage'[i] = stage[i]
    BY <1>1, <1>2, <1>8 DEF CreateSidecar, ClaimOrPayload, Goto, Stages
  <2> QED
    BY <2>1, <2>2 DEF PhasesOK, TryPcs
<1>9. CASE ReceiveReply(i)
  <2>1. pc[i] = "reply" /\ UNCHANGED <<phases, procs, error>>
    BY <1>9 DEF ReceiveReply, records, history
  <2>2. \/ pc'[i] = "boundary" /\ stage[i] = "claim" /\ stage'[i] = "prelive"
        \/ pc'[i] = "claim" /\ stage'[i] = stage[i]
        \/ /\ pc'[i] = "boundary" /\ stage'[i] = "payload"
           /\ stage[i] = "prelive" \/ ~Live[i]
    BY <1>1, <1>2, <1>9 DEF ReceiveReply, ClaimOrPayload, Goto
  <2> QED
    BY <1>2, <2>1, <2>2 DEF PhasesOK, ToldBefore, TryPcs
<1>10. CASE StartProcess(i)
  <2>1. /\ pc[i] = "start" /\ pc'[i] = "running" /\ UNCHANGED <<phases, stage, error>>
    BY <1>1, <1>10 DEF StartProcess, Goto, records
  <2> QED
    BY <1>2, <2>1 DEF PhasesOK
<1>11. CASE ProcessReturns(i)
  <2>1. PICK outcome \in Outcomes :
          /\ pc[i] = "running" /\ stage'[i] = stage[i]
          /\ procs'[i] = WithFate(procs[i], outcome)
          /\ phases'[i] = Append(phases[i], [phase |-> stage[i], outcome |-> outcome])
          /\ pc'[i] \in {"write", "read_back", "post_claim"}
          /\ pc'[i] # "post_claim" => outcome = "ok" /\ pc'[i] = AfterProcess(i)
    BY <1>1, <1>11 DEF ProcessReturns, Goto, Unwind, Completed, AfterProcess
  <2>2. Tells(outcome, outcome)
    BY DEF Tells, Outcomes
  <2>3. CASE stage[i] = "prelive"
    <3>1. procs[i] = <<[phase |-> "prelive", fate |-> "running"]>> /\ phases[i] = <<>> /\ Live[i]
      BY <2>1, <2>3 DEF ProcsOK, PhasesOK
    <3>2. procs'[i] = <<[phase |-> "prelive", fate |-> outcome]>>
      <4>1. procs'[i] = WithFate(procs[i], outcome)
        BY <2>1
      <4>2. WithFate(<<[phase |-> "prelive", fate |-> "running"]>>, outcome) =
             <<[phase |-> "prelive", fate |-> outcome]>>
        BY ONLY i \in Invocations, FatesOfHistories, Zenon
      <4> QED
        BY ONLY <3>1, <4>1, <4>2, Zenon
    <3>3. phases'[i] = <<[phase |-> "prelive", outcome |-> outcome]>>
      BY <2>1, <2>3, <3>1, ShortSequences
    <3>4. Agree(procs'[i], phases'[i])
      BY <2>2, <3>2, <3>3, ToldAgreements
    <3>5. pc'[i] # "post_claim" => pc'[i] = "write" /\ phases'[i] = ToldBefore(i)
      BY <2>1, <2>3, <3>1, <3>3 DEF AfterProcess, ToldBefore
    <3> QED
      BY <2>1, <2>3, <3>4, <3>5 DEF PhasesOK
  <2>4. CASE stage[i] = "payload"
    <3>1. Ran(i, "running") /\ phases[i] = ToldBefore(i)
      BY <2>1, <2>4 DEF ProcsOK, PhasesOK
    <3>2. procs'[i] = Append(Before(i), [phase |-> "payload", fate |-> outcome])
      <4>1. procs'[i] = WithFate(procs[i], outcome)
        BY <2>1
      <4>2. WithFate(Append(Before(i), [phase |-> "payload", fate |-> "running"]), outcome) =
             Append(Before(i), [phase |-> "payload", fate |-> outcome])
        BY ONLY i \in Invocations, FatesOfHistories, Zenon
      <4> QED
        BY ONLY <3>1, <4>1, <4>2, Zenon DEF Ran
    <3>3. phases'[i] = Append(ToldBefore(i), [phase |-> "payload", outcome |-> outcome])
      BY <2>1, <2>4, <3>1
    <3>4. Agree(procs'[i], phases'[i])
      BY <2>2, <3>2, <3>3, Agreements
    <3> QED
      BY <2>1, <2>4, <3>3, <3>4 DEF PhasesOK
  <2> QED
    BY <1>2, <2>1, <2>3, <2>4
<1>12. CASE Remeasure(i) \/ RaiseContractError(i)
  <2>1. /\ pc[i] \in TryPcs \ {"start", "running"} /\ stage[i] # "report"
        /\ pc'[i] = "post_claim" /\ UNCHANGED <<phases, procs, stage>>
    BY <1>1, <1>2, <1>12
       DEF Remeasure, RaiseContractError, Trying, NoContractError, Unwind, Goto,
       records, history, TryPcs
  <2> QED
    BY <1>3, <2>1 DEF PhasesOK, TryPcs
<1>13. CASE RaiseUncaught(i)
  <2>1. pc'[i] = "post_claim" /\ error'[i] = "uncaught" /\ stage'[i] = stage[i]
    BY <1>1, <1>13 DEF RaiseUncaught, Unwind, Goto
  <2> QED
    BY <2>1 DEF PhasesOK, TryPcs
<1>14. CASE RaiseOSError(i)
  <2>1. /\ pc[i] \in TryPcs /\ stage[i] # "report" /\ pc'[i] = "post_claim" /\ stage'[i] = stage[i]
        /\ AbandonProcess(i)
        /\ IF PhaseActive(i)
           THEN phases'[i] = Append(phases[i], [phase |-> stage[i], outcome |-> "process_start"])
           ELSE phases'[i] = phases[i]
    BY <1>1, <1>14 DEF RaiseOSError, Trying, Unwind, Goto
  <2>2. SUFFICES Agree(procs'[i], phases'[i])
    BY <2>1 DEF PhasesOK, TryPcs
  <2>3. CASE pc[i] \notin {"start", "running"}
    <3>1. procs'[i] = procs[i] /\ phases'[i] = phases[i]
      BY <2>1, <2>3 DEF AbandonProcess, PhaseActive
    <3> QED
      BY <1>3, <2>1, <2>3, <3>1
  <2>4. CASE pc[i] = "start"
    <3>1. /\ procs'[i] = procs[i]
          /\ phases'[i] = Append(phases[i], [phase |-> stage[i], outcome |-> "process_start"])
      BY <2>1, <2>4 DEF AbandonProcess, PhaseActive
    <3>2. CASE stage[i] = "prelive"
      <4>1. procs[i] = <<>> /\ phases[i] = <<>>
        BY <2>4, <3>2 DEF ProcsOK, PhasesOK
      <4> QED
        BY <3>1, <3>2, <4>1, ShortSequences, FixedAgreements
    <3>3. CASE stage[i] = "payload"
      <4>1. procs[i] = Before(i) /\ phases[i] = ToldBefore(i)
        BY <2>4, <3>3 DEF ProcsOK, PhasesOK
      <4> QED
        BY <3>1, <3>3, <4>1, Agreements
    <3> QED
      BY <1>2, <2>4, <3>2, <3>3
  <2>5. CASE pc[i] = "running"
    <3>1. /\ procs'[i] = WithFate(procs[i], "abandoned")
          /\ phases'[i] = Append(phases[i], [phase |-> stage[i], outcome |-> "process_start"])
      BY <1>1, <2>1, <2>5 DEF AbandonProcess, PhaseActive
    <3>2. Tells("process_start", "abandoned")
      BY DEF Tells
    <3>3. CASE stage[i] = "prelive"
      <4>1. procs[i] = <<[phase |-> "prelive", fate |-> "running"]>> /\ phases[i] = <<>>
        BY <2>5, <3>3 DEF ProcsOK, PhasesOK
      <4>2. procs'[i] = <<[phase |-> "prelive", fate |-> "abandoned"]>>
        <5>1. WithFate(<<[phase |-> "prelive", fate |-> "running"]>>, "abandoned") =
               <<[phase |-> "prelive", fate |-> "abandoned"]>>
          BY ONLY i \in Invocations, FatesOfHistories, Zenon
        <5> QED
          BY ONLY <3>1, <4>1, <5>1, Zenon
      <4>3. phases'[i] = <<[phase |-> "prelive", outcome |-> "process_start"]>>
        BY <3>1, <3>3, <4>1, ShortSequences
      <4> QED
        BY <3>2, <4>2, <4>3, ToldAgreements
    <3>4. CASE stage[i] = "payload"
      <4>1. Ran(i, "running") /\ phases[i] = ToldBefore(i)
        BY <2>5, <3>4 DEF ProcsOK, PhasesOK
      <4>2. procs'[i] = Append(Before(i), [phase |-> "payload", fate |-> "abandoned"])
        <5>1. WithFate(Append(Before(i), [phase |-> "payload", fate |-> "running"]), "abandoned") =
               Append(Before(i), [phase |-> "payload", fate |-> "abandoned"])
          BY ONLY i \in Invocations, FatesOfHistories, Zenon
        <5> QED
          BY ONLY <3>1, <4>1, <5>1, Zenon DEF Ran
      <4>3. phases'[i] = Append(ToldBefore(i), [phase |-> "payload", outcome |-> "process_start"])
        BY <3>1, <3>4, <4>1
      <4> QED
        BY <3>2, <4>2, <4>3, Agreements
    <3> QED
      BY <1>2, <2>5, <3>3, <3>4
  <2> QED
    BY <2>3, <2>4, <2>5
<1>15. CASE VerifyAfterwards(i) \/ RemoveTree(i)
  <2>1. /\ pc[i] \in {"post_claim", "cleanup"} /\ pc'[i] \in {"cleanup", "conclude"}
        /\ error[i] = "uncaught" => error'[i] = "uncaught"
        /\ UNCHANGED <<stage, phases, procs>>
    BY <1>1, <1>15 DEF VerifyAfterwards, RemoveTree, NoteFailure, Goto, history
  <2> QED
    BY <1>2, <2>1 DEF PhasesOK, TryPcs
<1>16. CASE Conclude(i)
  <2>1. /\ pc[i] = "conclude" /\ UNCHANGED <<error, phases, procs>>
        /\ \/ pc'[i] = "ended" /\ stage'[i] = stage[i]
           \/ pc'[i] = "write" /\ stage'[i] = "report"
    BY <1>1, <1>16 DEF Conclude, Goto, history
  <2> QED
    BY <1>2, <2>1 DEF PhasesOK, TryPcs
<1> QED
  BY Locality, <1>4, <1>5, <1>6, <1>7, <1>8, <1>9, <1>10, <1>11, <1>12, <1>13, <1>14, <1>15,
     <1>16 DEF IInv, Own, Step

LEMMA HistoryInit == Init => HInv
<1> SUFFICES ASSUME Init PROVE HInv
  OBVIOUS
<1>1. IInv
  BY InitIsTyped
<1>2. ASSUME NEW i \in Invocations PROVE HistoryOK(i)
  <2>1. procs[i] = <<>> /\ ~PayloadLaunched(i) /\ pc[i] = "idle" /\ stage[i] = "journal"
    BY Histories DEF Init
  <2>2. /\ Journal[i] \in Journals /\ i # Nobody
        /\ \A d \in Docs : primary[Journal[i]][d] = Nobody /\ sidecar[Journal[i]][d] = Nobody
    BY GovernedAssumption DEF Init, GovernedAssumption
  <2>3. ProcsOK(i)
    BY <2>1 DEF ProcsOK
  <2>4. BoundaryOK(i)
    BY <2>1 DEF BoundaryOK, Init
  <2>5. ReportOK(i)
    BY <2>1, <2>2 DEF ReportOK, Init, Docs
  <2>6. RequestsOK(i)
    BY DEF RequestsOK, Init
  <2>7. PhasesOK(i)
    BY <2>1 DEF PhasesOK, Init
  <2> QED
    BY <2>3, <2>4, <2>5, <2>6, <2>7 DEF HistoryOK
<1>3. ClockOK
  BY DEF ClockOK, Init
<1> QED
  BY <1>1, <1>2, <1>3 DEF HInv

LEMMA HistoryStep == HInv /\ [Next]_vars => HInv'
<1> SUFFICES ASSUME HInv, [Next]_vars PROVE HInv'
  OBVIOUS
<1>1. IInv'
  BY TypeStep, ControlStep, JournalStep, ClaimsStep DEF HInv, IInv
<1>2. ASSUME NEW i \in Invocations PROVE HistoryOK(i)'
  BY <1>2, ProcsStep, BoundaryStep, ReportStep, PhasesStep, RequestsStep DEF HInv, HistoryOK
<1>3. ClockOK'
  BY ClockStep DEF HInv
<1> QED
  BY <1>1, <1>2, <1>3 DEF HInv

(* HInv holds in every reachable state.                                    *)
THEOREM HistoryInvariance == Spec => []HInv
<1>1. HInv /\ [Next]_vars => HInv'
  BY HistoryStep
<1> QED
  BY <1>1, HistoryInit, PTL DEF Spec

-----------------------------------------------------------------------------
(* What follows from it.                                                   *)

(* A live payload has a completed projection before it, whose artifact and *)
(* sidecar of the same invocation are in place.                            *)
THEOREM LivePayloadsAreProjected == Spec => []ProjectionPrecedesLivePayload
<1>1. HInv => ProjectionPrecedesLivePayload
  <2> SUFFICES ASSUME HInv, NEW i \in Invocations, PayloadLaunched(i), Live[i]
               PROVE  /\ procs[i][1] = [phase |-> "prelive", fate |-> "ok"]
                      /\ Projected(i)
    BY DEF ProjectionPrecedesLivePayload, Projected
  <2>1. PICK fate \in Fates : Ran(i, fate) /\ Projected(i)
    BY DEF HInv, HistoryOK, ProcsOK
  <2>2. procs[i] = <<[phase |-> "prelive", fate |-> "ok"], [phase |-> "payload", fate |-> fate]>>
    BY <2>1, ShortSequences DEF Ran, Before
  <2> QED
    BY <2>1, <2>2
<1> QED
  BY <1>1, HistoryInvariance, PTL

(* The boundary before a payload has read a clock that is inside all its   *)
(* windows and not before any of its claims.                               *)
THEOREM PayloadsStartWithinWindows == Spec => []ClaimedWithinWindow
<1>1. HInv => ClaimedWithinWindow
  <2> SUFFICES ASSUME HInv, NEW i \in Invocations, PayloadLaunched(i)
               PROVE  /\ Auth[i].from <= observed[i] /\ observed[i] < Auth[i].to
                      /\ \A a \in NeededSet(i) :
                           /\ Window[a].from - Skew <= observed[i]
                           /\ claimTime[a] <= observed[i] /\ observed[i] < Window[a].to
    BY DEF ClaimedWithinWindow
  <2>1. Judged(i)
    BY DEF HInv, HistoryOK, BoundaryOK
  <2>2. observed[i] \in Nat /\ Skew \in Nat
    BY GovernedAssumption DEF HInv, IInv, TypeOK, GovernedAssumption
  <2>3. ASSUME NEW a \in NeededSet(i) PROVE Window[a].from \in Nat
    BY GovernedAssumption, NeededIsAnApproval DEF GovernedAssumption, NeededSet, Windows
  <2> QED
    BY <2>1, <2>2, <2>3 DEF Judged, WithinAuthorization, Current
<1> QED
  BY <1>1, HistoryInvariance, PTL

(* No payload is created when one of the inputs that its boundary verifies *)
(* had changed before that boundary began.                                 *)
THEOREM TamperingStopsPayloads == Spec => []TamperStopsPayload
<1>1. HInv => TamperStopsPayload
  BY DEF HInv, HistoryOK, BoundaryOK, Judged, TamperStopsPayload
<1> QED
  BY <1>1, HistoryInvariance, PTL

(* A final record that says SUCCEEDED has everything behind it that the    *)
(* word stands for.                                                        *)
THEOREM SuccessesAreEarned == Spec => []SuccessIsEarned
<1>1. HInv => SuccessIsEarned
  <2> SUFFICES ASSUME HInv, NEW i \in Invocations, status[i] = "SUCCEEDED"
               PROVE  /\ procs[i] = Before(i) \o <<[phase |-> "payload", fate |-> "ok"]>>
                      /\ \A a \in NeededSet(i) : claimedBy[a] = i
                      /\ exitTaint[i] \cap FinalInputs = {}
                      /\ Artifact[i] => sidecar[Journal[i]]["artifact"] = i
                      /\ listed[i] = (Len(Needed[i]) > 1)
                      /\ ~tree[i]
    BY DEF SuccessIsEarned, Before, FinalInputs
  <2>1. stage[i] = "report" /\ ExecutionStatus(i) = "SUCCEEDED"
    BY DEF HInv, HistoryOK, ReportOK
  <2>2. ~tree[i] /\ error[i] = "none"
    BY <2>1 DEF ExecutionStatus
  <2>3. Passed(i)
    BY <2>1, <2>2 DEF HInv, HistoryOK, ReportOK
  <2>4. procs[i] = Before(i) \o <<[phase |-> "payload", fate |-> "ok"]>>
    <3>1. [phase |-> "payload", fate |-> "ok"] \in Proc /\ Before(i) \in Seq(Proc)
      <4>1. /\ [phase |-> "payload", fate |-> "ok"] \in Proc
            /\ [phase |-> "prelive", fate |-> "ok"] \in Proc
        BY DEF Proc, Stages, Fates, Outcomes
      <4> QED
        BY <4>1 DEF Before
    <3> QED
      BY <2>3, <3>1, AppendIsConcat DEF Passed, Ran
  <2>5. \A a \in NeededSet(i) : claimedBy[a] = i
    <3>1. PayloadLaunched(i)
      BY <2>3, Histories DEF Passed
    <3> QED
      BY <3>1 DEF HInv, IInv, ClaimsOK, NeededSet
  <2> QED
    BY <2>2, <2>3, <2>4, <2>5 DEF Passed
<1> QED
  BY <1>1, HistoryInvariance, PTL

(* The phases of a complete final record are those of the processes that   *)
(* existed, in their order and with their true outcome.                    *)
THEOREM PhasesAreTrue == Spec => []PhasesTellWhatRan
<1>1. HInv => PhasesTellWhatRan
  <2> SUFFICES ASSUME HInv, NEW i \in Invocations, Recorded(i)
               PROVE  Agree(procs[i], phases[i])
    BY DEF PhasesTellWhatRan, Agree
  <2> QED
    BY DEF HInv, HistoryOK, ReportOK, PhasesOK, Recorded
<1> QED
  BY <1>1, HistoryInvariance, PTL

(* A private tree that is still there when the final record is complete    *)
(* has that record say so.                                                 *)
THEOREM RetainedTreesAreReported == Spec => []RetainedTreeIsReported
<1>1. HInv => RetainedTreeIsReported
  BY DEF HInv, HistoryOK, ReportOK, RetainedTreeIsReported, Recorded, ExecutionStatus
<1> QED
  BY <1>1, HistoryInvariance, PTL

-----------------------------------------------------------------------------
(* The refinement.                                                         *)

LEMMA OneShotInit == Init => OneShot!Init
<1> SUFFICES ASSUME Init PROVE OneShot!Init
  OBVIOUS
<1>1. [j \in Journals |-> primary[j]["started"]] = [j \in Journals |-> Nobody]
  BY DEF Init, Docs
<1>2. {i \in Invocations : PayloadLaunched(i)} = {}
  BY Histories DEF Init
<1>3. [i \in Invocations |-> Verdict(i)] = [i \in Invocations |-> "NONE"]
  BY GovernedAssumption DEF Init, Docs, Verdict, GovernedAssumption
<1> QED
  BY <1>1, <1>2, <1>3 DEF OneShot!Init, Init

(* A verdict appears when its record is created and stays as it is.        *)
LEMMA VerdictStep ==
  ASSUME HInv, [Next]_vars, NEW i \in Invocations, ~CreateRecord(i)
  PROVE  Verdict(i)' = Verdict(i)
<1>1. primary'[Journal[i]]["result"] = i <=> primary[Journal[i]]["result"] = i
  BY WrittenByItself, SharedIsKept DEF HInv, IInv, Docs
<1>2. ASSUME primary[Journal[i]]["result"] = i PROVE status'[i] = status[i]
  <2>1. pc[i] \in {"sidecar", "ended", "escaped", "killed"}
    BY <1>2 DEF HInv, HistoryOK, ReportOK
  <2>2. CASE Alone(i)
    BY <2>2 DEF Alone
  <2>3. CASE Own(i)
    BY <2>1, <2>3 DEF Own, Step, Admit, RefuseAdmission, PinInputs, Probe, CreateRecord,
       CreateSidecar, OpenBoundary, Revalidate, SendClaim, ReceiveReply, StartProcess,
       ProcessReturns, ReadBack, Remeasure, RaiseContractError, RaiseOSError, VerifyAfterwards,
       RemoveTree, Conclude, ReportFails, RaiseUncaught, EscapeTry, Kill, Tamper, records
  <2> QED
    BY Locality, <2>2, <2>3 DEF HInv, IInv
<1>3. CASE primary[Journal[i]]["result"] = i
  BY <1>1, <1>2, <1>3 DEF Verdict
<1>4. CASE primary[Journal[i]]["result"] # i
  BY <1>1, <1>4 DEF Verdict
<1> QED
  BY <1>3, <1>4

(* What an action of OneShotExecution can see, when no record is created,  *)
(* no payload is started and the broker does nothing.                      *)
LEMMA QuietStep ==
  ASSUME [Next]_vars, \A i \in Invocations : ~CreateRecord(i),
         \A i \in Invocations, a \in Approvals : ~BrokerHandles(i, a)
  PROVE  primary' = primary /\ claimedBy' = claimedBy
<1>1. ASSUME NEW k \in Invocations, Own(k) PROVE primary' = primary /\ claimedBy' = claimedBy
  BY <1>1 DEF Own, Step, Admit, RefuseAdmission, PinInputs, Probe, CreateSidecar,
     OpenBoundary, Revalidate, SendClaim, ReceiveReply, StartProcess, ProcessReturns,
     ReadBack, Remeasure, RaiseContractError, RaiseOSError, VerifyAfterwards, RemoveTree,
     Conclude, ReportFails, RaiseUncaught, EscapeTry, Kill, Tamper, evidence, store
<1>2. CASE Tick \/ UNCHANGED vars \/ \E a \in Approvals : Mark(a)
  BY <1>2 DEF Tick, Mark, vars, evidence, store
<1> QED
  BY <1>1, <1>2 DEF Next, Own

LEMMA OneShotStep == HInv /\ [Next]_vars => [OneShot!Next]_(OneShot!oneShotVars)
<1> SUFFICES ASSUME HInv, [Next]_vars PROVE [OneShot!Next]_(OneShot!oneShotVars)
  OBVIOUS
<1> DEFINE Slotted == [j \in Journals |-> primary[j]["started"]]
           Ranned  == {i \in Invocations : PayloadLaunched(i)}
           Told    == [i \in Invocations |-> Verdict(i)]
<1>1. /\ primary \in [Journals -> [Docs -> Invocations \cup {Nobody}]]
      /\ Journal \in [Invocations -> Journals] /\ Nobody \notin Invocations
      /\ claimedBy \in [Approvals -> Invocations \cup {Nobody}]
  BY GovernedAssumption DEF HInv, IInv, TypeOK, GovernedAssumption
<1>2. CASE \E i \in Invocations : CreateRecord(i)
  <2>1. PICK i \in Invocations : CreateRecord(i)
    BY <1>2
  <2>2. /\ pc[i] = "write" /\ primary[Journal[i]][Doc(i)] = Nobody
        /\ primary' = [primary EXCEPT ![Journal[i]][Doc(i)] = i]
        /\ claimedBy' = claimedBy /\ procs' = procs /\ status' = status
    BY <2>1 DEF CreateRecord, NameTaken, store, records, history
  <2>3. Ranned' = Ranned
    BY <2>2 DEF PayloadLaunched, Launched
  <2>4. CASE Doc(i) = "started"
    <3>1. Slotted' = [Slotted EXCEPT ![Journal[i]] = i] /\ Slotted[Journal[i]] = Nobody
      BY <1>1, <2>2, <2>4 DEF Docs
    <3>2. Told' = Told
      BY <1>1, <2>2, <2>4 DEF Verdict, Docs
    <3> QED
      BY <2>2, <2>3, <3>1, <3>2 DEF OneShot!Next, OneShot!Reserve
  <2>5. CASE Doc(i) = "result"
    <3>1. Slotted' = Slotted
      BY <1>1, <2>2, <2>5 DEF Docs
    <3>2. stage[i] = "report"
      BY <2>5 DEF Doc
    <3>3. Slotted[Journal[i]] = i
      BY <1>1, <3>2 DEF HInv, IInv, JournalOK
    <3>4. /\ Told[i] = "NONE"
          /\ Told' = [Told EXCEPT ![i] = IF status[i] = "SUCCEEDED" THEN "SUCCEEDED"
                                                                    ELSE "NOT_SUCCEEDED"]
      <4>1. primary[Journal[i]]["result"] = Nobody /\ primary'[Journal[i]]["result"] = i
        BY <1>1, <2>2, <2>5 DEF Docs
      <4>2. Verdict(i) = "NONE"
        BY <1>1, <4>1 DEF Verdict
      <4>3. Verdict(i)' = IF status[i] = "SUCCEEDED" THEN "SUCCEEDED" ELSE "NOT_SUCCEEDED"
        BY <2>2, <4>1 DEF Verdict
      <4>4. ASSUME NEW k \in Invocations, k # i PROVE Verdict(k)' = Verdict(k)
        <5>1. primary'[Journal[k]]["result"] = k <=> primary[Journal[k]]["result"] = k
          BY <1>1, <2>2, <2>5, <4>1, <4>4 DEF Docs
        <5>2. CASE primary[Journal[k]]["result"] = k
          BY <2>2, <5>1, <5>2 DEF Verdict
        <5>3. CASE primary[Journal[k]]["result"] # k
          BY <5>1, <5>3 DEF Verdict
        <5> QED
          BY <5>2, <5>3
      <4> QED
        BY <4>2, <4>3, <4>4
    <3>5. status[i] = "SUCCEEDED" => i \in Ranned
      <4>1. status[i] = "SUCCEEDED" => Passed(i)
        BY <3>2 DEF HInv, HistoryOK, ReportOK, ExecutionStatus
      <4> QED
        BY <4>1, Histories DEF Passed
    <3> QED
      BY <2>2, <2>3, <3>1, <3>3, <3>4, <3>5
         DEF OneShot!Next, OneShot!Publish, OneShot!Verdicts
  <2>6. CASE Doc(i) \notin {"started", "result"}
    <3>1. Slotted' = Slotted /\ Told' = Told
      BY <1>1, <2>2, <2>6, DocIsADoc DEF Verdict, Docs
    <3> QED
      BY <2>2, <2>3, <3>1 DEF OneShot!oneShotVars
  <2> QED
    BY <2>4, <2>5, <2>6
<1>3. CASE \E i \in Invocations : StartProcess(i) /\ stage[i] = "payload"
  <2>1. PICK i \in Invocations : StartProcess(i) /\ stage[i] = "payload"
    BY <1>3
  <2>2. /\ pc[i] = "start" /\ primary' = primary /\ claimedBy' = claimedBy /\ status' = status
        /\ \A k \in Invocations : k # i => procs'[k] = procs[k]
    BY <2>1 DEF StartProcess, evidence, store, records, HInv, IInv, TypeOK
  <2>3. Slotted' = Slotted /\ Told' = Told
    BY <2>2 DEF Verdict
  <2>4. ~PayloadLaunched(i) /\ PayloadLaunched(i)'
    <3>1. ~PayloadLaunched(i)
      BY <2>1, <2>2, Histories DEF HInv, HistoryOK, ProcsOK
    <3>2. procs'[i] = Append(procs[i], [phase |-> "payload", fate |-> "running"])
      BY <2>1 DEF StartProcess, HInv, IInv, TypeOK
    <3>3. Ran(i, "running")'
      BY <2>1, <2>2, <3>2 DEF HInv, HistoryOK, ProcsOK, Ran
    <3> QED
      BY <3>1, <3>3, RanNext
  <2>5. Ranned' = Ranned \cup {i} /\ i \notin Ranned
    BY <2>2, <2>4 DEF PayloadLaunched, Launched
  <2>6. Slotted[Journal[i]] = i
    BY <1>1, <2>1 DEF HInv, IInv, JournalOK
  <2>7. \A a \in NeededSet(i) : claimedBy[a] = i
    BY <2>1 DEF HInv, IInv, TypeOK, ClaimsOK, NeededSet
  <2>8. Told[i] = "NONE"
    <3>1. primary[Journal[i]]["result"] # i
      BY <2>2 DEF HInv, HistoryOK, ReportOK
    <3> QED
      BY <3>1 DEF Verdict
  <2> QED
    BY <2>2, <2>3, <2>5, <2>6, <2>7, <2>8 DEF OneShot!Next, OneShot!Run
<1>4. CASE \E i \in Invocations, a \in Approvals : BrokerHandles(i, a)
  <2>1. PICK i \in Invocations, a \in Approvals : BrokerHandles(i, a)
    BY <1>4
  <2>2. /\ primary' = primary /\ procs' = procs /\ status' = status /\ <<i, a>> \in requests
        /\ IF Burned(a) THEN claimedBy' = claimedBy
                        ELSE claimedBy' = [claimedBy EXCEPT ![a] = i]
    BY <2>1 DEF BrokerHandles, evidence, records, history
  <2>3. Slotted' = Slotted /\ Told' = Told /\ Ranned' = Ranned
    BY <2>2 DEF Verdict, PayloadLaunched, Launched
  <2>4. CASE Burned(a)
    BY <2>2, <2>3, <2>4 DEF OneShot!oneShotVars
  <2>5. CASE ~Burned(a)
    <3>1. Slotted[Journal[i]] = i /\ a \in NeededSet(i)
      BY <1>1, <2>2 DEF HInv, IInv, JournalOK, HistoryOK, RequestsOK
    <3> QED
      BY <2>2, <2>3, <2>5, <3>1 DEF OneShot!Next, OneShot!Burn, Burned
  <2> QED
    BY <2>4, <2>5
<1>5. CASE /\ \A i \in Invocations : ~CreateRecord(i) /\ ~(StartProcess(i) /\ stage[i] = "payload")
           /\ \A i \in Invocations, a \in Approvals : ~BrokerHandles(i, a)
  <2>1. primary' = primary /\ claimedBy' = claimedBy
    BY <1>5, QuietStep
  <2>2. \A i \in Invocations : PayloadLaunched(i)' <=> PayloadLaunched(i)
    BY <1>5, LaunchStep DEF HInv
  <2>3. \A i \in Invocations : Verdict(i)' = Verdict(i)
    BY <1>5, VerdictStep
  <2>4. Slotted' = Slotted /\ Told' = Told /\ Ranned' = Ranned
    BY <2>1, <2>2, <2>3
  <2> QED
    BY <2>1, <2>4 DEF OneShot!oneShotVars
<1> QED
  BY <1>2, <1>3, <1>4, <1>5

(* Whatever the invocations, the broker and the environment do, an outside *)
(* observer sees attempts reserved once, approvals burned once, payloads   *)
(* run once under all their approvals, and verdicts published once.        *)
THEOREM RecorderIsOneShot == Spec => ImplementsOneShot
<1>1. HInv /\ [Next]_vars => [OneShot!Next]_(OneShot!oneShotVars)
  BY OneShotStep
<1> QED
  BY <1>1, OneShotInit, HistoryInvariance, PTL DEF Spec, ImplementsOneShot, OneShot!Spec

(* What one-shot execution is for: two payloads never run for one          *)
(* execution ID in one evidence directory, nor under a common approval,    *)
(* and no verdict of success appears without a payload.                    *)
THEOREM PayloadsExcludeEachOther == Spec => []OneShot!PayloadsAreExclusive
<1>1. HInv => OneShot!PayloadsAreExclusive
  <2> SUFFICES ASSUME HInv PROVE OneShot!PayloadsAreExclusive
    OBVIOUS
  <2>1. ASSUME NEW i \in Invocations, NEW j \in Invocations, i # j,
               PayloadLaunched(i), PayloadLaunched(j)
        PROVE  Journal[i] # Journal[j] /\ NeededSet(i) \cap NeededSet(j) = {}
    <3>1. \A k \in Invocations : PayloadLaunched(k) => primary[Journal[k]]["started"] = k
      <4>1. \A k \in Invocations : PayloadLaunched(k) => procs[k] # <<>>
        BY DEF PayloadLaunched, Launched
      <4> QED
        BY <4>1 DEF HInv, IInv, JournalOK
    <3>2. \A k \in Invocations : PayloadLaunched(k) => \A a \in NeededSet(k) : claimedBy[a] = k
      BY DEF HInv, IInv, ClaimsOK, NeededSet
    <3> QED
      BY <2>1, <3>1, <3>2
  <2>2. ASSUME NEW i \in Invocations, Verdict(i) = "SUCCEEDED"
        PROVE  PayloadLaunched(i)
    <3>1. primary[Journal[i]]["result"] = i /\ status[i] = "SUCCEEDED"
      BY <2>2 DEF Verdict
    <3>2. stage[i] = "report" /\ ExecutionStatus(i) = "SUCCEEDED"
      BY <3>1 DEF HInv, HistoryOK, ReportOK
    <3>3. ~tree[i] /\ error[i] = "none"
      BY <3>2 DEF ExecutionStatus
    <3>4. Passed(i)
      BY <3>2, <3>3 DEF HInv, HistoryOK, ReportOK
    <3> QED
      BY <3>4, Histories DEF Passed
  <2> QED
    BY <2>1, <2>2 DEF OneShot!PayloadsAreExclusive
<1> QED
  BY <1>1, HistoryInvariance, PTL

=============================================================================
