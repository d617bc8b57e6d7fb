------------------------ MODULE GovernedEventsProofs ------------------------
EXTENDS GovernedEvents, SequenceTheorems, FiniteSetTheorems, TLAPS

Results == [task : Tasks, host : Hosts, status : Statuses, payload : Payloads]

Recaps == [type : {"recap"}, hosts : UNION {[D -> [Statuses -> Nat]] : D \in SUBSET Hosts}]

Lines == {ArtifactEvent(r) : r \in Results} \cup Recaps

(* How far the process and the recorder have come: a play has one event a  *)
(* result and one recap at most, and only a playbook has results.          *)
ProgressOK ==
  /\ action \in Actions /\ exited \in {"running", "zero", "other"}
  /\ pc \in {"play", "exit", "parse", "recap", "artifact", "accepted", "refused"}
  /\ results \in Seq(Results) /\ Len(results) <= MaxResults
  /\ stdout \in Seq(Lines) /\ recaps \in Seq(Lines) /\ artifacts \in Seq(Lines)
  /\ Len(stdout) <= Len(results) + (IF pc = "play" THEN 0 ELSE 1)
  /\ line \in Nat \ {0} /\ line <= Len(stdout) + 1
  /\ Len(recaps) + Len(artifacts) < line
  /\ pc \in {"play", "exit"} => line = 1 /\ artifacts = <<>> /\ recaps = <<>>
  /\ pc \in {"recap", "artifact", "accepted"} => line = Len(stdout) + 1
  /\ pc \in {"parse", "recap", "artifact", "accepted"} => exited = "zero"
  /\ action.mode # "playbook" => results = <<>>
  /\ artifact # None => pc = "accepted"

(* What a line of the output says: a listed task has succeeded and its     *)
(* payload shows no secret-bearing key, or the play is over with these     *)
(* counts.                                                                 *)
ArtifactLine(e) ==
  \E i \in DOMAIN results : /\ Emits(results[i]) /\ SafePayload(results[i].payload)
                            /\ e = ArtifactEvent(results[i])
RecapLine(e) == e = Recap /\ pc # "play"
LineOK(e) == \/ e.type = "artifact" /\ ArtifactLine(e)
             \/ e.type = "recap" /\ RecapLine(e)
             \/ e.type = "artifact_rejected"

LinesOK == \A j \in DOMAIN stdout : LineOK(stdout[j])

(* What the recorder has taken up: each recap is that of the play, and the *)
(* artifacts are those of the lines it has read, one for one.              *)
TakenOK ==
  /\ \A k \in DOMAIN recaps : recaps[k].type = "recap" /\ RecapLine(recaps[k])
  /\ \A k \in DOMAIN artifacts : RejectsSecrets(artifacts[k].payload)
  /\ \E at \in [DOMAIN artifacts -> 1..line - 1] :
       /\ \A k \in DOMAIN artifacts : artifacts[k] = stdout[at[k]] /\ artifacts[k].type = "artifact"
       /\ \A j \in 1..line - 1 : stdout[j].type = "artifact" => \E k \in DOMAIN artifacts : at[k] = j

JudgedOK == pc \in {"artifact", "accepted"} => RecapAccepted

IInv == ProgressOK /\ LinesOK /\ TakenOK /\ JudgedOK /\ ArtifactIsGenuine

-----------------------------------------------------------------------------
(* Lemmas about results and lines.                                         *)

(* The tasks of a host with a status are finitely many, so that a count of *)
(* zero says that there is none.                                           *)
LEMMA Counting ==
  ASSUME results \in Seq(Results), NEW h, NEW s
  PROVE  /\ Count(h, s) \in Nat
         /\ Count(h, s) = 0 => \A i \in DOMAIN results :
                                 ~(results[i].host = h /\ results[i].status = s)
<1> DEFINE S == {i \in DOMAIN results : results[i].host = h /\ results[i].status = s}
<1>1. IsFiniteSet(1..Len(results))
  BY FS_Interval, LenProperties
<1>2. IsFiniteSet(S)
  <2>1. S \subseteq 1..Len(results)
    BY LenProperties
  <2>. QED BY ONLY <1>1, <2>1, FS_Subset
<1>3. Cardinality(S) \in Nat /\ (Cardinality(S) = 0 => S = {})
  BY ONLY <1>2, FS_CardinalityType, FS_EmptySet
<1>4. Count(h, s) = Cardinality(S)
  BY DEF Count
<1>. QED BY ONLY <1>3, <1>4

LEMMA RecapIsALine ==
  ASSUME results \in Seq(Results)
  PROVE  Recap \in Lines /\ Recap.type = "recap" /\ DOMAIN Recap.hosts = Processed
<1>1. Processed \subseteq Hosts
  <2>1. \A i \in DOMAIN results : results[i] \in Results
    BY ElementOfSeq, LenProperties
  <2>. QED BY <2>1 DEF Processed, Results
<1>2. ASSUME NEW h \in Processed
      PROVE  [s \in Statuses |-> Count(h, s)] \in [Statuses -> Nat]
  <2>1. \A s \in Statuses : Count(h, s) \in Nat
    BY ONLY results \in Seq(Results), Counting
  <2>. QED BY ONLY <2>1
<1>3. [h \in Processed |-> [s \in Statuses |-> Count(h, s)]] \in [Processed -> [Statuses -> Nat]]
  BY ONLY <1>2
<1>4. Recap.type = "recap" /\ Recap.hosts = [h \in Processed |-> [s \in Statuses |-> Count(h, s)]]
  BY DEF Recap
<1>5. Recap.hosts \in UNION {[D -> [Statuses -> Nat]] : D \in SUBSET Hosts}
  BY ONLY <1>1, <1>3, <1>4
<1>6. Recap \in Recaps
  BY <1>5 DEF Recap, Recaps
<1>. QED BY ONLY <1>3, <1>4, <1>6 DEF Lines

(* An event of the callback says whose it is.                              *)
LEMMA Events ==
  ASSUME NEW r
  PROVE  /\ ArtifactEvent(r).type \in {"artifact", "artifact_rejected"}
         /\ ArtifactEvent(r).type = "artifact" <=> SafePayload(r.payload)
         /\ SafePayload(r.payload) => /\ ArtifactEvent(r).payload = r.payload
                                      /\ ArtifactEvent(r).task = r.task
                                      /\ ArtifactEvent(r).artifact_type = SafeTasks[r.task]
BY DEF ArtifactEvent

-----------------------------------------------------------------------------
(* What a step that leaves the lines alone keeps.                          *)

LEMMA LinesKept ==
  ASSUME LinesOK, UNCHANGED <<results, stdout>>, pc # "play" => pc' # "play"
  PROVE  LinesOK'
<1>1. Recap' = Recap
  BY DEF Recap, Processed, Count
<1>2. \A e : LineOK(e) => LineOK(e)'
  BY <1>1 DEF LineOK, ArtifactLine, RecapLine
<1>. QED BY <1>2 DEF LinesOK

LEMMA TakenKept ==
  ASSUME TakenOK, UNCHANGED <<results, stdout, recaps, artifacts, line>>, pc # "play" => pc' # "play"
  PROVE  TakenOK'
<1>1. Recap' = Recap
  BY DEF Recap, Processed, Count
<1>. QED BY <1>1 DEF TakenOK, RecapLine

LEMMA GenuineKept ==
  ASSUME ArtifactIsGenuine, artifact' = artifact,
         artifact # None => UNCHANGED <<results, stdout, action>>
  PROVE  ArtifactIsGenuine'
BY DEF ArtifactIsGenuine

LEMMA JudgedKept ==
  ASSUME JudgedOK, UNCHANGED <<recaps, action>>,
         pc' \in {"artifact", "accepted"} => pc \in {"artifact", "accepted"}
  PROVE  JudgedOK'
BY DEF JudgedOK, RecapAccepted, CountersAccepted

(* A refusal keeps everything.                                             *)
LEMMA RaiseKeeps ==
  ASSUME IInv, Raise, pc # "play", artifact = None
  PROVE  IInv'
<1> USE DEF IInv, Raise
<1>1. ProgressOK'
  BY DEF ProgressOK
<1>2. LinesOK'
  BY LinesKept
<1>3. TakenOK'
  BY TakenKept
<1>4. JudgedOK'
  BY JudgedKept
<1>5. ArtifactIsGenuine'
  BY GenuineKept
<1>. QED BY <1>1, <1>2, <1>3, <1>4, <1>5

-----------------------------------------------------------------------------
(* The process.                                                            *)

(* A line that is shown is one more line or none.                          *)
LEMMA Shown ==
  ASSUME stdout \in Seq(Lines), NEW event \in Lines, Display(event)
  PROVE  /\ stdout' \in Seq(Lines) /\ Len(stdout') \in {Len(stdout), Len(stdout) + 1}
         /\ \A j \in DOMAIN stdout' :
              \/ j \in DOMAIN stdout /\ stdout'[j] = stdout[j]
              \/ stdout'[j] = event
BY AppendProperties, LenProperties DEF Display

LEMMA RunTaskStep ==
  ASSUME IInv, RunTask
  PROVE  IInv'
<1> USE DEF IInv
<1>1. PICK t \in Tasks, h \in Hosts, s \in Statuses, p \in Payloads :
        LET r == [task |-> t, host |-> h, status |-> s, payload |-> p]
        IN /\ results' = Append(results, r)
           /\ IF Emits(r) THEN Display(ArtifactEvent(r)) ELSE UNCHANGED stdout
  BY DEF RunTask
<1> DEFINE r == [task |-> t, host |-> h, status |-> s, payload |-> p]
<1>2. /\ pc = "play" /\ action.mode = "playbook" /\ Len(results) < MaxResults
      /\ UNCHANGED <<action, exited, pc, line, recaps, artifacts, artifact>>
      /\ artifact = None
  BY DEF RunTask, ProgressOK
<1>3. r \in Results
  BY DEF Results
<1>4. results \in Seq(Results) /\ stdout \in Seq(Lines)
  BY DEF ProgressOK
<1>5. /\ results' \in Seq(Results) /\ Len(results') = Len(results) + 1
      /\ \A i \in DOMAIN results : i \in DOMAIN results' /\ results'[i] = results[i]
      /\ Len(results') \in DOMAIN results' /\ results'[Len(results')] = r
  BY <1>1, <1>3, <1>4, AppendProperties, LenProperties
<1>6. ArtifactEvent(r) \in Lines
  BY <1>3 DEF Lines
<1>7. /\ stdout' \in Seq(Lines) /\ Len(stdout') \in {Len(stdout), Len(stdout) + 1}
      /\ \A j \in DOMAIN stdout' :
           \/ j \in DOMAIN stdout /\ stdout'[j] = stdout[j]
           \/ stdout'[j] = ArtifactEvent(r) /\ Emits(r)
  <2>1. CASE Emits(r)
    BY <1>1, <1>4, <1>6, <2>1, Shown
  <2>2. CASE ~Emits(r)
    BY <1>1, <1>4, <2>2, LenProperties
  <2>. QED BY <2>1, <2>2
<1> HIDE DEF r
<1>8. ProgressOK'
  BY <1>2, <1>5, <1>7, LenProperties, GovernedEventsAssumption DEF ProgressOK
<1>9. LinesOK'
  <2> SUFFICES ASSUME NEW j \in DOMAIN stdout' PROVE LineOK(stdout[j])'
    BY DEF LinesOK
  <2>1. CASE j \in DOMAIN stdout /\ stdout'[j] = stdout[j]
    <3>1. LineOK(stdout[j])
      BY <2>1 DEF LinesOK
    <3>. QED BY <1>2, <1>5, <2>1, <3>1 DEF LineOK, ArtifactLine, RecapLine
  <2>2. CASE stdout'[j] = ArtifactEvent(r) /\ Emits(r)
    <3>1. stdout'[j].type = "artifact" => ArtifactLine(stdout[j])'
      BY <1>5, <2>2, Events DEF ArtifactLine
    <3>. QED BY <2>2, <3>1, Events DEF LineOK
  <2>. QED BY <1>7, <2>1, <2>2
<1>10. TakenOK'
  <2>1. artifacts = <<>> /\ recaps = <<>> /\ line = 1
    BY <1>2 DEF ProgressOK
  <2>2. /\ recaps' = <<>> /\ artifacts' = <<>> /\ line' = 1
        /\ DOMAIN recaps' = {} /\ DOMAIN artifacts' = {} /\ 1..line' - 1 = {}
    BY <1>2, <2>1
  <2>3. [k \in {} |-> 0] \in [DOMAIN artifacts' -> 1..line' - 1]
    BY <2>2
  <2>. QED BY ONLY <2>2, <2>3 DEF TakenOK
<1>11. JudgedOK'
  BY <1>2 DEF JudgedOK
<1>12. ArtifactIsGenuine'
  BY <1>2 DEF ArtifactIsGenuine
<1>. QED BY <1>8, <1>9, <1>10, <1>11, <1>12

LEMMA EndPlayStep ==
  ASSUME IInv, EndPlay
  PROVE  IInv'
<1> USE DEF IInv
<1>1. /\ pc = "play" /\ pc' = "exit" /\ artifact = None
      /\ UNCHANGED <<action, results, exited, line, recaps, artifacts, artifact>>
      /\ results \in Seq(Results) /\ stdout \in Seq(Lines)
      /\ artifacts = <<>> /\ recaps = <<>> /\ line = 1
  BY DEF EndPlay, ProgressOK
<1>2. Recap \in Lines /\ Recap.type = "recap"
  BY ONLY <1>1, RecapIsALine
<1>3. /\ stdout' \in Seq(Lines) /\ Len(stdout') \in {Len(stdout), Len(stdout) + 1}
      /\ \A j \in DOMAIN stdout' :
           \/ j \in DOMAIN stdout /\ stdout'[j] = stdout[j]
           \/ stdout'[j] = Recap
  <2>1. CASE action.mode = "playbook"
    <3>1. Display(Recap)
      BY <2>1 DEF EndPlay
    <3>. QED BY ONLY <1>1, <1>2, <3>1, Shown
  <2>2. CASE action.mode # "playbook"
    BY <1>1, <2>2, LenProperties DEF EndPlay
  <2>. QED BY <2>1, <2>2
<1>4. Recap' = Recap
  BY <1>1 DEF Recap, Processed, Count
<1>5. ProgressOK'
  BY <1>1, <1>3, LenProperties DEF ProgressOK
<1>6. LinesOK'
  <2> SUFFICES ASSUME NEW j \in DOMAIN stdout' PROVE LineOK(stdout[j])'
    BY DEF LinesOK
  <2>1. CASE j \in DOMAIN stdout /\ stdout'[j] = stdout[j]
    <3>1. LineOK(stdout[j])
      BY <2>1 DEF LinesOK
    <3>. QED BY <1>1, <1>4, <2>1, <3>1 DEF LineOK, ArtifactLine, RecapLine
  <2>2. CASE stdout'[j] = Recap
    BY <1>1, <1>2, <1>4, <2>2 DEF LineOK, RecapLine
  <2>. QED BY <1>3, <2>1, <2>2
<1>7. TakenOK'
  <2>1. /\ recaps' = <<>> /\ artifacts' = <<>> /\ line' = 1
        /\ DOMAIN recaps' = {} /\ DOMAIN artifacts' = {} /\ 1..line' - 1 = {}
    BY <1>1
  <2>2. [k \in {} |-> 0] \in [DOMAIN artifacts' -> 1..line' - 1]
    BY <2>1
  <2>. QED BY ONLY <2>1, <2>2 DEF TakenOK
<1>8. JudgedOK'
  BY <1>1 DEF JudgedOK
<1>9. ArtifactIsGenuine'
  BY <1>1 DEF ArtifactIsGenuine
<1>. QED BY <1>5, <1>6, <1>7, <1>8, <1>9

LEMMA ExitStep ==
  ASSUME IInv, Exit
  PROVE  IInv'
<1> USE DEF IInv
<1>1. /\ pc \in {"play", "exit"} /\ artifact = None
      /\ UNCHANGED <<action, results, stdout, line, recaps, artifacts, artifact>>
      /\ \/ exited' = "zero" /\ pc' = "parse" /\ pc = "exit"
         \/ exited' = "other" /\ pc' = "refused"
  BY DEF Exit, ProgressOK
<1>2. ProgressOK'
  BY <1>1 DEF ProgressOK
<1>3. LinesOK'
  BY <1>1, LinesKept
<1>4. TakenOK'
  BY <1>1, TakenKept
<1>5. JudgedOK'
  BY <1>1 DEF JudgedOK
<1>6. ArtifactIsGenuine'
  BY <1>1 DEF ArtifactIsGenuine
<1>. QED BY <1>2, <1>3, <1>4, <1>5, <1>6

-----------------------------------------------------------------------------
(* The recorder reads.                                                     *)

LEMMA ParseRecapStep ==
  ASSUME IInv, ParseRecap
  PROVE  IInv'
<1> USE DEF IInv
<1>1. /\ pc = "parse" /\ line <= Len(stdout) /\ stdout[line].type = "recap"
      /\ recaps' = Append(recaps, stdout[line]) /\ line' = line + 1
      /\ UNCHANGED <<action, results, stdout, exited, pc, artifacts, artifact>>
      /\ artifact = None
  BY DEF ParseRecap, ProgressOK
<1>2. /\ stdout \in Seq(Lines) /\ recaps \in Seq(Lines) /\ artifacts \in Seq(Lines)
      /\ line \in DOMAIN stdout /\ line \in Nat \ {0} /\ stdout[line] \in Lines
  BY <1>1, ElementOfSeq, LenProperties DEF ProgressOK
<1>3. /\ recaps' \in Seq(Lines) /\ Len(recaps') = Len(recaps) + 1
      /\ \A k \in DOMAIN recaps' : \/ k \in DOMAIN recaps /\ recaps'[k] = recaps[k]
                                   \/ recaps'[k] = stdout[line]
  BY <1>1, <1>2, AppendProperties, LenProperties
<1>4. ProgressOK'
  BY <1>1, <1>2, <1>3, LenProperties DEF ProgressOK
<1>5. LinesOK'
  BY <1>1, LinesKept
<1>6. Recap' = Recap
  BY <1>1 DEF Recap, Processed, Count
<1>7. TakenOK'
  <2>1. RecapLine(stdout[line])
    BY <1>1, <1>2 DEF LinesOK, LineOK
  <2>2. (\A k \in DOMAIN recaps : recaps[k].type = "recap" /\ RecapLine(recaps[k]))'
    BY <1>1, <1>3, <1>6, <2>1 DEF TakenOK, RecapLine
  <2>3. PICK at \in [DOMAIN artifacts -> 1..line - 1] :
          /\ \A k \in DOMAIN artifacts : artifacts[k] = stdout[at[k]] /\ artifacts[k].type = "artifact"
          /\ \A j \in 1..line - 1 : stdout[j].type = "artifact" => \E k \in DOMAIN artifacts : at[k] = j
    BY DEF TakenOK
  <2>4. at \in [DOMAIN artifacts' -> 1..line' - 1]
    BY <1>1, <1>2, <2>3
  <2>5. ASSUME NEW j \in 1..line' - 1, stdout'[j].type = "artifact"
        PROVE  \E k \in DOMAIN artifacts' : at[k] = j
    <3>1. j \in 1..line - 1
      BY <1>1, <1>2, <2>5
    <3>. QED BY <1>1, <2>3, <2>5, <3>1
  <2>6. /\ \A k \in DOMAIN artifacts' : artifacts'[k] = stdout'[at[k]] /\ artifacts'[k].type = "artifact"
        /\ \A k \in DOMAIN artifacts' : RejectsSecrets(artifacts'[k].payload)
    BY <1>1, <2>3 DEF TakenOK, RejectsSecrets
  <2>. QED BY ONLY <2>2, <2>4, <2>5, <2>6 DEF TakenOK
<1>8. JudgedOK'
  BY <1>1 DEF JudgedOK
<1>9. ArtifactIsGenuine'
  BY <1>1 DEF ArtifactIsGenuine
<1>. QED BY <1>4, <1>5, <1>7, <1>8, <1>9

LEMMA ParseArtifactStep ==
  ASSUME IInv, ParseArtifact
  PROVE  IInv'
<1> USE DEF IInv
<1>0. pc = "parse" /\ artifact = None
  BY DEF ParseArtifact, ProgressOK
<1>1. CASE Raise
  BY <1>0, <1>1, RaiseKeeps
<1>2. CASE ~Raise
  <2>1. /\ line <= Len(stdout) /\ stdout[line].type = "artifact"
        /\ RejectsSecrets(stdout[line].payload)
        /\ artifacts' = Append(artifacts, stdout[line]) /\ line' = line + 1
        /\ UNCHANGED <<action, results, stdout, exited, pc, recaps, artifact>>
    BY <1>2 DEF ParseArtifact
  <2>2. /\ stdout \in Seq(Lines) /\ recaps \in Seq(Lines) /\ artifacts \in Seq(Lines)
        /\ line \in DOMAIN stdout /\ line \in Nat \ {0} /\ stdout[line] \in Lines
    BY <2>1, ElementOfSeq, LenProperties DEF ProgressOK
  <2> DEFINE n == Len(artifacts) + 1
  <2>3. /\ artifacts' \in Seq(Lines) /\ Len(artifacts') = n /\ n \in Nat \ {0}
        /\ DOMAIN artifacts' = DOMAIN artifacts \cup {n} /\ n \notin DOMAIN artifacts
        /\ artifacts'[n] = stdout[line]
        /\ \A k \in DOMAIN artifacts : artifacts'[k] = artifacts[k]
    BY <2>1, <2>2, AppendProperties, LenProperties
  <2> HIDE DEF n
  <2>4. ProgressOK'
    <3>1. Len(recaps') + Len(artifacts') < line'
      BY <2>1, <2>2, <2>3, LenProperties DEF ProgressOK, n
    <3>. QED BY <1>0, <2>1, <2>2, <2>3, <3>1, LenProperties DEF ProgressOK
  <2>5. LinesOK'
    BY <2>1, LinesKept
  <2>6. Recap' = Recap
    BY <2>1 DEF Recap, Processed, Count
  <2>7. TakenOK'
    <3>1. (\A k \in DOMAIN recaps : recaps[k].type = "recap" /\ RecapLine(recaps[k]))'
      BY <2>1, <2>6 DEF TakenOK, RecapLine
    <3>2. PICK at \in [DOMAIN artifacts -> 1..line - 1] :
            /\ \A k \in DOMAIN artifacts : artifacts[k] = stdout[at[k]] /\ artifacts[k].type = "artifact"
            /\ \A j \in 1..line - 1 : stdout[j].type = "artifact" => \E k \in DOMAIN artifacts : at[k] = j
      BY DEF TakenOK
    <3> DEFINE to == [k \in DOMAIN artifacts' |-> IF k = n THEN line ELSE at[k]]
    <3>3. to \in [DOMAIN artifacts' -> 1..line' - 1]
      BY <2>1, <2>2, <2>3, <3>2
    <3>4. \A k \in DOMAIN artifacts' : artifacts'[k] = stdout'[to[k]] /\ artifacts'[k].type = "artifact"
      BY <2>1, <2>3, <3>2
    <3>5. \A j \in 1..line' - 1 : stdout'[j].type = "artifact" => \E k \in DOMAIN artifacts' : to[k] = j
      <4> SUFFICES ASSUME NEW j \in 1..line' - 1, stdout'[j].type = "artifact"
                   PROVE  \E k \in DOMAIN artifacts' : to[k] = j
        OBVIOUS
      <4>1. CASE j = line
        BY <2>3, <4>1
      <4>2. CASE j # line
        <5>1. j \in 1..line - 1
          BY <2>1, <2>2, <4>2
        <5>2. PICK k \in DOMAIN artifacts : at[k] = j
          BY <2>1, <3>2, <5>1
        <5>. QED BY <2>3, <5>2
      <4>. QED BY <4>1, <4>2
    <3>6. (\A k \in DOMAIN artifacts : RejectsSecrets(artifacts[k].payload))'
      BY <2>1, <2>3 DEF TakenOK, RejectsSecrets
    <3> HIDE DEF to
    <3>. QED BY <3>1, <3>3, <3>4, <3>5, <3>6 DEF TakenOK
  <2>8. JudgedOK'
    BY <1>0, <2>1 DEF JudgedOK
  <2>9. ArtifactIsGenuine'
    BY <1>0, <2>1 DEF ArtifactIsGenuine
  <2>. QED BY <2>4, <2>5, <2>7, <2>8, <2>9
<1>. QED BY <1>1, <1>2

LEMMA ParseEndStep ==
  ASSUME IInv, ParseEnd
  PROVE  IInv'
<1> USE DEF IInv
<1>1. /\ pc = "parse" /\ line > Len(stdout) /\ pc' = "recap" /\ artifact = None
      /\ UNCHANGED <<action, results, stdout, exited, line, recaps, artifacts, artifact>>
  BY DEF ParseEnd, ProgressOK
<1>2. ProgressOK'
  BY <1>1, LenProperties DEF ProgressOK
<1>3. LinesOK'
  BY <1>1, LinesKept
<1>4. TakenOK'
  BY <1>1, TakenKept
<1>5. JudgedOK'
  BY <1>1 DEF JudgedOK
<1>6. ArtifactIsGenuine'
  BY <1>1 DEF ArtifactIsGenuine
<1>. QED BY <1>2, <1>3, <1>4, <1>5, <1>6

-----------------------------------------------------------------------------
(* The recorder judges.                                                    *)

LEMMA ValidateRecapStep ==
  ASSUME IInv, ValidateRecap
  PROVE  IInv'
<1> USE DEF IInv
<1>0. pc = "recap" /\ artifact = None
  BY DEF ValidateRecap, ProgressOK
<1>1. CASE RecapAccepted
  <2>1. /\ pc' = "artifact"
        /\ UNCHANGED <<action, results, stdout, exited, line, recaps, artifacts, artifact>>
    BY <1>1 DEF ValidateRecap
  <2>2. ProgressOK'
    BY <1>0, <2>1 DEF ProgressOK
  <2>3. LinesOK'
    BY <1>0, <2>1, LinesKept
  <2>4. TakenOK'
    BY <1>0, <2>1, TakenKept
  <2>5. JudgedOK'
    BY <1>1, <2>1 DEF JudgedOK, RecapAccepted, CountersAccepted
  <2>6. ArtifactIsGenuine'
    BY <1>0, <2>1 DEF ArtifactIsGenuine
  <2>. QED BY <2>2, <2>3, <2>4, <2>5, <2>6
<1>2. CASE ~RecapAccepted
  BY <1>0, <1>2, RaiseKeeps DEF ValidateRecap
<1>. QED BY <1>1, <1>2

(* An accepted recap is that of the play: all its results are the target's *)
(* and the counts are those of its tasks.                                  *)
LEMMA Accepted ==
  ASSUME IInv, RecapAccepted, action.mode = "playbook"
  PROVE  /\ Processed = {Target} /\ CountersAccepted([s \in Statuses |-> Count(Target, s)])
<1>1. Len(recaps) = 1 /\ HostsAreTarget(recaps[1]) /\ CountersAccepted(recaps[1].hosts[Target])
  BY DEF RecapAccepted
<1>2. recaps[1] = Recap
  BY <1>1, LenProperties DEF IInv, ProgressOK, TakenOK, RecapLine
<1>3. results \in Seq(Results)
  BY DEF IInv, ProgressOK
<1>4. DOMAIN Recap.hosts = Processed
  BY ONLY <1>3, RecapIsALine
<1>5. Processed = {Target}
  BY <1>1, <1>2, <1>4 DEF HostsAreTarget
<1>6. Recap.hosts[Target] = [s \in Statuses |-> Count(Target, s)]
  BY <1>5 DEF Recap
<1>. QED BY <1>1, <1>2, <1>5, <1>6

(* One artifact of the type is one line of it, and that line is the result *)
(* of a task that succeeded.                                               *)
LEMMA OneLine ==
  ASSUME IInv, pc = "artifact", OneEvent
  PROVE  \E j \in DOMAIN stdout, i \in DOMAIN results :
           /\ {l \in DOMAIN stdout : stdout[l].type = "artifact"
                                       /\ stdout[l].artifact_type = action.expected} = {j}
           /\ Emits(results[i]) /\ SafeTasks[results[i].task] = action.expected
           /\ Matched = results[i].payload
<1> USE DEF IInv
<1>1. /\ line = Len(stdout) + 1 /\ stdout \in Seq(Lines) /\ artifacts \in Seq(Lines)
      /\ DOMAIN stdout = 1..Len(stdout) /\ DOMAIN stdout = 1..line - 1
  BY LenProperties DEF ProgressOK
<1>2. PICK k0 : Matching = {k0}
  <2>1. Len(artifacts) \in Nat /\ DOMAIN artifacts = 1..Len(artifacts)
    BY <1>1, LenProperties
  <2>2. IsFiniteSet(DOMAIN artifacts)
    BY ONLY <2>1, FS_Interval
  <2>3. IsFiniteSet(Matching)
    BY <2>2, FS_Subset DEF Matching
  <2>. QED BY <2>3, FS_Singleton DEF OneEvent
<1>3. k0 \in DOMAIN artifacts /\ artifacts[k0].artifact_type = action.expected
      /\ Matched = artifacts[k0].payload
  BY <1>2 DEF Matching, Matched
<1>4. PICK at \in [DOMAIN artifacts -> 1..line - 1] :
        /\ \A k \in DOMAIN artifacts : artifacts[k] = stdout[at[k]] /\ artifacts[k].type = "artifact"
        /\ \A j \in 1..line - 1 : stdout[j].type = "artifact" => \E k \in DOMAIN artifacts : at[k] = j
  BY DEF TakenOK
<1> DEFINE j == at[k0]
<1>5. /\ j \in DOMAIN stdout /\ stdout[j].type = "artifact"
      /\ stdout[j].artifact_type = action.expected /\ Matched = stdout[j].payload
  BY <1>1, <1>3, <1>4
<1>6. ASSUME NEW l \in DOMAIN stdout, stdout[l].type = "artifact",
             stdout[l].artifact_type = action.expected
      PROVE  l = j
  <2>1. PICK k \in DOMAIN artifacts : at[k] = l
    BY <1>1, <1>4, <1>6
  <2>2. k \in Matching
    BY <1>4, <1>6, <2>1 DEF Matching
  <2>. QED BY <1>2, <2>1, <2>2
<1>7. ArtifactLine(stdout[j])
  BY <1>5 DEF LinesOK, LineOK
<1>8. PICK i \in DOMAIN results : /\ Emits(results[i]) /\ SafePayload(results[i].payload)
                                  /\ stdout[j] = ArtifactEvent(results[i])
  BY <1>7 DEF ArtifactLine
<1>9. SafeTasks[results[i].task] = action.expected /\ Matched = results[i].payload
  BY <1>5, <1>8, Events
<1> HIDE DEF j
<1>10. {l \in DOMAIN stdout : stdout[l].type = "artifact"
                                /\ stdout[l].artifact_type = action.expected} = {j}
  BY <1>5, <1>6
<1>. QED BY <1>5, <1>8, <1>9, <1>10

LEMMA WriteArtifactStep ==
  ASSUME IInv, WriteArtifact
  PROVE  IInv'
<1> USE DEF IInv
<1>1. /\ pc = "artifact" /\ OneEvent /\ Typed(Projection(Matched))
      /\ artifact' = Projection(Matched) /\ pc' = "accepted"
      /\ UNCHANGED <<action, results, stdout, exited, line, recaps, artifacts>>
  BY DEF WriteArtifact
<1>2. ProgressOK'
  BY <1>1 DEF ProgressOK
<1>3. LinesOK'
  BY <1>1, LinesKept
<1>4. TakenOK'
  BY <1>1, TakenKept
<1>5. JudgedOK'
  BY <1>1, JudgedKept
<1>6. ArtifactIsGenuine'
  <2>1. PICK j \in DOMAIN stdout, i \in DOMAIN results :
          /\ {l \in DOMAIN stdout : stdout[l].type = "artifact"
                                      /\ stdout[l].artifact_type = action.expected} = {j}
          /\ Emits(results[i]) /\ SafeTasks[results[i].task] = action.expected
          /\ Matched = results[i].payload
    BY ONLY IInv, <1>1, OneLine
  <2>2. Cardinality({l \in DOMAIN stdout : stdout[l].type = "artifact"
                                             /\ stdout[l].artifact_type = action.expected}) = 1
    BY ONLY <2>1, FS_Singleton
  <2>3. action.mode = "playbook"
    BY LenProperties DEF ProgressOK
  <2>4. Processed = {Target}
    BY ONLY IInv, <1>1, <2>3, Accepted DEF IInv, JudgedOK
  <2>5. results[i].host = Target
    BY <2>4 DEF Processed
  <2>6. artifact' = "exact" /\ artifact' = Projection(results[i].payload)
    BY <1>1, <2>1 DEF Typed
  <2>. QED BY <1>1, <2>1, <2>2, <2>5, <2>6 DEF ArtifactIsGenuine, Emits, Projection
<1>. QED BY <1>2, <1>3, <1>4, <1>5, <1>6

LEMMA NoArtifactStep ==
  ASSUME IInv, NoArtifact
  PROVE  IInv'
<1> USE DEF IInv
<1>1. /\ pc = "artifact" /\ pc' = "accepted" /\ artifact = None
      /\ UNCHANGED <<action, results, stdout, exited, line, recaps, artifacts, artifact>>
  BY DEF NoArtifact, ProgressOK
<1>2. ProgressOK'
  BY <1>1 DEF ProgressOK
<1>3. LinesOK'
  BY <1>1, LinesKept
<1>4. TakenOK'
  BY <1>1, TakenKept
<1>5. JudgedOK'
  BY <1>1, JudgedKept
<1>6. ArtifactIsGenuine'
  BY <1>1 DEF ArtifactIsGenuine
<1>. QED BY <1>2, <1>3, <1>4, <1>5, <1>6

-----------------------------------------------------------------------------
(* The invariant.                                                          *)

LEMMA InitInv == Init => IInv
<1> SUFFICES ASSUME Init PROVE IInv
  OBVIOUS
<1> USE GovernedEventsAssumption DEF Init
<1>1. ProgressOK
  BY EmptySeq, LenProperties DEF ProgressOK
<1>2. LinesOK
  BY DEF LinesOK
<1>3. TakenOK
  <2>1. /\ DOMAIN recaps = {} /\ DOMAIN artifacts = {} /\ 1..line - 1 = {}
    OBVIOUS
  <2>2. [k \in {} |-> 0] \in [DOMAIN artifacts -> 1..line - 1]
    BY <2>1
  <2>. QED BY ONLY <2>1, <2>2 DEF TakenOK
<1>4. JudgedOK /\ ArtifactIsGenuine
  BY DEF JudgedOK, ArtifactIsGenuine
<1>. QED BY <1>1, <1>2, <1>3, <1>4 DEF IInv

LEMMA StepInv == IInv /\ [Next]_vars => IInv'
<1> SUFFICES ASSUME IInv, [Next]_vars PROVE IInv'
  OBVIOUS
<1>0. ASSUME pc \in {"parse", "recap", "artifact"}
      PROVE  artifact = None
  BY <1>0 DEF IInv, ProgressOK
<1>1. CASE RunTask
  BY <1>1, RunTaskStep
<1>2. CASE EndPlay
  BY <1>2, EndPlayStep
<1>3. CASE Exit
  BY <1>3, ExitStep
<1>4. CASE ParseRecap
  BY <1>4, ParseRecapStep
<1>5. CASE ParseArtifact
  BY <1>5, ParseArtifactStep
<1>6. CASE ParseRejected
  BY <1>0, <1>6, RaiseKeeps DEF ParseRejected
<1>7. CASE ParseEnd
  BY <1>7, ParseEndStep
<1>8. CASE ValidateRecap
  BY <1>8, ValidateRecapStep
<1>9. CASE WriteArtifact
  BY <1>9, WriteArtifactStep
<1>10. CASE NoArtifact
  BY <1>10, NoArtifactStep
<1>11. CASE RefuseArtifact
  BY <1>0, <1>11, RaiseKeeps DEF RefuseArtifact
<1>12. CASE UNCHANGED vars
  <2>1. UNCHANGED <<action, results, stdout, exited, pc, line, recaps, artifacts, artifact>>
    BY <1>12 DEF vars
  <2>2. ProgressOK'
    BY <2>1 DEF IInv, ProgressOK
  <2>3. LinesOK' /\ TakenOK'
    BY <2>1, LinesKept, TakenKept DEF IInv
  <2>4. JudgedOK' /\ ArtifactIsGenuine'
    BY <2>1, JudgedKept, GenuineKept DEF IInv
  <2>. QED BY <2>2, <2>3, <2>4 DEF IInv
<1>. QED
  BY <1>1, <1>2, <1>3, <1>4, <1>5, <1>6, <1>7, <1>8, <1>9, <1>10, <1>11, <1>12
  DEF Next, Process, Recorder

LEMMA Invariance == Spec => []IInv
<1>1. IInv /\ [Next]_vars => IInv'
  BY StepInv
<1>. QED BY <1>1, InitInv, PTL DEF Spec

-----------------------------------------------------------------------------
(* Theorems, for any actions, listed tasks and number of results.          *)

(* A typed artifact that was written is that of one successful task on the *)
(* approved target, of the listed type, whatever else the play returned.   *)
THEOREM ArtifactsAreGenuine == Spec => []ArtifactIsGenuine
<1>1. IInv => ArtifactIsGenuine
  BY DEF IInv
<1>. QED BY <1>1, Invariance, PTL

LEMMA TypesFollow == ASSUME IInv PROVE TypeOK
<1> USE DEF IInv
<1>1. \A i \in DOMAIN stdout : stdout[i].type \in {"artifact", "artifact_rejected", "recap"}
  BY DEF LinesOK, LineOK
<1>2. Len(results) \in Nat /\ Len(stdout) \in Nat /\ MaxResults \in Nat
  BY LenProperties, GovernedEventsAssumption DEF ProgressOK
<1>3. /\ Len(results) <= MaxResults /\ Len(stdout) <= MaxResults + 1
      /\ line \in 1..MaxResults + 2 /\ Len(recaps) + Len(artifacts) < line
  BY <1>2 DEF ProgressOK
<1>4. artifact \in Payloads \cup {None}
  BY DEF ArtifactIsGenuine, Payloads
<1>. QED BY <1>1, <1>3, <1>4 DEF TypeOK, ProgressOK

(* What is accepted was a whole and clean play on the target alone, for    *)
(* any results and whichever lines were lost.                              *)
THEOREM AcceptedPlaysWereClean == Spec => []AcceptedPlayWasClean
<1>1. ASSUME IInv PROVE AcceptedPlayWasClean
  <2>1. TypeOK
    BY <1>1, TypesFollow
  <2> SUFFICES ASSUME pc = "accepted", action.mode = "playbook"
               PROVE  /\ exited = "zero" /\ Processed = {Target}
                      /\ \A i \in DOMAIN results :
                           /\ results[i].status \notin {"failed", "unreachable", "ignored"}
                           /\ results[i].status = "rescued" => action.allow_rescued
                           /\ results[i].status = "changed" => action.impact # "read"
    BY <2>1 DEF AcceptedPlayWasClean
  <2>2. exited = "zero" /\ results \in Seq(Results) /\ RecapAccepted
    BY <1>1 DEF IInv, ProgressOK, JudgedOK
  <2>3. Processed = {Target} /\ CountersAccepted([s \in Statuses |-> Count(Target, s)])
    BY <1>1, <2>2, Accepted
  <2>4. /\ Count(Target, "failed") = 0 /\ Count(Target, "unreachable") = 0
        /\ Count(Target, "ignored") = 0
        /\ Count(Target, "rescued") = 0 \/ action.allow_rescued
        /\ action.impact = "read" => Count(Target, "changed") = 0
    BY <2>3 DEF CountersAccepted, Statuses
  <2>5. \A s : Count(Target, s) = 0 => \A i \in DOMAIN results :
                 ~(results[i].host = Target /\ results[i].status = s)
    BY ONLY <2>2, Counting
  <2>6. \A i \in DOMAIN results : results[i].host = Target
    BY <2>3 DEF Processed
  <2>. QED BY <2>2, <2>3, <2>4, <2>5, <2>6
<1>. QED BY <1>1, Invariance, PTL

(* No secret-bearing payload leaves the process or is taken up by the      *)
(* recorder, for any results.                                              *)
THEOREM SecretsAreRefused == Spec => []SecretsStayBehind
<1>1. ASSUME IInv PROVE SecretsStayBehind
  <2>1. ASSUME NEW j \in DOMAIN stdout, stdout[j].type = "artifact"
        PROVE  stdout[j].payload \notin {"secret_key", "api_key"}
    <3>1. PICK i \in DOMAIN results : /\ Emits(results[i]) /\ SafePayload(results[i].payload)
                                      /\ stdout[j] = ArtifactEvent(results[i])
      BY <1>1, <2>1 DEF IInv, LinesOK, LineOK, ArtifactLine
    <3>. QED BY <3>1, Events DEF SafePayload
  <2>2. ASSUME NEW k \in DOMAIN artifacts
        PROVE  artifacts[k].payload \notin Secrets
    <3>1. PICK j \in 1..line - 1 : artifacts[k] = stdout[j] /\ stdout[j].type = "artifact"
      BY <1>1 DEF IInv, TakenOK
    <3>2. stdout \in Seq(Lines) /\ line \in Nat \ {0} /\ line <= Len(stdout) + 1
      BY <1>1 DEF IInv, ProgressOK
    <3>3. j \in DOMAIN stdout
      BY <3>1, <3>2, LenProperties
    <3>4. artifacts[k].payload \notin {"secret_key", "secret_value"}
      BY <1>1 DEF IInv, TakenOK, RejectsSecrets
    <3>. QED BY <2>1, <3>1, <3>3, <3>4 DEF Secrets
  <2>. QED BY <2>1, <2>2 DEF SecretsStayBehind
<1>. QED BY <1>1, Invariance, PTL

=============================================================================
