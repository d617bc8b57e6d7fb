-------------------------- MODULE MaterializerProofs --------------------------
(***************************************************************************)
(* Proofs about scripts/materialize-exact-revision-review.py: its file     *)
(* functions, for parent directories of any depth and payloads of any      *)
(* size, and its commands, for any assets and contents, any number of      *)
(* calls and any number of changes from outside.                           *)
(***************************************************************************)
EXTENDS MCMaterializer, TLAPS

(* The file functions.                                                     *)

(* After the walk and before the directory is closed.                      *)
Work == TrySteps \cup {"sync_dir", "finally", "unlink", "close_dir"}

(* Which descriptors are open at which step: the directory reached, and    *)
(* during a hop the one after it; the ones before it are closed.           *)
DirectoriesHeld ==
  /\ pc = "walk" => \A d \in Descriptors :
       fd[d] = IF d < at THEN "closed" ELSE IF d = at THEN "open" ELSE "unused"
  /\ pc = "hop" => /\ at \in 0..Depth - 1
                   /\ \A d \in Descriptors :
                        fd[d] = IF d < at THEN "closed"
                                ELSE IF d <= at + 1 THEN "open" ELSE "unused"
  /\ pc \in Work => /\ at = Depth /\ fd[Depth] = "open"
                    /\ \A d \in 0..Depth - 1 : fd[d] = "closed"

FilesHeld ==
  /\ pc = "file" => fd[File] = "unused"
  /\ pc \in {"inspect", "asset"} => fd[File] = "open"
  /\ pc \in {"create", "fill", "check", "close_temp", "replace", "sync_dir"} =>
       fd[File] \in {"unused", "closed"}
  /\ pc = "finally" => fd[File] # "open" \/ call = "read"
  /\ pc \in {"unlink", "close_dir"} => fd[File] # "open"
  /\ pc \in {"file", "inspect", "asset", "create"} => fd[Temp] = "unused"
  /\ pc \in {"fill", "check", "close_temp"} => fd[Temp] = "open"
  /\ pc \in {"replace", "sync_dir"} => fd[Temp] = "closed"
  /\ pc \in Work /\ call = "read" => fd[Temp] = "unused"
  /\ pc \in {"unlink", "close_dir"} => fd[Temp] # "open"

(* Which function a step belongs to.                                       *)
CallOK ==
  /\ pc \in Work \ {"close_dir"} => call # "anchor"
  /\ pc \in {"inspect", "create", "fill", "check", "close_temp", "replace",
             "sync_dir", "unlink"} => call = "write"
  /\ pc = "asset" => call = "read"

(* What the name stands for: the payload only when it has been fsynced,    *)
(* and never in the place of a file that was not inspected.                *)
DiskOK ==
  /\ pc # "stopped" => target # "torn"
  /\ settled # "torn"
  /\ target = "new" \/ settled = "new" => synced /\ call = "write" /\ ~temp
  /\ settled = "new" => target = "new"
  /\ pc \in {"check", "close_temp", "replace"} => synced
  /\ pc \in {"walk", "hop"} \cup TrySteps => target # "new"
  /\ pc \in {"create", "fill", "check", "close_temp", "replace"} =>
       target \in {"absent", "old"}
  /\ pc = "sync_dir" => target = "new"
  /\ call # "write" \/ pc \in {"walk", "hop", "file", "inspect", "asset", "create"} => ~temp

(* What the exception under way is about.                                  *)
ErrorOK ==
  /\ pc \in {"walk", "hop", "sync_dir"} \cup TrySteps => ~error /\ ~noted
  /\ (\E d \in Descriptors : fd[d] = "unclear") => noted
  /\ pc \in {"finally", "unlink", "close_dir"} =>
       /\ target = "new" => ~error /\ ~noted /\ fd[Temp] = "closed"
       /\ ~error /\ call = "write" => target = "new"
  /\ pc = "close_dir" /\ temp => noted

IInv == /\ ClosedOnce /\ OutcomeIsTold
        /\ DirectoriesHeld /\ FilesHeld /\ CallOK /\ DiskOK /\ ErrorOK

-----------------------------------------------------------------------------

USE OwnedFileAssumption

LEMMA Numbers ==
  /\ File = Depth + 1 /\ Temp = Depth + 2 /\ Descriptors = 0..Depth + 2
  /\ Depth \in Descriptors /\ File \in Descriptors /\ Temp \in Descriptors
BY DEF File, Temp, Descriptors

LEMMA InitInv == Init => IInv
<1> SUFFICES ASSUME Init PROVE IInv
  OBVIOUS
<1> USE DEF Init, Descriptors, File, Temp
<1>1. TypeOK
  <2>1. error \in BOOLEAN /\ noted \in BOOLEAN /\ temp \in BOOLEAN /\ synced \in BOOLEAN
    BY Zenon
  <2>2. /\ call \in Calls /\ pc = "walk" /\ at \in -1..Depth /\ written \in 0..Size
        /\ fd \in [Descriptors -> {"unused", "open", "closed", "unclear", "twice"}]
    OBVIOUS
  <2>3. target \in Targets /\ settled \in Targets
    BY DEF Targets
  <2> QED
    BY <2>1, <2>2, <2>3 DEF TypeOK
<1>2. ClosedOnce
  BY <1>1 DEF ClosedOnce
<1>3. OutcomeIsTold /\ CallOK /\ DiskOK
  BY DEF OutcomeIsTold, CallOK, DiskOK, Work, TrySteps
<1>4. DirectoriesHeld /\ FilesHeld
  BY DEF DirectoriesHeld, FilesHeld, Work, TrySteps
<1>5. ErrorOK
  BY DEF ErrorOK, TrySteps
<1> QED
  BY <1>2, <1>3, <1>4, <1>5 DEF IInv

(* The walk gives up: at most the directory it holds has to be closed.     *)
LEMMA WalkFailureInv ==
  IInv /\ pc = "walk" /\ WalkFails /\ UNCHANGED <<call, disk>> => IInv'
<1> SUFFICES ASSUME IInv, pc = "walk", WalkFails, UNCHANGED <<call, disk>> PROVE IInv'
  OBVIOUS
<1> USE Numbers DEF IInv, ClosedOnce, TypeOK, disk
<1>1. pc' = "raised" /\ error' = TRUE /\ at' = -1
  BY DEF WalkFails
<1>2. CASE at = -1
  <2>1. UNCHANGED <<fd, noted>>
    BY <1>2 DEF WalkFails
  <2>2. ~\E d \in Descriptors : fd[d] \in {"open", "unclear"}
    BY <1>2 DEF DirectoriesHeld
  <2>3. ClosedOnce'
    BY <1>1, <2>1, <2>2 DEF Ended
  <2>4. OutcomeIsTold' /\ DiskOK'
    BY <1>1, <2>1 DEF OutcomeIsTold, DiskOK, Work, TrySteps
  <2>5. DirectoriesHeld' /\ FilesHeld' /\ CallOK'
    BY <1>1 DEF DirectoriesHeld, FilesHeld, CallOK, Work, TrySteps
  <2>6. ErrorOK'
    BY <1>1, <2>1, <2>2 DEF ErrorOK, TrySteps
  <2> QED
    BY <2>3, <2>4, <2>5, <2>6
<1>3. CASE at # -1
  <2>1. at \in 0..Depth /\ fd[at] = "open"
    BY <1>3 DEF DirectoriesHeld, Descriptors
  <2>2. PICK c \in {"closed", "unclear"} : fd' = [fd EXCEPT ![at] = c] /\ noted' = (c = "unclear")
    BY <1>3, <2>1 DEF WalkFails, Closings
  <2>3. noted' \in BOOLEAN
    BY <2>2
  <2>4. \A d \in Descriptors : fd'[d] = IF d = at THEN c ELSE fd[d]
    BY <2>2
  <2>5. \A d \in Descriptors : d # at => fd'[d] \in {"closed", "unused"}
    BY <1>3, <2>4 DEF DirectoriesHeld
  <2>6. (\E d \in Descriptors : fd'[d] = "unclear") => noted'
    BY <2>2, <2>4, <2>5
  <2>7. TypeOK'
    BY <1>1, <2>1, <2>2, <2>3 DEF Ended
  <2>8. ClosedOnce'
    BY <1>1, <2>4, <2>5, <2>7
  <2>9. OutcomeIsTold' /\ DiskOK'
    BY <1>1 DEF OutcomeIsTold, DiskOK, Work, TrySteps
  <2>10. DirectoriesHeld' /\ FilesHeld' /\ CallOK'
    BY <1>1 DEF DirectoriesHeld, FilesHeld, CallOK, Work, TrySteps
  <2>11. ErrorOK'
    BY <1>1, <2>6 DEF ErrorOK, TrySteps
  <2> QED
    BY <2>8, <2>9, <2>10, <2>11
<1> QED
  BY <1>2, <1>3

LEMMA StepInv == IInv /\ [Next]_vars => IInv'
<1> SUFFICES ASSUME IInv, [Next]_vars PROVE IInv'
  OBVIOUS
<1> USE Numbers DEF IInv, ClosedOnce, TypeOK, process, disk
<1>1. CASE OpenNext
  <2>1. CASE WalkFails
    BY <1>1, <2>1, WalkFailureInv DEF OpenNext
  <2>2. CASE ~WalkFails
    <3>1. /\ pc = "walk" /\ at \in -1..Depth - 1 /\ UNCHANGED <<call, disk, error, noted>>
          /\ fd' = [fd EXCEPT ![at + 1] = "open"]
      BY <1>1, <2>2 DEF OpenNext, Opened
    <3>2. \/ at = -1 /\ at' = 0 /\ pc' = "walk"
          \/ at # -1 /\ at' = at /\ pc' = "hop"
      BY <1>1, <2>2, <3>1 DEF OpenNext, WalkFails
    <3>3. \A d \in Descriptors : fd'[d] = IF d = at + 1 THEN "open" ELSE fd[d]
      BY <3>1
    <3>4. ClosedOnce'
      BY <3>1, <3>2, <3>3
    <3>5. DirectoriesHeld'
      BY <3>1, <3>2, <3>3 DEF DirectoriesHeld, Work, TrySteps
    <3>6. FilesHeld' /\ CallOK' /\ DiskOK' /\ OutcomeIsTold'
      BY <3>1, <3>2 DEF FilesHeld, CallOK, DiskOK, OutcomeIsTold, Work, TrySteps
    <3>7. ErrorOK'
      BY <3>1, <3>2, <3>3 DEF ErrorOK
    <3> QED
      BY <3>4, <3>5, <3>6, <3>7
  <2> QED
    BY <1>1, <2>1, <2>2 DEF OpenNext
<1>2. CASE ClosePrevious
  <2>1. pc = "hop" /\ at \in 0..Depth - 1 /\ fd[at] = "open" /\ fd[at + 1] = "open"
        /\ UNCHANGED <<call, disk>>
    BY <1>2 DEF ClosePrevious, DirectoriesHeld, Descriptors
  <2>2. CASE fd' = [fd EXCEPT ![at] = "closed"] /\ at' = at + 1 /\ pc' = "walk"
             /\ UNCHANGED <<error, noted>>
    <3>1. ClosedOnce' /\ DirectoriesHeld'
      BY <2>1, <2>2 DEF DirectoriesHeld, Work, TrySteps
    <3> QED
      BY <2>1, <2>2, <3>1
         DEF FilesHeld, CallOK, DiskOK, ErrorOK, OutcomeIsTold, Work, TrySteps
  <2>3. CASE FailedHop /\ at' = -1 /\ pc' = "raised" /\ error' = TRUE /\ noted' = TRUE
    <3>1. PICK next \in {"closed", "unclear"} :
            fd' = [fd EXCEPT ![at] = "unclear", ![at + 1] = next]
      BY <2>1, <2>3 DEF FailedHop, Closings
    <3>2. \A d \in Descriptors : fd'[d] \in {"closed", "unused", "unclear"}
      BY <2>1, <3>1 DEF DirectoriesHeld
    <3>3. TypeOK'
      BY <2>1, <2>3, <3>1 DEF Ended
    <3> QED
      BY <2>1, <2>3, <3>2, <3>3 DEF FilesHeld, CallOK, DiskOK, ErrorOK, OutcomeIsTold,
                                    DirectoriesHeld, Work, TrySteps
  <2> QED
    BY <1>2, <2>2, <2>3 DEF ClosePrevious
<1>3. CASE ParentChecked
  <2>1. CASE WalkFails
    BY <1>3, <2>1, WalkFailureInv DEF ParentChecked
  <2>2. CASE pc' = (IF call = "anchor" THEN "close_dir" ELSE "file")
             /\ UNCHANGED <<at, fd, error, noted>>
    <3> USE <1>3, <2>2 DEF ParentChecked
    <3>1. ClosedOnce'
      OBVIOUS
    <3>2. DirectoriesHeld' /\ FilesHeld' /\ CallOK' /\ DiskOK'
      BY DEF DirectoriesHeld, FilesHeld, CallOK, DiskOK
    <3>3. ErrorOK' /\ OutcomeIsTold'
      BY DEF ErrorOK, OutcomeIsTold, DiskOK
    <3> QED
      BY <3>1, <3>2, <3>3
  <2> QED
    BY <1>3, <2>1, <2>2 DEF ParentChecked
<1>4. CASE OpenFile
  <2> USE <1>4 DEF OpenFile, Opened
  <2>1. TypeOK'
    OBVIOUS
  <2>2. ClosedOnce'
    BY <2>1
  <2>3. DirectoriesHeld'
    BY DEF DirectoriesHeld, Work, TrySteps
  <2>4. FilesHeld' /\ CallOK'
    BY DEF FilesHeld, CallOK, Calls, Work, TrySteps
  <2>5. DiskOK'
    BY DEF DiskOK, TrySteps
  <2>6. ErrorOK'
    BY DEF ErrorOK, TrySteps
  <2>7. OutcomeIsTold'
    BY DEF OutcomeIsTold
  <2> QED
    BY <2>2, <2>3, <2>4, <2>5, <2>6, <2>7
<1>5. CASE InspectTarget
  <2> USE <1>5 DEF InspectTarget, Closings
  <2>1. TypeOK'
    <3>1. fd[File] = "open" /\ pc' \in {"create", "finally"}
      BY DEF FilesHeld
    <3>2. error' \in BOOLEAN /\ noted' \in BOOLEAN
      BY <3>1
    <3>3. fd' \in [Descriptors -> {"unused", "open", "closed", "unclear", "twice"}]
      BY <3>1
    <3> QED
      BY <3>1, <3>2, <3>3
  <2>2. ClosedOnce'
    BY <2>1 DEF FilesHeld
  <2>3. DirectoriesHeld'
    BY DEF DirectoriesHeld, Work, TrySteps
  <2>4. FilesHeld' /\ CallOK'
    BY DEF FilesHeld, CallOK
  <2>5. DiskOK'
    BY DEF DiskOK, Targets, TrySteps
  <2>6. ErrorOK'
    BY DEF ErrorOK, DiskOK, TrySteps
  <2>7. OutcomeIsTold'
    BY DEF OutcomeIsTold
  <2> QED
    BY <2>2, <2>3, <2>4, <2>5, <2>6, <2>7
<1>6. CASE ReadAsset
  <2> USE <1>6 DEF ReadAsset
  <2>1. TypeOK'
    OBVIOUS
  <2>2. ClosedOnce'
    BY <2>1
  <2>3. DirectoriesHeld'
    BY DEF DirectoriesHeld, Work, TrySteps
  <2>4. FilesHeld' /\ CallOK'
    BY DEF FilesHeld, CallOK
  <2>5. DiskOK'
    BY DEF DiskOK, CallOK
  <2>6. ErrorOK'
    BY DEF ErrorOK, DiskOK, CallOK, TrySteps
  <2>7. OutcomeIsTold'
    BY DEF OutcomeIsTold
  <2> QED
    BY <2>2, <2>3, <2>4, <2>5, <2>6, <2>7
<1>7. CASE CreateTemporary
  <2> USE <1>7 DEF CreateTemporary, Opened
  <2>1. TypeOK'
    OBVIOUS
  <2>2. ClosedOnce'
    BY <2>1
  <2>3. DirectoriesHeld'
    BY DEF DirectoriesHeld, Work, TrySteps
  <2>4. FilesHeld' /\ CallOK'
    BY DEF FilesHeld, CallOK
  <2>5. DiskOK'
    BY DEF DiskOK, CallOK
  <2>6. ErrorOK'
    BY DEF ErrorOK, TrySteps
  <2>7. OutcomeIsTold'
    BY DEF OutcomeIsTold
  <2> QED
    BY <2>2, <2>3, <2>4, <2>5, <2>6, <2>7
<1>8. CASE WriteSome
  <2> USE <1>8 DEF WriteSome
  <2>1. TypeOK'
    OBVIOUS
  <2>2. ClosedOnce'
    BY <2>1
  <2>3. DirectoriesHeld'
    BY DEF DirectoriesHeld
  <2>4. FilesHeld' /\ CallOK'
    BY DEF FilesHeld, CallOK
  <2>5. DiskOK'
    BY DEF DiskOK
  <2>6. ErrorOK'
    BY DEF ErrorOK
  <2>7. OutcomeIsTold'
    BY DEF OutcomeIsTold
  <2> QED
    BY <2>2, <2>3, <2>4, <2>5, <2>6, <2>7
<1>9. CASE SyncTemporary
  <2> USE <1>9 DEF SyncTemporary
  <2>1. TypeOK'
    OBVIOUS
  <2>2. ClosedOnce'
    BY <2>1
  <2>3. DirectoriesHeld'
    BY DEF DirectoriesHeld, Work, TrySteps
  <2>4. FilesHeld' /\ CallOK'
    BY DEF FilesHeld, CallOK
  <2>5. DiskOK'
    BY DEF DiskOK
  <2>6. ErrorOK'
    BY DEF ErrorOK, TrySteps
  <2>7. OutcomeIsTold'
    BY DEF OutcomeIsTold
  <2> QED
    BY <2>2, <2>3, <2>4, <2>5, <2>6, <2>7
<1>10. CASE ReadBack
  <2> USE <1>10 DEF ReadBack
  <2>1. TypeOK'
    OBVIOUS
  <2>2. ClosedOnce'
    BY <2>1
  <2>3. DirectoriesHeld'
    BY DEF DirectoriesHeld, Work, TrySteps
  <2>4. FilesHeld' /\ CallOK'
    BY DEF FilesHeld, CallOK
  <2>5. DiskOK'
    BY DEF DiskOK
  <2>6. ErrorOK'
    BY DEF ErrorOK, TrySteps
  <2>7. OutcomeIsTold'
    BY DEF OutcomeIsTold
  <2> QED
    BY <2>2, <2>3, <2>4, <2>5, <2>6, <2>7
<1>11. CASE CloseTemporary
  <2> USE <1>11 DEF CloseTemporary, Closings
  <2>1. TypeOK'
    OBVIOUS
  <2>2. ClosedOnce'
    BY <2>1 DEF FilesHeld
  <2>3. DirectoriesHeld'
    BY DEF DirectoriesHeld, Work, TrySteps
  <2>4. FilesHeld' /\ CallOK'
    BY DEF FilesHeld, CallOK
  <2>5. DiskOK'
    BY DEF DiskOK
  <2>6. ErrorOK'
    BY DEF ErrorOK, DiskOK, TrySteps
  <2>7. OutcomeIsTold'
    BY DEF OutcomeIsTold
  <2> QED
    BY <2>2, <2>3, <2>4, <2>5, <2>6, <2>7
<1>12. CASE Replace
  <2> USE <1>12 DEF Replace
  <2>1. TypeOK'
    BY DEF Targets
  <2>2. ClosedOnce'
    BY <2>1
  <2>3. DirectoriesHeld'
    BY DEF DirectoriesHeld, Work, TrySteps
  <2>4. FilesHeld' /\ CallOK'
    BY DEF FilesHeld, CallOK
  <2>5. DiskOK'
    BY DEF DiskOK, CallOK, TrySteps
  <2>6. ErrorOK'
    BY DEF ErrorOK, TrySteps
  <2>7. OutcomeIsTold'
    BY DEF OutcomeIsTold
  <2> QED
    BY <2>2, <2>3, <2>4, <2>5, <2>6, <2>7
<1>13. CASE SyncDirectory
  <2> USE <1>13 DEF SyncDirectory
  <2>1. TypeOK'
    OBVIOUS
  <2>2. ClosedOnce'
    BY <2>1
  <2>3. DirectoriesHeld'
    BY DEF DirectoriesHeld, Work
  <2>4. FilesHeld' /\ CallOK'
    BY DEF FilesHeld, CallOK
  <2>5. DiskOK'
    BY DEF DiskOK, TrySteps
  <2>6. ErrorOK'
    BY DEF ErrorOK, FilesHeld, DiskOK
  <2>7. OutcomeIsTold'
    BY DEF OutcomeIsTold
  <2> QED
    BY <2>2, <2>3, <2>4, <2>5, <2>6, <2>7
<1>14. CASE Raise
  <2> USE <1>14 DEF Raise
  <2>1. TypeOK'
    OBVIOUS
  <2>2. ClosedOnce'
    BY <2>1
  <2>3. DirectoriesHeld'
    BY DEF DirectoriesHeld, Work
  <2>4. FilesHeld' /\ CallOK'
    BY DEF FilesHeld, CallOK, Work, TrySteps
  <2>5. DiskOK'
    BY DEF DiskOK, TrySteps
  <2>6. ErrorOK'
    BY DEF ErrorOK, DiskOK, TrySteps
  <2>7. OutcomeIsTold'
    BY DEF OutcomeIsTold
  <2> QED
    BY <2>2, <2>3, <2>4, <2>5, <2>6, <2>7
<1>15. CASE CloseTemporaryAtLast
  <2> USE <1>15 DEF CloseTemporaryAtLast, Closings
  <2>1. TypeOK'
    OBVIOUS
  <2>2. ClosedOnce'
    BY <2>1
  <2>3. DirectoriesHeld'
    BY DEF DirectoriesHeld, Work
  <2>4. FilesHeld' /\ CallOK'
    BY DEF FilesHeld, CallOK
  <2>5. DiskOK'
    BY DEF DiskOK, TrySteps
  <2>6. ErrorOK'
    BY DEF ErrorOK, TrySteps
  <2>7. OutcomeIsTold'
    BY DEF OutcomeIsTold
  <2> QED
    BY <2>2, <2>3, <2>4, <2>5, <2>6, <2>7
<1>16. CASE UnlinkTemporary
  <2> USE <1>16 DEF UnlinkTemporary, Replaced
  <2>1. TypeOK'
    OBVIOUS
  <2>2. ClosedOnce'
    BY <2>1
  <2>3. DirectoriesHeld'
    BY DEF DirectoriesHeld, Work
  <2>4. FilesHeld' /\ CallOK'
    BY DEF FilesHeld, CallOK
  <2>5. DiskOK'
    BY DEF DiskOK, TrySteps
  <2>6. ErrorOK'
    BY DEF ErrorOK, DiskOK, TrySteps
  <2>7. OutcomeIsTold'
    BY DEF OutcomeIsTold
  <2> QED
    BY <2>2, <2>3, <2>4, <2>5, <2>6, <2>7
<1>17. CASE CloseAsset
  <2> USE <1>17 DEF CloseAsset, Closings
  <2>1. TypeOK'
    OBVIOUS
  <2>2. ClosedOnce'
    BY <2>1
  <2>3. DirectoriesHeld'
    BY DEF DirectoriesHeld, Work
  <2>4. FilesHeld' /\ CallOK'
    BY DEF FilesHeld, CallOK, Work
  <2>5. DiskOK'
    BY DEF DiskOK
  <2>6. ErrorOK'
    BY DEF ErrorOK, DiskOK, TrySteps
  <2>7. OutcomeIsTold'
    BY DEF OutcomeIsTold
  <2> QED
    BY <2>2, <2>3, <2>4, <2>5, <2>6, <2>7
<1>18. CASE CloseDirectory
  <2> USE <1>18 DEF CloseDirectory, Closings
  <2>1. TypeOK'
    BY DEF DirectoriesHeld, Ended, Work
  <2>2. ClosedOnce'
    BY <2>1 DEF DirectoriesHeld, FilesHeld, Work
  <2>3. DirectoriesHeld'
    BY DEF DirectoriesHeld, Work, TrySteps
  <2>4. FilesHeld' /\ CallOK'
    BY DEF FilesHeld, CallOK, Work, TrySteps
  <2>5. DiskOK'
    BY DEF DiskOK, TrySteps
  <2>6. ErrorOK'
    BY DEF ErrorOK, TrySteps
  <2>7. OutcomeIsTold'
    <3>1. PICK c \in {"closed", "unclear"} :
            /\ fd' = [fd EXCEPT ![Depth] = c] /\ noted' = (noted \/ c = "unclear")
            /\ error' = (error \/ noted')
      BY DEF DirectoriesHeld, Work
    <3>2. pc' = "returned" => ~error /\ ~noted /\ c = "closed"
      BY <3>1
    <3>3. pc' = "returned" => \A d \in Descriptors : fd'[d] \in {"unused", "closed"}
      <4>1. \A d \in Descriptors : fd'[d] \notin {"open", "twice"}
        BY <2>2, <3>2
      <4>2. ~noted => \A d \in Descriptors : fd[d] # "unclear"
        BY DEF ErrorOK
      <4> QED
        BY <2>1, <3>1, <3>2, <4>1, <4>2
    <3>4. pc' = "returned" => ~temp' /\ (call' = "write" => target' = "new")
      BY <3>2 DEF ErrorOK
    <3>5. pc' = "raised" /\ target' = "new" => fd'[Depth] = "unclear"
      BY <3>1 DEF ErrorOK
    <3>6. pc' = "raised" /\ temp' => noted'
      BY <3>1 DEF ErrorOK
    <3> QED
      BY <3>3, <3>4, <3>5, <3>6 DEF OutcomeIsTold
  <2> QED
    BY <2>2, <2>3, <2>4, <2>5, <2>6, <2>7
<1>19. CASE Killed
  <2> USE <1>19 DEF Killed
  <2>1. TypeOK'
    BY DEF Ended
  <2>2. ClosedOnce'
    BY <2>1
  <2>3. DirectoriesHeld'
    BY DEF DirectoriesHeld, Work, TrySteps
  <2>4. FilesHeld' /\ CallOK'
    BY DEF FilesHeld, CallOK, Work, TrySteps
  <2>5. DiskOK'
    BY DEF DiskOK, TrySteps
  <2>6. ErrorOK'
    BY DEF ErrorOK, TrySteps
  <2>7. OutcomeIsTold'
    BY DEF OutcomeIsTold
  <2> QED
    BY <2>2, <2>3, <2>4, <2>5, <2>6, <2>7
<1>20. CASE PowerFails
  <2> USE <1>20 DEF PowerFails
  <2>1. TypeOK'
    BY DEF Targets, Ended
  <2>2. ClosedOnce'
    BY <2>1
  <2>3. DirectoriesHeld'
    BY DEF DirectoriesHeld, Work, TrySteps
  <2>4. FilesHeld' /\ CallOK'
    BY DEF FilesHeld, CallOK, Work, TrySteps
  <2>5. DiskOK'
    BY DEF DiskOK, TrySteps
  <2>6. ErrorOK'
    BY DEF ErrorOK, TrySteps
  <2>7. OutcomeIsTold'
    BY DEF OutcomeIsTold
  <2> QED
    BY <2>2, <2>3, <2>4, <2>5, <2>6, <2>7
<1>21. CASE UNCHANGED vars
  BY <1>21 DEF vars, OutcomeIsTold, ErrorOK, DirectoriesHeld, FilesHeld, DiskOK, CallOK
<1> QED
  BY <1>1, <1>2, <1>3, <1>4, <1>5, <1>6, <1>7, <1>8, <1>9, <1>10, <1>11, <1>12, <1>13,
     <1>14, <1>15, <1>16, <1>17, <1>18, <1>19, <1>20, <1>21 DEF Next, Step

-----------------------------------------------------------------------------
(* The refinement.                                                         *)

LEMMA RefineInit == Init => Abstract!Init
BY DEF Init, Abstract!Init, Told, Ended

LEMMA RefineStep == IInv /\ IInv' /\ [Next]_vars => [Abstract!Next]_Abstract!vars
<1> SUFFICES ASSUME IInv, [Next]_vars PROVE [Abstract!Next]_Abstract!vars
  OBVIOUS
<1> USE DEF process, disk, Abstract!vars
<1>1. CASE Replace
  <2>1. Abstract!Commit
    BY <1>1 DEF Replace, Abstract!Commit, IInv, CallOK, DiskOK, Told, Ended
  <2> QED
    BY <2>1 DEF Abstract!Next
<1>2. CASE SyncDirectory
  <2>1. Abstract!Settle \/ UNCHANGED Abstract!vars
    BY <1>2 DEF SyncDirectory, Abstract!Settle, Told, Ended
  <2> QED
    BY <2>1 DEF Abstract!Next
<1>3. CASE CloseDirectory
  <2>1. Told = "pending" /\ Told' \in {"raised", "returned"} /\ UNCHANGED <<call, disk>>
    BY <1>3 DEF CloseDirectory, Told, Ended
  <2>2. Told' = "returned" /\ call = "write" => target = "new"
    BY <1>3 DEF CloseDirectory, IInv, ErrorOK, Told
  <2>3. Abstract!Return \/ Abstract!Raise
    BY <2>1, <2>2 DEF Abstract!Return, Abstract!Raise
  <2> QED
    BY <2>3 DEF Abstract!Next
<1>4. CASE PowerFails
  <2>1. Told = "pending" /\ Told' = "stopped" /\ UNCHANGED <<call, settled>>
    BY <1>4 DEF PowerFails, Told, Ended
  <2>2. target' \in {target, settled}
    BY <1>4 DEF PowerFails, IInv, DiskOK
  <2>3. Abstract!Stop
    BY <2>1, <2>2 DEF Abstract!Stop
  <2> QED
    BY <2>3 DEF Abstract!Next
<1>5. CASE Killed
  <2>1. Abstract!Stop
    BY <1>5 DEF Killed, Abstract!Stop, Told, Ended
  <2> QED
    BY <2>1 DEF Abstract!Next
<1>6. CASE OpenNext \/ ClosePrevious \/ ParentChecked
  <2>1. Told = "pending" /\ Told' \in {"pending", "raised"} /\ UNCHANGED <<call, disk>>
    BY <1>6 DEF OpenNext, ClosePrevious, ParentChecked, WalkFails, Told, Ended
  <2>2. Abstract!Raise \/ UNCHANGED Abstract!vars
    BY <2>1 DEF Abstract!Raise
  <2> QED
    BY <2>2 DEF Abstract!Next
<1>7. CASE \/ OpenFile \/ InspectTarget \/ ReadAsset \/ CreateTemporary \/ WriteSome
           \/ SyncTemporary \/ ReadBack \/ CloseTemporary \/ Raise
           \/ CloseTemporaryAtLast \/ UnlinkTemporary \/ CloseAsset
  <2>1. UNCHANGED <<call, target, settled>>
    BY <1>7
       DEF OpenFile, InspectTarget, ReadAsset, CreateTemporary, WriteSome, SyncTemporary,
                ReadBack, CloseTemporary, Raise, CloseTemporaryAtLast, UnlinkTemporary, CloseAsset
  <2>2. Told = "pending" /\ Told' = "pending"
    BY <1>7
       DEF OpenFile, InspectTarget, ReadAsset, CreateTemporary, WriteSome, SyncTemporary,
                ReadBack, CloseTemporary, Raise, CloseTemporaryAtLast, UnlinkTemporary, CloseAsset,
                Told, Ended, TrySteps
  <2> QED
    BY <2>1, <2>2
<1>8. CASE UNCHANGED vars
  BY <1>8 DEF vars, Told
<1> QED
  BY <1>1, <1>2, <1>3, <1>4, <1>5, <1>6, <1>7, <1>8 DEF Next, Step

-----------------------------------------------------------------------------
(* The commands.                                                           *)

(* The steps of materialize on GitHub and Git, and on the directory.       *)
Fetching == {"live", "diff", "live_again"}
Making   == {"mkdir", "patch", "metadata", "unlink_metadata", "unlink_patch", "rmdir"}

(* Which command a step belongs to, and what has been decided by then.     *)
StageOK ==
  /\ outcome = "returned" => step = "idle"
  /\ step # "idle" => outcome = "none" \/ (step = "leave" /\ outcome = "raised")
  /\ step \in Making => mode = "materialize"
  /\ step \in Fetching \cup {"leave"} => mode # "bind"
  /\ step = "assets" => mode # "materialize"
  /\ step = "rewrite" => mode = "bind"
  /\ step \in {"compare", "compare_metadata"} => mode = "verify"
  /\ step = "input" \/ (mode = "bind" /\ step # "idle") => ~scratch
  /\ step \in Fetching \cup {"input", "mkdir"} => ~made

(* The diff has been computed and nothing has failed since.                *)
DiffKnown ==
  \/ step \in {"live_again", "compare", "compare_metadata"} \cup Making
  \/ step = "assets" /\ mode = "verify"
  \/ step = "leave" /\ outcome = "none"

(* What the call knows at each step is what its success will rest on.      *)
KnowledgeOK ==
  /\ DiffKnown => diffSize = "fits" /\ (step # "live_again" => current)
  /\ mode = "verify" /\ step \notin {"idle", "input"} => seen.bound
  /\ mode = "verify" /\ (step = "compare_metadata" \/ (step = "leave" /\ outcome = "none")) =>
       compared = "diff"
  /\ mode = "bind" /\ step \in {"assets", "rewrite"} => meta.there /\ seen.there

(* What is in the directory at each step, unless a failed clean-up has     *)
(* been reported.                                                          *)
DirectoryOK ==
  /\ meta.there \/ meta = Review!Absent
  /\ stray => reported
  /\ step \in Making \ {"mkdir"} => dir
  /\ step = "metadata" => patch # "absent"
  /\ step = "unlink_patch" => ~meta.there \/ reported
  /\ step = "rmdir" => (~meta.there /\ patch = "absent") \/ reported
  /\ step = "leave" /\ mode = "materialize" /\ outcome = "none" => patch # "absent" /\ meta.there
  /\ step = "leave" /\ mode = "materialize" /\ outcome = "raised" /\ made => ~dir \/ reported

ReviewInv == SuccessIsBound /\ NoPartialWorkspace /\ StageOK /\ KnowledgeOK /\ DirectoryOK

USE ReviewParameters DEF Review!Parameters

(* The three kinds of conjuncts of the types.                              *)
Flags == /\ live \in BOOLEAN /\ dir \in BOOLEAN /\ stray \in BOOLEAN /\ scratch \in BOOLEAN
         /\ made \in BOOLEAN /\ reported \in BOOLEAN /\ current \in BOOLEAN

OtherTypes ==
  /\ diffSize \in {"empty", "fits", "large"}
  /\ asset \in [Assets -> Versions] /\ changes \in 0..MaxChanges
  /\ patch \in {"absent", "diff", "altered"}
  /\ mode \in Review!Modes /\ calls \in 0..MaxCalls
  /\ step \in {"idle", "input", "live", "diff", "live_again", "mkdir", "patch",
             "metadata", "unlink_metadata", "unlink_patch", "rmdir", "assets",
             "rewrite", "compare", "leave", "compare_metadata"}
  /\ outcome \in {"none", "returned", "raised", "stopped"}
  /\ compared \in {"absent", "diff", "altered"}

Vacant == ~dir => patch = "absent" /\ meta = Review!Absent /\ ~stray

LEMMA Records ==
  /\ Review!Absent \in Review!Metadata /\ Review!Plain \in Review!Metadata
  /\ ~Review!Absent.there /\ Review!Plain.there
  /\ Review!Unbound \in Review!Bindings
  /\ \A m \in Review!Metadata : [m EXCEPT !.good = FALSE] \in Review!Metadata
  /\ \A m \in Review!Metadata, r \in Review!Bindings :
       [m EXCEPT !.bound = TRUE, !.assets = r] \in Review!Metadata
<1>1. Review!Unbound \in Review!Bindings
  BY DEF Review!Unbound, Review!Bindings
<1> QED
  BY <1>1 DEF Review!Absent, Review!Plain, Review!Metadata

LEMMA ReviewInit == Review!Init => ReviewInv
<1> SUFFICES ASSUME Review!Init PROVE ReviewInv
  OBVIOUS
<1> USE DEF Review!Init
<1>1. Review!TypeOK
  <2>1. Flags
    BY Zenon DEF Flags
  <2>2. OtherTypes /\ Vacant
    BY DEF OtherTypes, Vacant, Review!Modes
  <2> QED
    BY <2>1, <2>2, Records DEF Flags, OtherTypes, Vacant, Review!TypeOK
<1>2. SuccessIsBound /\ NoPartialWorkspace
  BY <1>1 DEF SuccessIsBound, Review!SuccessIsBound, Review!Done, NoPartialWorkspace,
              Review!NoPartialWorkspace, Review!Absent
<1>3. StageOK
  BY DEF StageOK
<1>4. KnowledgeOK
  BY DEF KnowledgeOK, DiffKnown, Making
<1>5. DirectoryOK
  BY DEF DirectoryOK, Making
<1> QED
  BY <1>2, <1>3, <1>4, <1>5 DEF ReviewInv

LEMMA ReviewStep == ReviewInv /\ [Review!Next]_Review!vars => ReviewInv'
<1> SUFFICES ASSUME ReviewInv, [Review!Next]_Review!vars PROVE ReviewInv'
  OBVIOUS
<1> USE DEF Review!outside, Review!directory, Review!memory, Review!status, Review!End
<1>given. /\ Review!TypeOK /\ StageOK /\ KnowledgeOK /\ DirectoryOK
          /\ Review!SuccessIsBound /\ Review!NoPartialWorkspace
  BY DEF ReviewInv, SuccessIsBound, NoPartialWorkspace, Review!SuccessIsBound
<1>flags. Flags
  BY <1>given DEF Flags, Review!TypeOK
<1>whole. /\ Review!TypeOK' /\ StageOK' /\ KnowledgeOK' /\ DirectoryOK'
          /\ Review!SuccessIsBound' /\ Review!NoPartialWorkspace'
          => ReviewInv'
  BY DEF ReviewInv, SuccessIsBound, NoPartialWorkspace
<1>1. CASE Review!Call
  <2>1. Review!TypeOK'
    <3>1. Flags'
      BY <1>flags, <1>1, Zenon DEF Review!Call, Flags
    <3>2. meta' \in Review!Metadata /\ seen' \in Review!Metadata /\ read' \in Review!Bindings
      BY <1>given, <1>1, Records DEF Review!Call, Review!TypeOK
    <3>3. OtherTypes'
      BY <1>given, <1>1 DEF Review!Call, OtherTypes, Review!Modes, Review!TypeOK
    <3>4. Vacant'
      BY <1>given, <1>1, Records DEF Review!Call, Vacant, Review!TypeOK
    <3> QED
      BY <3>1, <3>2, <3>3, <3>4 DEF Flags, Vacant, OtherTypes, Review!TypeOK
  <2>2. StageOK'
    BY <1>given, <1>1 DEF Review!Call, StageOK, Making, Fetching
  <2>3. KnowledgeOK'
    BY <1>given, <1>1 DEF Review!Call, KnowledgeOK, DiffKnown, Making
  <2>4. DirectoryOK'
    BY <1>given, <1>1 DEF Review!Call, DirectoryOK, Making
  <2>5. Review!SuccessIsBound'
    BY <1>given, <1>1, <2>1 DEF Review!Call, Review!SuccessIsBound, Review!Done
  <2>6. Review!NoPartialWorkspace'
    BY <1>given, <1>1 DEF Review!Call, Review!NoPartialWorkspace
  <2> QED
    BY <2>1, <2>2, <2>3, <2>4, <2>5, <2>6, <1>whole
<1>2. CASE Review!Change
  <2>1. Review!TypeOK'
    <3>1. Flags'
      BY <1>flags, <1>2, Zenon DEF Review!Change, Flags
    <3>2. meta' \in Review!Metadata /\ seen' \in Review!Metadata /\ read' \in Review!Bindings
      BY <1>given, <1>2, Records DEF Review!Change, Review!TypeOK
    <3>3. OtherTypes'
      BY <1>given, <1>2 DEF Review!Change, OtherTypes, Review!Modes, Review!TypeOK
    <3>4. Vacant'
      BY <1>given, <1>2, Records DEF Review!Change, Vacant, Review!TypeOK
    <3> QED
      BY <3>1, <3>2, <3>3, <3>4 DEF Flags, Vacant, OtherTypes, Review!TypeOK
  <2>2. StageOK'
    BY <1>given, <1>2 DEF Review!Change, StageOK
  <2>3. KnowledgeOK'
    BY <1>given, <1>2
       DEF Review!Change, KnowledgeOK, DiffKnown, Review!Metadata, Review!TypeOK
  <2>4. DirectoryOK'
    BY <1>given, <1>2 DEF Review!Change, DirectoryOK, Review!Metadata, Review!TypeOK
  <2>5. Review!SuccessIsBound'
    BY <1>given, <1>2, <2>1 DEF Review!Change, Review!SuccessIsBound, Review!Done
  <2>6. Review!NoPartialWorkspace'
    BY <1>given, <1>2
       DEF Review!Change, Review!NoPartialWorkspace, Review!Metadata, Review!TypeOK
  <2> QED
    BY <2>1, <2>2, <2>3, <2>4, <2>5, <2>6, <1>whole
<1>3. CASE Review!Stop
  <2>1. Review!TypeOK'
    <3>1. Flags'
      BY <1>flags, <1>3, Zenon DEF Review!Stop, Flags
    <3>2. meta' \in Review!Metadata /\ seen' \in Review!Metadata /\ read' \in Review!Bindings
      BY <1>given, <1>3, Records DEF Review!Stop, Review!TypeOK
    <3>3. OtherTypes'
      BY <1>given, <1>3 DEF Review!Stop, OtherTypes, Review!Modes, Review!TypeOK
    <3>4. Vacant'
      BY <1>given, <1>3, Records DEF Review!Stop, Vacant, Review!TypeOK
    <3> QED
      BY <3>1, <3>2, <3>3, <3>4 DEF Flags, Vacant, OtherTypes, Review!TypeOK
  <2>2. StageOK'
    BY <1>given, <1>3 DEF Review!Stop, StageOK, Making, Fetching
  <2>3. KnowledgeOK'
    BY <1>given, <1>3 DEF Review!Stop, KnowledgeOK, DiffKnown, Making
  <2>4. DirectoryOK'
    BY <1>given, <1>3 DEF Review!Stop, DirectoryOK, Making
  <2>5. Review!SuccessIsBound'
    BY <1>given, <1>3, <2>1 DEF Review!Stop, Review!SuccessIsBound, Review!Done
  <2>6. Review!NoPartialWorkspace'
    BY <1>given, <1>3 DEF Review!Stop, Review!NoPartialWorkspace
  <2> QED
    BY <2>1, <2>2, <2>3, <2>4, <2>5, <2>6, <1>whole
<1>4. CASE Review!Input
  <2>1. Review!TypeOK'
    <3>1. Flags'
      BY <1>flags, <1>4, Zenon DEF Review!Input, Flags
    <3>2. meta' \in Review!Metadata /\ seen' \in Review!Metadata /\ read' \in Review!Bindings
      BY <1>given, <1>4, Records DEF Review!Input, Review!TypeOK
    <3>3. OtherTypes'
      BY <1>given, <1>4
         DEF Review!Input, Review!Raise, OtherTypes, Review!Modes, Review!TypeOK
    <3>4. Vacant'
      BY <1>given, <1>4, Records DEF Review!Input, Vacant, Review!TypeOK
    <3> QED
      BY <3>1, <3>2, <3>3, <3>4 DEF Flags, Vacant, OtherTypes, Review!TypeOK
  <2>2. StageOK'
    BY <1>given, <1>4 DEF Review!Input, Review!Raise, StageOK, Making, Fetching
  <2>3. KnowledgeOK'
    BY <1>given, <1>4 DEF Review!Input, Review!InputAccepted, Review!Raise, KnowledgeOK,
                          DiffKnown, StageOK, Making
  <2>4. DirectoryOK'
    BY <1>given, <1>4 DEF Review!Input, Review!Raise, DirectoryOK, StageOK, Making
  <2>5. Review!SuccessIsBound'
    BY <1>given, <1>4, <2>1
       DEF Review!Input, Review!Raise, Review!SuccessIsBound, Review!Done, StageOK
  <2>6. Review!NoPartialWorkspace'
    BY <1>given, <1>4 DEF Review!Input, Review!NoPartialWorkspace, StageOK
  <2> QED
    BY <2>1, <2>2, <2>3, <2>4, <2>5, <2>6, <1>whole
<1>5. CASE Review!ReadLive
  <2>1. Review!TypeOK'
    <3>1. Flags'
      BY <1>flags, <1>5, Zenon DEF Review!ReadLive, Review!Read, Flags
    <3>2. meta' \in Review!Metadata /\ seen' \in Review!Metadata /\ read' \in Review!Bindings
      BY <1>given, <1>5, Records DEF Review!ReadLive, Review!Read, Review!TypeOK
    <3>3. OtherTypes'
      BY <1>given, <1>5 DEF Review!ReadLive, Review!Read, Review!Raise, OtherTypes,
                            Review!Modes, Review!TypeOK
    <3>4. Vacant'
      BY <1>given, <1>5, Records DEF Review!ReadLive, Review!Read, Vacant, Review!TypeOK
    <3> QED
      BY <3>1, <3>2, <3>3, <3>4 DEF Flags, Vacant, OtherTypes, Review!TypeOK
  <2>2. StageOK'
    BY <1>given, <1>5
       DEF Review!ReadLive, Review!Read, Review!Raise, StageOK, Making, Fetching
  <2>3. KnowledgeOK'
    BY <1>given, <1>5
       DEF Review!ReadLive, Review!Read, Review!Raise, KnowledgeOK, DiffKnown, Making
  <2>4. DirectoryOK'
    BY <1>given, <1>5 DEF Review!ReadLive, Review!Read, Review!Raise, DirectoryOK, StageOK,
                          Making, Fetching
  <2>5. Review!SuccessIsBound'
    BY <1>given, <1>5, <2>1 DEF Review!ReadLive, Review!Read, Review!Raise,
                                Review!SuccessIsBound, Review!Done, StageOK
  <2>6. Review!NoPartialWorkspace'
    BY <1>given, <1>5
       DEF Review!ReadLive, Review!Read, Review!NoPartialWorkspace, StageOK, Fetching
  <2> QED
    BY <2>1, <2>2, <2>3, <2>4, <2>5, <2>6, <1>whole
<1>6. CASE Review!ComputeDiff
  <2>1. Review!TypeOK'
    <3>1. Flags'
      BY <1>flags, <1>6, Zenon DEF Review!ComputeDiff, Flags
    <3>2. meta' \in Review!Metadata /\ seen' \in Review!Metadata /\ read' \in Review!Bindings
      BY <1>given, <1>6, Records DEF Review!ComputeDiff, Review!TypeOK
    <3>3. OtherTypes'
      BY <1>given, <1>6
         DEF Review!ComputeDiff, Review!Raise, OtherTypes, Review!Modes, Review!TypeOK
    <3>4. Vacant'
      BY <1>given, <1>6, Records DEF Review!ComputeDiff, Vacant, Review!TypeOK
    <3> QED
      BY <3>1, <3>2, <3>3, <3>4 DEF Flags, Vacant, OtherTypes, Review!TypeOK
  <2>2. StageOK'
    BY <1>given, <1>6 DEF Review!ComputeDiff, Review!Raise, StageOK, Making, Fetching
  <2>3. KnowledgeOK'
    BY <1>given, <1>6 DEF Review!ComputeDiff, Review!Raise, KnowledgeOK, DiffKnown, Making
  <2>4. DirectoryOK'
    BY <1>given, <1>6
       DEF Review!ComputeDiff, Review!Raise, DirectoryOK, StageOK, Making, Fetching
  <2>5. Review!SuccessIsBound'
    BY <1>given, <1>6, <2>1
       DEF Review!ComputeDiff, Review!Raise, Review!SuccessIsBound, Review!Done
  <2>6. Review!NoPartialWorkspace'
    BY <1>given, <1>6 DEF Review!ComputeDiff, Review!NoPartialWorkspace, StageOK, Fetching
  <2> QED
    BY <2>1, <2>2, <2>3, <2>4, <2>5, <2>6, <1>whole
<1>7. CASE Review!ReadLiveAgain
  <2>1. Review!TypeOK'
    <3>1. Flags'
      BY <1>flags, <1>7, Zenon DEF Review!ReadLiveAgain, Review!Read, Flags
    <3>2. meta' \in Review!Metadata /\ seen' \in Review!Metadata /\ read' \in Review!Bindings
      BY <1>given, <1>7, Records DEF Review!ReadLiveAgain, Review!Read, Review!TypeOK
    <3>3. OtherTypes'
      BY <1>given, <1>7 DEF Review!ReadLiveAgain, Review!Read, Review!Raise, OtherTypes,
                            Review!Modes, Review!TypeOK
    <3>4. Vacant'
      BY <1>given, <1>7, Records
         DEF Review!ReadLiveAgain, Review!Read, Vacant, Review!TypeOK
    <3> QED
      BY <3>1, <3>2, <3>3, <3>4 DEF Flags, Vacant, OtherTypes, Review!TypeOK
  <2>2. StageOK'
    <3>1. /\ step = "live_again" /\ UNCHANGED <<mode, scratch, made>>
          /\ \/ step' \in {"assets", "mkdir"} /\ (step' = "assets" <=> mode = "verify") /\ outcome' = outcome
             \/ step' \in {"leave", "idle"} /\ outcome' = "raised"
      BY <1>7 DEF Review!ReadLiveAgain, Review!Read, Review!Raise
    <3>2. mode = "verify" \/ mode = "materialize"
      BY <1>given, <3>1 DEF Review!Modes, StageOK, Fetching, Review!TypeOK
    <3> QED
      BY <1>given, <3>1, <3>2 DEF StageOK, Making, Fetching
  <2>3. KnowledgeOK'
    BY <1>given, <1>7
       DEF Review!ReadLiveAgain, Review!Read, Review!Raise, KnowledgeOK, DiffKnown, Making
  <2>4. DirectoryOK'
    BY <1>given, <1>7 DEF Review!ReadLiveAgain, Review!Read, Review!Raise, DirectoryOK,
                          StageOK, Making, Fetching
  <2>5. Review!SuccessIsBound'
    BY <1>given, <1>7, <2>1 DEF Review!ReadLiveAgain, Review!Read, Review!Raise,
                                Review!SuccessIsBound, Review!Done
  <2>6. Review!NoPartialWorkspace'
    BY <1>given, <1>7
       DEF Review!ReadLiveAgain, Review!Read, Review!NoPartialWorkspace, StageOK, Fetching
  <2> QED
    BY <2>1, <2>2, <2>3, <2>4, <2>5, <2>6, <1>whole
<1>8. CASE Review!MakeDirectory
  <2>1. Review!TypeOK'
    <3>1. Flags'
      BY <1>flags, <1>8, Zenon DEF Review!MakeDirectory, Flags
    <3>2. meta' \in Review!Metadata /\ seen' \in Review!Metadata /\ read' \in Review!Bindings
      BY <1>given, <1>8, Records DEF Review!MakeDirectory, Review!TypeOK
    <3>3. OtherTypes'
      BY <1>given, <1>8
         DEF Review!MakeDirectory, Review!Raise, OtherTypes, Review!Modes, Review!TypeOK
    <3>4. Vacant'
      BY <1>given, <1>8, Records DEF Review!MakeDirectory, Vacant, Review!TypeOK
    <3> QED
      BY <3>1, <3>2, <3>3, <3>4 DEF Flags, Vacant, OtherTypes, Review!TypeOK
  <2>2. StageOK'
    BY <1>given, <1>8 DEF Review!MakeDirectory, Review!Raise, StageOK, Making, Fetching
  <2>3. KnowledgeOK'
    BY <1>given, <1>8 DEF Review!MakeDirectory, KnowledgeOK, DiffKnown, StageOK, Making
  <2>4. DirectoryOK'
    BY <1>given, <1>8 DEF Review!MakeDirectory, Review!Raise, DirectoryOK, StageOK, Making
  <2>5. Review!SuccessIsBound'
    BY <1>given, <1>8, <2>1
       DEF Review!MakeDirectory, Review!Raise, Review!SuccessIsBound, Review!Done
  <2>6. Review!NoPartialWorkspace'
    BY <1>given, <1>8 DEF Review!MakeDirectory, Review!NoPartialWorkspace, StageOK
  <2> QED
    BY <2>1, <2>2, <2>3, <2>4, <2>5, <2>6, <1>whole
<1>9. CASE Review!WritePatch
  <2>1. Review!TypeOK'
    <3>1. Flags'
      BY <1>flags, <1>9, Zenon DEF Review!WritePatch, Review!WriteOutcome, Flags
    <3>2. meta' \in Review!Metadata /\ seen' \in Review!Metadata /\ read' \in Review!Bindings
      BY <1>given, <1>9, Records DEF Review!WritePatch, Review!TypeOK
    <3>3. OtherTypes'
      BY <1>given, <1>9 DEF Review!WritePatch, OtherTypes, Review!Modes, Review!TypeOK
    <3>4. Vacant'
      BY <1>given, <1>9, Records DEF Review!WritePatch, Vacant, DirectoryOK, Making
    <3> QED
      BY <3>1, <3>2, <3>3, <3>4 DEF Flags, Vacant, OtherTypes, Review!TypeOK
  <2>2. StageOK'
    BY <1>given, <1>9 DEF Review!WritePatch, StageOK, Making, Fetching
  <2>3. KnowledgeOK'
    BY <1>given, <1>9 DEF Review!WritePatch, KnowledgeOK, DiffKnown, Making
  <2>4. DirectoryOK'
    BY <1>given, <1>9 DEF Review!WritePatch, Review!WriteOutcome, DirectoryOK, Making
  <2>5. Review!SuccessIsBound'
    BY <1>given, <1>9, <2>1 DEF Review!WritePatch, Review!SuccessIsBound, Review!Done
  <2>6. Review!NoPartialWorkspace'
    BY <1>given, <1>9 DEF Review!WritePatch, Review!WriteOutcome, Review!NoPartialWorkspace
  <2> QED
    BY <2>1, <2>2, <2>3, <2>4, <2>5, <2>6, <1>whole
<1>10. CASE Review!WriteMetadata
  <2>1. Review!TypeOK'
    <3>1. Flags'
      BY <1>flags, <1>10, Zenon DEF Review!WriteMetadata, Review!WriteOutcome, Flags
    <3>2. meta' \in Review!Metadata /\ seen' \in Review!Metadata /\ read' \in Review!Bindings
      BY <1>given, <1>10, Records DEF Review!WriteMetadata, Review!TypeOK
    <3>3. OtherTypes'
      BY <1>given, <1>10 DEF Review!WriteMetadata, OtherTypes, Review!Modes, Review!TypeOK
    <3>4. Vacant'
      BY <1>given, <1>10, Records
         DEF Review!WriteMetadata, Vacant, DirectoryOK, Review!TypeOK
    <3> QED
      BY <3>1, <3>2, <3>3, <3>4 DEF Flags, Vacant, OtherTypes, Review!TypeOK
  <2>2. StageOK'
    BY <1>given, <1>10 DEF Review!WriteMetadata, StageOK, Making, Fetching
  <2>3. KnowledgeOK'
    BY <1>given, <1>10 DEF Review!WriteMetadata, KnowledgeOK, DiffKnown, StageOK, Making
  <2>4. DirectoryOK'
    <3>1. meta'.there \/ meta' = Review!Absent
      BY <1>given, <1>10, Records DEF Review!WriteMetadata, DirectoryOK
    <3>2. step' = "leave" => meta'.there
      BY <1>given, <1>10, Records DEF Review!WriteMetadata, Review!WriteOutcome
    <3> QED
      BY <1>given, <1>10, <3>1, <3>2
         DEF Review!WriteMetadata, Review!WriteOutcome, DirectoryOK, StageOK, Making
  <2>5. Review!SuccessIsBound'
    BY <1>given, <1>10, <2>1 DEF Review!WriteMetadata, Review!SuccessIsBound, Review!Done
  <2>6. Review!NoPartialWorkspace'
    BY <1>given, <1>10 DEF Review!WriteMetadata, Review!NoPartialWorkspace, DirectoryOK
  <2> QED
    BY <2>1, <2>2, <2>3, <2>4, <2>5, <2>6, <1>whole
<1>11. CASE Review!UnlinkMetadata
  <2>1. Review!TypeOK'
    <3>1. Flags'
      BY <1>flags, <1>11, Zenon DEF Review!UnlinkMetadata, Flags
    <3>2. meta' \in Review!Metadata /\ seen' \in Review!Metadata /\ read' \in Review!Bindings
      BY <1>given, <1>11, Records DEF Review!UnlinkMetadata, Review!TypeOK
    <3>3. OtherTypes'
      BY <1>given, <1>11 DEF Review!UnlinkMetadata, OtherTypes, Review!Modes, Review!TypeOK
    <3>4. Vacant'
      BY <1>given, <1>11, Records DEF Review!UnlinkMetadata, Vacant, Review!TypeOK
    <3> QED
      BY <3>1, <3>2, <3>3, <3>4 DEF Flags, Vacant, OtherTypes, Review!TypeOK
  <2>2. StageOK'
    BY <1>given, <1>11 DEF Review!UnlinkMetadata, StageOK, Making, Fetching
  <2>3. KnowledgeOK'
    BY <1>given, <1>11 DEF Review!UnlinkMetadata, KnowledgeOK, DiffKnown, Making
  <2>4. DirectoryOK'
    BY <1>given, <1>11 DEF Review!UnlinkMetadata, DirectoryOK, Making, Review!Absent
  <2>5. Review!SuccessIsBound'
    BY <1>given, <1>11, <2>1 DEF Review!UnlinkMetadata, Review!SuccessIsBound, Review!Done
  <2>6. Review!NoPartialWorkspace'
    BY <1>given, <1>11 DEF Review!UnlinkMetadata, Review!NoPartialWorkspace, DirectoryOK
  <2> QED
    BY <2>1, <2>2, <2>3, <2>4, <2>5, <2>6, <1>whole
<1>12. CASE Review!UnlinkPatch
  <2>1. Review!TypeOK'
    <3>1. Flags'
      BY <1>flags, <1>12, Zenon DEF Review!UnlinkPatch, Flags
    <3>2. meta' \in Review!Metadata /\ seen' \in Review!Metadata /\ read' \in Review!Bindings
      BY <1>given, <1>12, Records DEF Review!UnlinkPatch, Review!TypeOK
    <3>3. OtherTypes'
      BY <1>given, <1>12 DEF Review!UnlinkPatch, OtherTypes, Review!Modes, Review!TypeOK
    <3>4. Vacant'
      BY <1>given, <1>12, Records DEF Review!UnlinkPatch, Vacant, Review!TypeOK
    <3> QED
      BY <3>1, <3>2, <3>3, <3>4 DEF Flags, Vacant, OtherTypes, Review!TypeOK
  <2>2. StageOK'
    BY <1>given, <1>12 DEF Review!UnlinkPatch, StageOK, Making, Fetching
  <2>3. KnowledgeOK'
    BY <1>given, <1>12 DEF Review!UnlinkPatch, KnowledgeOK, DiffKnown, Making
  <2>4. DirectoryOK'
    BY <1>given, <1>12 DEF Review!UnlinkPatch, DirectoryOK, Making
  <2>5. Review!SuccessIsBound'
    BY <1>given, <1>12, <2>1 DEF Review!UnlinkPatch, Review!SuccessIsBound, Review!Done
  <2>6. Review!NoPartialWorkspace'
    BY <1>given, <1>12 DEF Review!UnlinkPatch, Review!NoPartialWorkspace, DirectoryOK
  <2> QED
    BY <2>1, <2>2, <2>3, <2>4, <2>5, <2>6, <1>whole
<1>13. CASE Review!RemoveDirectory
  <2>1. Review!TypeOK'
    <3>1. Flags'
      BY <1>flags, <1>13, Zenon DEF Review!RemoveDirectory, Flags
    <3>2. meta' \in Review!Metadata /\ seen' \in Review!Metadata /\ read' \in Review!Bindings
      BY <1>given, <1>13, Records DEF Review!RemoveDirectory, Review!TypeOK
    <3>3. OtherTypes'
      BY <1>given, <1>13
         DEF Review!RemoveDirectory, Review!Raise, OtherTypes, Review!Modes, Review!TypeOK
    <3>4. Vacant'
        BY <1>given, <1>13
           DEF Review!RemoveDirectory, Review!Empty, Vacant, DirectoryOK, Review!TypeOK
    <3> QED
      BY <3>1, <3>2, <3>3, <3>4 DEF Flags, Vacant, OtherTypes, Review!TypeOK
  <2>2. StageOK'
    BY <1>given, <1>13 DEF Review!RemoveDirectory, Review!Raise, StageOK, Making, Fetching
  <2>3. KnowledgeOK'
    BY <1>given, <1>13 DEF Review!RemoveDirectory, KnowledgeOK, DiffKnown, StageOK, Making
  <2>4. DirectoryOK'
    BY <1>given, <1>13
       DEF Review!RemoveDirectory, Review!Empty, Review!Raise, DirectoryOK, Making
  <2>5. Review!SuccessIsBound'
    BY <1>given, <1>13, <2>1
       DEF Review!RemoveDirectory, Review!Raise, Review!SuccessIsBound, Review!Done
  <2>6. Review!NoPartialWorkspace'
    BY <1>given, <1>13 DEF Review!RemoveDirectory, Review!NoPartialWorkspace
  <2> QED
    BY <2>1, <2>2, <2>3, <2>4, <2>5, <2>6, <1>whole
<1>14. ASSUME NEW a \in Assets, Review!BindAsset(a) PROVE ReviewInv'
  <2>0. /\ step = "assets" /\ mode \in {"bind", "verify"}
        /\ UNCHANGED <<mode, scratch, made, current, diffSize, seen, compared, meta>>
        /\ \/ step' = "assets" /\ outcome' = outcome
           \/ step' \in {"rewrite", "compare"} /\ (step' = "rewrite" <=> mode = "bind") /\ outcome' = outcome
           \/ step' = (IF scratch THEN "leave" ELSE "idle") /\ outcome' = "raised"
    <3>1. mode \in {"bind", "verify"}
      BY <1>given, <1>14 DEF Review!Modes, StageOK, Review!BindAsset, Review!TypeOK
    <3>2. CASE Review!Raise
      BY <1>14, <3>1, <3>2 DEF Review!BindAsset, Review!Raise
    <3>3. CASE ~Review!Raise
      BY <1>14, <3>1, <3>3 DEF Review!BindAsset
    <3> QED
      BY <3>2, <3>3
  <2>1. Review!TypeOK'
    <3>1. Flags'
      BY <1>flags, <1>14, Zenon DEF Review!BindAsset, Flags
    <3>2. meta' \in Review!Metadata /\ seen' \in Review!Metadata /\ read' \in Review!Bindings
      <4>1. read' \in Review!Bindings
        <5>1. read \in [Assets -> Versions \cup {0}] /\ asset[a] \in Versions
          BY <1>given DEF Review!Bindings, Review!TypeOK
        <5>2. read' = read \/ read' = [read EXCEPT ![a] = asset[a]]
          BY <1>14 DEF Review!BindAsset
        <5> QED
          BY <5>1, <5>2 DEF Review!Bindings
      <4> QED
        BY <1>given, <1>14, <4>1 DEF Review!BindAsset, Review!TypeOK
    <3>3. OtherTypes'
      BY <1>given, <1>14
         DEF Review!BindAsset, Review!Raise, OtherTypes, Review!Modes, Review!TypeOK
    <3>4. Vacant'
      BY <1>given, <1>14, Records DEF Review!BindAsset, Vacant, Review!TypeOK
    <3> QED
      BY <3>1, <3>2, <3>3, <3>4 DEF Flags, Vacant, OtherTypes, Review!TypeOK
  <2>2. StageOK'
    BY <1>given, <2>0 DEF StageOK, Making, Fetching
  <2>3. KnowledgeOK'
    BY <1>given, <2>0 DEF KnowledgeOK, DiffKnown, Making
  <2>4. DirectoryOK'
    BY <1>given, <1>14 DEF Review!BindAsset, Review!Raise, DirectoryOK, StageOK, Making
  <2>5. Review!SuccessIsBound'
    BY <1>given, <1>14, <2>1
       DEF Review!BindAsset, Review!Raise, Review!SuccessIsBound, Review!Done, StageOK
  <2>6. Review!NoPartialWorkspace'
    BY <1>given, <1>14 DEF Review!BindAsset, Review!NoPartialWorkspace, StageOK
  <2> QED
    BY <2>1, <2>2, <2>3, <2>4, <2>5, <2>6, <1>whole
<1>15. CASE Review!Rewrite
  <2>1. Review!TypeOK'
    <3>1. Flags'
      BY <1>flags, <1>15, Zenon DEF Review!Rewrite, Review!WriteOutcome, Flags
    <3>2. meta' \in Review!Metadata /\ seen' \in Review!Metadata /\ read' \in Review!Bindings
      BY <1>given, <1>15, Records DEF Review!Rewrite, Review!TypeOK
    <3>3. OtherTypes'
      BY <1>given, <1>15 DEF Review!Rewrite, OtherTypes, Review!Modes, Review!TypeOK
    <3>4. Vacant'
      <4>1. dir /\ dir' = dir
        BY <1>given, <1>15, Records DEF Review!Rewrite, KnowledgeOK, StageOK, Review!TypeOK
      <4> QED
        BY <4>1 DEF Vacant
    <3> QED
      BY <3>1, <3>2, <3>3, <3>4 DEF Flags, Vacant, OtherTypes, Review!TypeOK
  <2>2. StageOK'
    BY <1>given, <1>15 DEF Review!Rewrite, StageOK, Making, Fetching
  <2>3. KnowledgeOK'
    BY <1>given, <1>15 DEF Review!Rewrite, KnowledgeOK, DiffKnown, Making
  <2>4. DirectoryOK'
    BY <1>given, <1>15
       DEF Review!Rewrite, Review!WriteOutcome, DirectoryOK, KnowledgeOK, StageOK, Making
  <2>5. Review!SuccessIsBound'
    BY <1>given, <1>15, <2>1 DEF Review!Rewrite, Review!SuccessIsBound, Review!Done, StageOK
  <2>6. Review!NoPartialWorkspace'
    BY <1>given, <1>15 DEF Review!Rewrite, Review!WriteOutcome, Review!NoPartialWorkspace,
                           KnowledgeOK, StageOK
  <2> QED
    BY <2>1, <2>2, <2>3, <2>4, <2>5, <2>6, <1>whole
<1>16. CASE Review!ComparePatch
  <2>1. Review!TypeOK'
    <3>1. Flags'
      BY <1>flags, <1>16, Zenon DEF Review!ComparePatch, Flags
    <3>2. meta' \in Review!Metadata /\ seen' \in Review!Metadata /\ read' \in Review!Bindings
      BY <1>given, <1>16, Records DEF Review!ComparePatch, Review!TypeOK
    <3>3. OtherTypes'
      BY <1>given, <1>16
         DEF Review!ComparePatch, Review!Raise, OtherTypes, Review!Modes, Review!TypeOK
    <3>4. Vacant'
      BY <1>given, <1>16, Records DEF Review!ComparePatch, Vacant, Review!TypeOK
    <3> QED
      BY <3>1, <3>2, <3>3, <3>4 DEF Flags, Vacant, OtherTypes, Review!TypeOK
  <2>2. StageOK'
    BY <1>given, <1>16 DEF Review!ComparePatch, Review!Raise, StageOK, Making, Fetching
  <2>3. KnowledgeOK'
    BY <1>given, <1>16 DEF Review!ComparePatch, Review!Raise, KnowledgeOK, DiffKnown
  <2>4. DirectoryOK'
    BY <1>given, <1>16 DEF Review!ComparePatch, Review!Raise, DirectoryOK, StageOK, Making
  <2>5. Review!SuccessIsBound'
    BY <1>given, <1>16, <2>1
       DEF Review!ComparePatch, Review!Raise, Review!SuccessIsBound, Review!Done
  <2>6. Review!NoPartialWorkspace'
    BY <1>given, <1>16 DEF Review!ComparePatch, Review!NoPartialWorkspace, StageOK
  <2> QED
    BY <2>1, <2>2, <2>3, <2>4, <2>5, <2>6, <1>whole
<1>17. CASE Review!CompareMetadata
  <2>1. Review!TypeOK'
    <3>1. Flags'
      BY <1>flags, <1>17, Zenon DEF Review!CompareMetadata, Flags
    <3>2. meta' \in Review!Metadata /\ seen' \in Review!Metadata /\ read' \in Review!Bindings
      BY <1>given, <1>17, Records DEF Review!CompareMetadata, Review!TypeOK
    <3>3. OtherTypes'
      BY <1>given, <1>17 DEF Review!CompareMetadata, OtherTypes, Review!Modes, Review!TypeOK
    <3>4. Vacant'
      BY <1>given, <1>17, Records DEF Review!CompareMetadata, Vacant, Review!TypeOK
    <3> QED
      BY <3>1, <3>2, <3>3, <3>4 DEF Flags, Vacant, OtherTypes, Review!TypeOK
  <2>2. StageOK'
    BY <1>given, <1>17 DEF Review!CompareMetadata, StageOK, Making, Fetching
  <2>3. KnowledgeOK'
    BY <1>given, <1>17 DEF Review!CompareMetadata, KnowledgeOK, DiffKnown
  <2>4. DirectoryOK'
    BY <1>given, <1>17 DEF Review!CompareMetadata, DirectoryOK, Making
  <2>5. Review!SuccessIsBound'
    BY <1>given, <1>17, <2>1 DEF Review!CompareMetadata, Review!SameMetadata,
                                 Review!SuccessIsBound, Review!Done, KnowledgeOK, DiffKnown
  <2>6. Review!NoPartialWorkspace'
    BY <1>given, <1>17 DEF Review!CompareMetadata, Review!NoPartialWorkspace, StageOK
  <2> QED
    BY <2>1, <2>2, <2>3, <2>4, <2>5, <2>6, <1>whole
<1>18. CASE Review!LeaveScratch
  <2>1. Review!TypeOK'
    <3>1. Flags'
      BY <1>flags, <1>18, Zenon DEF Review!LeaveScratch, Flags
    <3>2. meta' \in Review!Metadata /\ seen' \in Review!Metadata /\ read' \in Review!Bindings
      BY <1>given, <1>18, Records DEF Review!LeaveScratch, Review!TypeOK
    <3>3. OtherTypes'
      BY <1>given, <1>18 DEF Review!LeaveScratch, OtherTypes, Review!Modes, Review!TypeOK
    <3>4. Vacant'
      BY <1>given, <1>18, Records DEF Review!LeaveScratch, Vacant, Review!TypeOK
    <3> QED
      BY <3>1, <3>2, <3>3, <3>4 DEF Flags, Vacant, OtherTypes, Review!TypeOK
  <2>2. StageOK'
    BY <1>given, <1>18 DEF Review!LeaveScratch, StageOK, Making, Fetching
  <2>3. KnowledgeOK'
    BY <1>given, <1>18 DEF Review!LeaveScratch, KnowledgeOK, DiffKnown, Making
  <2>4. DirectoryOK'
    BY <1>given, <1>18 DEF Review!LeaveScratch, DirectoryOK, Making
  <2>5. Review!SuccessIsBound'
    BY <1>given, <1>18, <2>1
       DEF Review!LeaveScratch, Review!SuccessIsBound, Review!Done, KnowledgeOK, DiffKnown
  <2>6. Review!NoPartialWorkspace'
    BY <1>given, <1>18
       DEF Review!LeaveScratch, Review!NoPartialWorkspace, DirectoryOK, StageOK
  <2> QED
    BY <2>1, <2>2, <2>3, <2>4, <2>5, <2>6, <1>whole
<1>19. CASE UNCHANGED Review!vars
  <2>1. Review!TypeOK'
    <3>1. Flags'
      BY <1>flags, <1>19, Zenon DEF Review!vars, Flags
    <3>2. meta' \in Review!Metadata /\ seen' \in Review!Metadata /\ read' \in Review!Bindings
      BY <1>given, <1>19, Records DEF Review!vars, Review!TypeOK
    <3>3. OtherTypes'
      BY <1>given, <1>19 DEF Review!vars, OtherTypes, Review!Modes, Review!TypeOK
    <3>4. Vacant'
      BY <1>given, <1>19, Records DEF Review!vars, Vacant, Review!TypeOK
    <3> QED
      BY <3>1, <3>2, <3>3, <3>4 DEF Flags, Vacant, OtherTypes, Review!TypeOK
  <2>2. StageOK'
    BY <1>given, <1>19 DEF Review!vars, StageOK
  <2>3. KnowledgeOK'
    BY <1>given, <1>19 DEF Review!vars, KnowledgeOK, DiffKnown
  <2>4. DirectoryOK'
    BY <1>given, <1>19 DEF Review!vars, DirectoryOK
  <2>5. Review!SuccessIsBound'
    BY <1>given, <1>19, <2>1 DEF Review!vars, Review!SuccessIsBound, Review!Done
  <2>6. Review!NoPartialWorkspace'
    BY <1>given, <1>19 DEF Review!vars, Review!NoPartialWorkspace
  <2> QED
    BY <2>1, <2>2, <2>3, <2>4, <2>5, <2>6, <1>whole
<1> QED
  BY <1>1, <1>2, <1>3, <1>4, <1>5, <1>6, <1>7, <1>8, <1>9, <1>10, <1>11, <1>12, <1>13,
     <1>14, <1>15, <1>16, <1>17, <1>18, <1>19 DEF Review!Next, Review!Program

-----------------------------------------------------------------------------
(* Both levels in one exploration: whichever runs, each behaves as its own *)
(* module says.                                                            *)

LEMMA EachLevel == MCSpec => Spec /\ Review!Spec
<1>1. MCInit => Init /\ Review!Init
  BY DEF MCInit
<1>2. [MCNext]_<<level, vars, commands>> => [Next]_vars /\ [Review!Next]_Review!vars
  BY DEF MCNext, commands, vars, process, disk, Review!vars, Review!outside,
         Review!directory,
         Review!memory, Review!status
<1> QED
  BY <1>1, <1>2, PTL DEF MCSpec, Spec, Review!Spec

LEMMA FileInvariant == Spec => []IInv
BY InitInv, StepInv, PTL DEF Spec

LEMMA ReviewInvariant == Review!Spec => []ReviewInv
BY ReviewInit, ReviewStep, PTL DEF Review!Spec

(* The types hold, no descriptor is closed a second time, and a call that  *)
(* has ended by itself has closed, or tried once to close, everything.     *)
THEOREM DescriptorsAreClosedOnce == MCSpec => []ClosedOnce
<1>1. IInv => ClosedOnce
  BY DEF IInv
<1> QED
  BY EachLevel, FileInvariant, <1>1, PTL

(* A return means the work is done, an exception after the replacement has *)
(* a failed close as its reason, and a temporary file left behind is       *)
(* mentioned.                                                              *)
THEOREM CallersAreTold == MCSpec => []OutcomeIsTold
<1>1. IInv => OutcomeIsTold
  BY DEF IInv
<1> QED
  BY EachLevel, FileInvariant, <1>1, PTL

(* For parents of any depth and payloads of any size, whatever system call *)
(* fails and whenever the machine stops, a call is one atomic replacement  *)
(* or none.                                                                *)
THEOREM ReplacementIsAtomic == MCSpec => ImplementsAtomicReplace
<1>1. Spec => ImplementsAtomicReplace
  BY InitInv, StepInv, RefineInit, RefineStep, PTL
     DEF Spec, ImplementsAtomicReplace, Abstract!Spec
<1> QED
  BY EachLevel, <1>1, PTL

(* Whatever the pull request, the assets and the files of the directory do *)
(* and wherever earlier calls were stopped, a materialize that returns has *)
(* seen the pull request as expected after it had computed the diff, and a *)
(* verify moreover the patch and the asset digests it then compared.       *)
THEOREM SuccessesAreBound == MCSpec => []SuccessIsBound
<1>1. ReviewInv => SuccessIsBound
  BY DEF ReviewInv
<1> QED
  BY EachLevel, ReviewInvariant, <1>1, PTL

(* In any sequence of calls, a materialize that fails leaves no directory  *)
(* of its own half done unless it says so, and metadata stand without      *)
(* their patch only after a clean-up that was reported to have failed.     *)
THEOREM FailuresLeaveNothing == MCSpec => []NoPartialWorkspace
<1>1. ReviewInv => NoPartialWorkspace
  BY DEF ReviewInv
<1> QED
  BY EachLevel, ReviewInvariant, <1>1, PTL

=============================================================================
