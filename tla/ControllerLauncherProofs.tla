---------------------- MODULE ControllerLauncherProofs ----------------------
(***************************************************************************)
(* Proofs about the launcher of                                            *)
(* ansible/lookup_plugins/lit_controller_onepassword.py, for any limit,    *)
(* chunk, timeouts and number of workers, and any producer.                *)
(*                                                                         *)
(* The argument: what is written is either read or still in the pipe, so   *)
(* a read of nothing while there is room for one byte more than the limit  *)
(* means that the producer is done and the whole item is there.  Memory is *)
(* sealed with all of it, and sealed memory does not change.  Processes    *)
(* exist only behind a seal, and either the group is killed or the         *)
(* outcome is no return code.                                              *)
(***************************************************************************)
EXTENDS ControllerLauncher, TLAPS

Unsealed == {"require", "arguments", "input", "decode", "memory", "fill", "seal"}
Holding  == {"runtime", "spawn", "wait", "kill", "reap"}

(* The bytes on their way.                                                 *)
InputOK ==
  /\ pipe + payload = sent
  /\ pc \in {"require", "arguments", "input"} => payload <= Limit
  /\ pc \notin {"require", "arguments", "input", "exited"} =>
       closed /\ payload = sent /\ payload <= Limit
  /\ pc \notin {"require", "arguments", "input", "decode", "exited"} => body <= payload

(* What the memory holds.                                                  *)
MemoryOK ==
  /\ pc \in Unsealed => ~memory.sealed
  /\ pc = "seal" => memory.bytes = payload
  /\ memory.sealed => closed /\ memory.bytes = sent /\ body <= sent /\ sent <= Limit
  /\ pc \in Holding => memory.sealed

(* Who can hold the descriptor.                                            *)
HoldersOK ==
  /\ pc \notin {"require", "exited"} => namespaceInit
  /\ pc \in {"runtime", "spawn"} => leader = "none"
  /\ leader # "none" => memory.sealed
  /\ \A w \in Workers : worker[w] # "none" => leader # "none"
  /\ \A w \in Workers : got[w] = -1 \/ (got[w] = sent /\ memory.sealed)
  /\ pc = "exited" => ~Alive(leader) /\ \A w \in Workers : ~Alive(worker[w])

(* The group has been killed, and no member is forked again.               *)
KilledOff == leader # "running" /\ \A w \in Workers \ escaped : worker[w] # "running"

OutcomeOK ==
  /\ pc = "reap" \/ (pc = "cleanup" /\ outcome # "stopped") \/ pc = "report" => KilledOff
  /\ outcome = "rc" => pc \in {"close", "exited"} /\ KilledOff

IInv == TypeOK /\ InputOK /\ MemoryOK /\ HoldersOK /\ OutcomeOK

-----------------------------------------------------------------------------
USE ControllerLauncherAssumption DEF ControllerLauncherAssumption

LEMMA SmallerOfTwo ==
  ASSUME NEW a \in Int, NEW b \in Int
  PROVE  Min({a, b}) = IF a <= b THEN a ELSE b
<1> DEFINE m == IF a <= b THEN a ELSE b
<1>1. m \in {a, b} /\ \A y \in {a, b} : m <= y
  OBVIOUS
<1>2. \A x \in {a, b} : (\A y \in {a, b} : x <= y) => x = m
  OBVIOUS
<1> HIDE DEF m
<1>3. (CHOOSE x \in {a, b} : \A y \in {a, b} : x <= y) = m
  BY <1>1, <1>2
<1> QED
  BY <1>3 DEF Min, m

LEMMA InitInv == Init => IInv
<1> SUFFICES ASSUME Init PROVE IInv
  OBVIOUS
<1>1. TypeOK
  <2>1. /\ namespaceInit \in BOOLEAN /\ closed \in BOOLEAN /\ runtime \in BOOLEAN
    BY Zenon DEF Init
  <2>4. /\ body \in 1..MaxItem /\ sent \in 0..MaxItem
        /\ pipe \in 0..sent /\ clock \in Nat /\ payload \in 0..Limit + 1
    BY DEF Init
  <2>2. memory \in [open : BOOLEAN, bytes : 0..Limit, offset : 0..Limit, sealed : BOOLEAN]
    BY DEF Init
  <2>3. /\ leader \in States /\ worker \in [Workers -> States] /\ escaped \subseteq Workers
    BY DEF Init, States
  <2>5. got \in [Workers -> -1..Limit]
    <3>1. -1 \in -1..Limit
      OBVIOUS
    <3> QED
      BY <3>1 DEF Init
  <2> QED
    BY <2>1, <2>2, <2>3, <2>4, <2>5 DEF Init, TypeOK
<1>2. InputOK /\ MemoryOK
  BY DEF Init, InputOK, MemoryOK, Unsealed, Holding
<1>3. HoldersOK /\ OutcomeOK
  BY DEF Init, HoldersOK, OutcomeOK
<1> QED
  BY <1>1, <1>2, <1>3 DEF IInv

-----------------------------------------------------------------------------
(* The launcher's steps.                                                   *)

Steps    == {"require", "arguments", "input", "decode", "memory", "fill", "seal",
             "runtime", "spawn", "wait", "kill", "reap", "cleanup", "report",
             "close", "exited"}
Memories == [open : BOOLEAN, bytes : 0..Limit, offset : 0..Limit, sealed : BOOLEAN]

(* No process begins, and none is left when the init of the namespace      *)
(* ends.                                                                   *)
NoneBegins ==
  /\ leader' \in States /\ worker' \in [Workers -> States]
  /\ leader' = "none" <=> leader = "none"
  /\ leader' = "running" => leader = "running"
  /\ \A w \in Workers : /\ worker'[w] = "none" <=> worker[w] = "none"
                        /\ worker'[w] = "running" => worker[w] = "running"
  /\ pc' = "exited" /\ namespaceInit =>
       ~Alive(leader') /\ \A w \in Workers : ~Alive(worker'[w])

LEMMA GoneBeginsNone ==
  ASSUME TypeOK, NEW step, Continue(step)
  PROVE  pc' = step /\ NoneBegins
<1>1. CASE step = "exited" /\ namespaceInit
  BY <1>1 DEF Continue, Gone, NoneBegins, TypeOK, States, Alive
<1>2. CASE ~(step = "exited" /\ namespaceInit)
  BY <1>2 DEF Continue, NoneBegins, TypeOK
<1> QED
  BY <1>1, <1>2

LEMMA DoomedBeginsNone ==
  ASSUME TypeOK, pc' # "exited", leader' \in {leader, Doomed(leader)},
         worker' \in [Workers -> States],
         \A w \in Workers : worker'[w] \in {worker[w], Doomed(worker[w])}
  PROVE  NoneBegins
  BY DEF NoneBegins, Doomed, TypeOK, States

LEMMA StillKilledOff ==
  ASSUME KilledOff, NoneBegins, escaped' = escaped
  PROVE  KilledOff'
  BY DEF KilledOff, NoneBegins

(* What a step of the launcher has to show that reads no input.            *)
LEMMA Moved ==
  ASSUME IInv, UNCHANGED <<producer, payload, escaped, got>>, NoneBegins,
         pc # "exited", pc' \in Steps \ {"require"}, clock' \in Nat, runtime' \in BOOLEAN,
         outcome' \in {"none", "rc", "stopped"}, memory' \in Memories,
         memory.sealed => memory'.sealed,
         memory'.sealed => memory'.bytes = memory.bytes /\ (memory.sealed \/ pc = "seal"),
         pc \in {"require", "arguments", "input"} => pc' \in {"arguments", "input", "exited"},
         pc = "require" /\ pc' # "exited" => namespaceInit,
         pc' \in {"runtime", "spawn"} => pc \in {"seal", "runtime"},
         pc = "decode" /\ pc' # "exited" => body <= payload,
         pc' \in Unsealed => ~memory'.sealed,
         pc' = "seal" => memory'.bytes = payload,
         pc' \in Holding => memory'.sealed,
         OutcomeOK'
  PROVE  IInv'
<1> USE DEF IInv
<1>1. /\ namespaceInit' = namespaceInit /\ body' = body /\ sent' = sent /\ pipe' = pipe
      /\ closed' = closed /\ payload' = payload /\ escaped' = escaped /\ got' = got
  BY DEF producer
<1>2. TypeOK'
  BY <1>1 DEF TypeOK, NoneBegins, Steps, Memories
<1>3. InputOK'
  BY <1>1 DEF InputOK, Steps
<1>4. MemoryOK'
  <2>1. memory'.sealed => closed /\ memory'.bytes = sent /\ body <= sent /\ sent <= Limit
    BY DEF MemoryOK, InputOK
  <2> QED
    BY <1>1, <2>1 DEF MemoryOK
<1>5. HoldersOK'
  <2>1. pc' \notin {"require", "exited"} => namespaceInit'
    BY <1>1 DEF HoldersOK
  <2>2. pc' = "exited" => ~Alive(leader') /\ \A w \in Workers : ~Alive(worker'[w])
    <3>1. CASE namespaceInit
      BY <3>1 DEF NoneBegins
    <3>2. CASE ~namespaceInit
      <4>1. leader = "none" /\ \A w \in Workers : worker[w] = "none"
        BY <3>2 DEF HoldersOK, MemoryOK, Unsealed
      <4> QED
        BY <4>1 DEF NoneBegins, Alive
    <3> QED
      BY <3>1, <3>2
  <2>3. /\ leader' # "none" => memory'.sealed
        /\ \A w \in Workers : worker'[w] # "none" => leader' # "none"
        /\ pc' \in {"runtime", "spawn"} => leader' = "none"
    BY DEF HoldersOK, MemoryOK, Unsealed, NoneBegins
  <2>4. \A w \in Workers : got'[w] = -1 \/ (got'[w] = sent' /\ memory'.sealed)
    BY <1>1 DEF HoldersOK
  <2> QED
    BY <2>1, <2>2, <2>3, <2>4 DEF HoldersOK
<1> QED
  BY <1>2, <1>3, <1>4, <1>5

(* A step that goes on, or leaves through the finally clauses.             *)
Moves(next) ==
  /\ clock' = 0 /\ NoneBegins
  /\ \/ pc' = next /\ outcome' = outcome
     \/ pc' = Unwound(pc) /\ outcome' = "stopped"

LEMMA RaiseMoves ==
  ASSUME TypeOK, Raise
  PROVE  clock' = 0 /\ NoneBegins /\ pc' = Unwound(pc) /\ outcome' = "stopped"
  BY GoneBeginsNone DEF Raise

LEMMA StepMoves ==
  ASSUME TypeOK, NEW next,
         (Continue(next) /\ clock' = 0 /\ UNCHANGED outcome) \/ Raise
  PROVE  Moves(next)
  BY RaiseMoves, GoneBeginsNone DEF Moves

LEMMA UnwoundIsSafe ==
  ASSUME IInv, pc' = Unwound(pc), outcome' = "stopped"
  PROVE  OutcomeOK'
  BY DEF OutcomeOK, Unwound, IInv, TypeOK

LEMMA InterruptStep == ASSUME IInv, Interrupt PROVE IInv'
<1>1. TypeOK /\ pc \in Steps \ {"require", "exited"}
  BY DEF IInv, TypeOK, Interrupt, Steps
<1>2. clock' = 0 /\ NoneBegins /\ pc' = Unwound(pc) /\ outcome' = "stopped"
  BY <1>1, RaiseMoves DEF Interrupt
<1>3. UNCHANGED <<producer, payload, memory, runtime, escaped, got>>
  BY DEF Interrupt
<1>4. /\ pc' \in Steps \ {"require"} /\ pc' \notin Unsealed /\ pc' \notin {"seal", "runtime", "spawn"}
      /\ pc \in {"require", "arguments", "input", "decode"} => pc' = "exited"
      /\ pc' \in Holding => pc \in Holding
  BY <1>1, <1>2 DEF Unwound, Steps, Unsealed, Holding
<1>5. OutcomeOK'
  BY <1>2, UnwoundIsSafe
<1>6. pc \in Holding => memory.sealed
  BY DEF IInv, MemoryOK
<1>7. runtime \in BOOLEAN /\ memory \in Memories
  BY <1>1 DEF TypeOK, Memories
<1> QED
  BY <1>1, <1>2, <1>3, <1>4, <1>5, <1>6, <1>7, Moved

(* The steps before the child.                                             *)
LEMMA EarlyStep ==
  ASSUME IInv, NEW next \in Steps, Moves(next),
         UNCHANGED <<producer, payload, escaped, got>>, runtime' \in BOOLEAN,
         memory' \in Memories, memory.sealed => memory'.sealed,
         memory'.sealed => memory'.bytes = memory.bytes /\ (memory.sealed \/ pc = "seal"),
         \/ pc = "require" /\ next = "arguments" /\ namespaceInit /\ ~memory'.sealed
         \/ pc = "arguments" /\ next = "input" /\ ~memory'.sealed
         \/ pc = "decode" /\ next = "memory" /\ body <= payload /\ ~memory'.sealed
         \/ pc = "memory" /\ next = "fill" /\ ~memory'.sealed
         \/ pc = "fill" /\ next = "seal" /\ ~memory'.sealed /\ memory'.bytes = payload
         \/ pc = "seal" /\ next = "runtime" /\ (pc' = "runtime" => memory'.sealed)
         \/ pc = "runtime" /\ next = "spawn" /\ memory'.sealed
  PROVE  IInv'
<1>1. pc' \in {next, Unwound(pc)} /\ NoneBegins /\ clock' = 0 /\ outcome' \in {outcome, "stopped"}
  BY DEF Moves
<1>2. OutcomeOK'
  BY UnwoundIsSafe DEF Moves, IInv, OutcomeOK
<1>3. /\ pc' \in Steps \ {"require"} /\ pc # "exited"
      /\ pc' \in Unsealed => ~memory'.sealed
      /\ pc' = "seal" => memory'.bytes = payload
      /\ pc' \in Holding => memory'.sealed
      /\ pc \in {"require", "arguments", "input"} => pc' \in {"arguments", "input", "exited"}
      /\ pc' \in {"runtime", "spawn"} => pc \in {"seal", "runtime"}
  BY <1>1 DEF Unwound, Steps, Unsealed, Holding
<1>4. outcome' \in {"none", "rc", "stopped"}
  BY <1>1 DEF IInv, TypeOK
<1> QED
  BY <1>1, <1>2, <1>3, <1>4, Moved

LEMMA MemoryFields ==
  ASSUME TypeOK
  PROVE  /\ [memory EXCEPT !.open = TRUE] \in Memories
         /\ [memory EXCEPT !.open = FALSE] \in Memories
         /\ [memory EXCEPT !.sealed = TRUE] \in Memories
         /\ [memory EXCEPT !.open = TRUE].sealed = memory.sealed
         /\ [memory EXCEPT !.open = FALSE].bytes = memory.bytes
         /\ [memory EXCEPT !.open = FALSE].sealed = memory.sealed
         /\ [memory EXCEPT !.sealed = TRUE].bytes = memory.bytes
         /\ [memory EXCEPT !.sealed = TRUE].sealed = TRUE
         /\ payload <= Limit =>
              /\ [memory EXCEPT !.bytes = payload, !.offset = payload] \in Memories
              /\ [memory EXCEPT !.bytes = payload, !.offset = payload].bytes = payload
              /\ [memory EXCEPT !.bytes = payload, !.offset = payload].sealed = memory.sealed
<1>1. memory \in Memories /\ payload \in Nat
  BY DEF TypeOK, Memories
<1>2. ASSUME NEW b \in BOOLEAN
      PROVE  /\ [memory EXCEPT !.open = b] \in Memories
             /\ [memory EXCEPT !.open = b].bytes = memory.bytes
             /\ [memory EXCEPT !.open = b].sealed = memory.sealed
  BY <1>1 DEF Memories
<1>3. /\ [memory EXCEPT !.sealed = TRUE] \in Memories
      /\ [memory EXCEPT !.sealed = TRUE].bytes = memory.bytes
      /\ [memory EXCEPT !.sealed = TRUE].sealed = TRUE
  BY <1>1 DEF Memories
<1>4. ASSUME payload <= Limit
      PROVE  /\ [memory EXCEPT !.bytes = payload, !.offset = payload] \in Memories
             /\ [memory EXCEPT !.bytes = payload, !.offset = payload].bytes = payload
             /\ [memory EXCEPT !.bytes = payload, !.offset = payload].sealed = memory.sealed
  <2>1. payload \in 0..Limit
    BY <1>1, <1>4
  <2> QED
    BY <1>1, <2>1 DEF Memories
<1>5. TRUE \in BOOLEAN /\ FALSE \in BOOLEAN
  OBVIOUS
<1> QED
  BY <1>2, <1>3, <1>4, <1>5

LEMMA EarlySteps ==
  ASSUME IInv,
         \/ RequireNamespaceInit \/ Arguments \/ Decode \/ CreateMemory
         \/ FillMemory \/ SealMemory \/ CreateRuntime
  PROVE  IInv'
<1>1. /\ TypeOK /\ memory \in Memories /\ runtime \in BOOLEAN
      /\ pc \in Unsealed => ~memory.sealed
  BY DEF IInv, TypeOK, Memories, MemoryOK
<1>2. CASE RequireNamespaceInit
  <2>1. /\ pc = "require" /\ Moves("arguments") /\ ~memory.sealed
        /\ namespaceInit \/ pc' = "exited"
    BY <1>1, <1>2, StepMoves, RaiseMoves
       DEF RequireNamespaceInit, Step, Unsealed, Unwound
  <2>2. UNCHANGED <<producer, payload, memory, runtime, escaped, got>>
    BY <1>2 DEF RequireNamespaceInit
  <2>3. CASE namespaceInit
    BY <1>1, <2>1, <2>2, <2>3, EarlyStep DEF Steps
  <2>4. CASE ~namespaceInit
    <3>1. pc' = "exited" /\ NoneBegins /\ clock' = 0 /\ outcome' \in {outcome, "stopped"}
      BY <2>1, <2>4 DEF Moves
    <3>2. OutcomeOK'
      BY <2>1, <3>1, UnwoundIsSafe DEF Moves, Unwound
    <3> QED
      BY <1>1, <2>1, <2>2, <3>1, <3>2, Moved DEF Steps, Unsealed, Holding, IInv, TypeOK
  <2> QED
    BY <2>3, <2>4
<1>3. CASE Arguments
  <2>1. pc = "arguments" /\ Moves("input") /\ ~memory.sealed
    BY <1>1, <1>3, StepMoves DEF Arguments, Step, Unsealed
  <2>2. UNCHANGED <<producer, payload, memory, runtime, escaped, got>>
    BY <1>3 DEF Arguments
  <2> QED
    BY <1>1, <2>1, <2>2, EarlyStep DEF Steps
<1>4. CASE Decode
  <2>1. pc = "decode" /\ Moves("memory") /\ ~memory.sealed /\ (body <= payload \/ pc' = "exited")
    BY <1>1, <1>4, StepMoves, RaiseMoves DEF Decode, Step, Unsealed, Unwound, TypeOK
  <2>2. UNCHANGED <<producer, payload, memory, runtime, escaped, got>>
    BY <1>4 DEF Decode
  <2>3. CASE body <= payload
    BY <1>1, <2>1, <2>2, <2>3, EarlyStep DEF Steps
  <2>4. CASE pc' = "exited"
    <3>1. NoneBegins /\ clock' = 0 /\ outcome' \in {outcome, "stopped"}
      BY <2>1 DEF Moves
    <3>2. OutcomeOK'
      BY <2>1, <2>4, UnwoundIsSafe DEF Moves, Unwound
    <3> QED
      BY <1>1, <2>1, <2>2, <2>4, <3>1, <3>2, Moved DEF Steps, Unsealed, Holding, IInv, TypeOK
  <2> QED
    BY <2>1, <2>3, <2>4
<1>5. CASE CreateMemory
  <2>1. pc = "memory" /\ Moves("fill") /\ ~memory.sealed
    BY <1>1, <1>5, StepMoves DEF CreateMemory, Step, Unsealed
  <2>2. /\ UNCHANGED <<producer, payload, runtime, escaped, got>>
        /\ memory' \in Memories /\ ~memory'.sealed
    BY <1>1, <1>5, <2>1, MemoryFields DEF CreateMemory
  <2> QED
    BY <1>1, <2>1, <2>2, EarlyStep DEF Steps
<1>6. CASE FillMemory
  <2>1. pc = "fill" /\ Moves("seal") /\ ~memory.sealed /\ payload <= Limit
    BY <1>1, <1>6, StepMoves DEF FillMemory, Step, Unsealed, IInv, InputOK
  <2>2. /\ UNCHANGED <<producer, payload, runtime, escaped, got>>
        /\ memory' \in Memories /\ ~memory'.sealed /\ memory'.bytes = payload
    BY <1>1, <1>6, <2>1, MemoryFields DEF FillMemory
  <2> QED
    BY <1>1, <2>1, <2>2, EarlyStep DEF Steps
<1>7. CASE SealMemory
  <2>1. pc = "seal" /\ Moves("runtime") /\ ~memory.sealed
    BY <1>1, <1>7, StepMoves DEF SealMemory, Unsealed
  <2>2. /\ UNCHANGED <<producer, payload, runtime, escaped, got>>
        /\ memory' \in Memories /\ memory'.bytes = memory.bytes
        /\ pc' = "runtime" => memory'.sealed
    BY <1>1, <1>7, <2>1, MemoryFields, RaiseMoves DEF SealMemory, Unwound
  <2> QED
    BY <1>1, <2>1, <2>2, EarlyStep DEF Steps
<1>8. CASE CreateRuntime
  <2>1. pc = "runtime" /\ Moves("spawn")
    BY <1>1, <1>8, StepMoves DEF CreateRuntime
  <2>2. UNCHANGED <<producer, payload, memory, escaped, got>> /\ runtime' \in BOOLEAN
    BY <1>1, <1>8 DEF CreateRuntime
  <2>3. memory.sealed
    BY <2>1 DEF IInv, MemoryOK, Holding
  <2> QED
    BY <1>1, <2>1, <2>2, <2>3, EarlyStep DEF Steps
<1> QED
  BY <1>2, <1>3, <1>4, <1>5, <1>6, <1>7, <1>8

(* A read of nothing is the end of the item, because the last read could   *)
(* always have taken one byte more than the limit.                         *)
LEMMA ReadInputStep == ASSUME IInv, ReadInput PROVE IInv'
<1> USE DEF IInv
<1>1. /\ TypeOK /\ pc = "input" /\ payload \in Nat /\ payload <= Limit /\ pipe \in Nat
      /\ sent \in Nat /\ ~memory.sealed /\ memory \in Memories /\ runtime \in BOOLEAN
  BY DEF ReadInput, TypeOK, InputOK, MemoryOK, Unsealed, Memories
<1>2. /\ UNCHANGED <<namespaceInit, body, sent, closed, memory, runtime, escaped, got>>
  BY DEF ReadInput
<1> DEFINE n == Min({pipe, ReadSize})
<1>3. /\ n \in Nat /\ n <= pipe /\ payload + n <= Limit + 1
      /\ n = 0 => pipe = 0
  <2>1. /\ ReadSize \in Nat /\ 1 <= ReadSize /\ payload + ReadSize <= Limit + 1
    BY <1>1, SmallerOfTwo DEF ReadSize
  <2>2. n = IF pipe <= ReadSize THEN pipe ELSE ReadSize
    BY <1>1, <2>1, SmallerOfTwo
  <2> HIDE DEF n
  <2> QED
    BY <1>1, <2>1, <2>2
<1>4. \/ InputExpired /\ Raise /\ UNCHANGED <<pipe, payload>>
      \/ /\ ~InputExpired /\ n > 0
         /\ pipe' = pipe - n /\ payload' = payload + n
         /\ IF payload + n > Limit THEN Raise ELSE UNCHANGED <<pc, leader, worker, outcome, clock>>
      \/ /\ ~InputExpired /\ n = 0 /\ (pipe > 0 \/ closed)
         /\ UNCHANGED <<pipe, payload>>
         /\ IF payload = 0 THEN Raise
            ELSE Continue("decode") /\ clock' = 0 /\ UNCHANGED outcome
  BY DEF ReadInput
<1> HIDE DEF n
<1>5. /\ pipe' + payload' = sent /\ pipe' \in 0..sent /\ payload' \in 0..Limit + 1
  BY <1>1, <1>3, <1>4 DEF InputOK, TypeOK
<1>6. \/ Raise
      \/ pc' = "input" /\ payload' <= Limit /\ UNCHANGED <<leader, worker, outcome, clock>>
      \/ /\ Continue("decode") /\ clock' = 0 /\ UNCHANGED outcome
         /\ closed /\ payload' = sent /\ payload' <= Limit
  <2>1. CASE n = 0 /\ UNCHANGED <<pipe, payload>> /\ closed
             /\ Continue("decode") /\ clock' = 0 /\ UNCHANGED outcome
    BY <1>1, <1>3, <1>5, <2>1
  <2>2. CASE n > 0 /\ payload' = payload + n /\ payload + n <= Limit
             /\ UNCHANGED <<pc, leader, worker, outcome, clock>>
    BY <1>1, <2>2
  <2> QED
    BY <1>1, <1>3, <1>4, <2>1, <2>2
<1>7. /\ NoneBegins /\ clock' \in Nat /\ outcome' \in {outcome, "stopped"}
      /\ pc' \in {"input", "decode", "exited"}
      /\ pc' = "input" => payload' <= Limit
      /\ pc' = "decode" => closed /\ payload' = sent /\ payload' <= Limit
  <2>1. CASE Raise
    BY <1>1, <2>1, RaiseMoves DEF Unwound
  <2>2. CASE pc' = "input" /\ payload' <= Limit /\ UNCHANGED <<leader, worker, outcome, clock>>
    BY <1>1, <2>2 DEF NoneBegins, TypeOK
  <2>3. CASE /\ Continue("decode") /\ clock' = 0 /\ UNCHANGED outcome
             /\ closed /\ payload' = sent /\ payload' <= Limit
    BY <1>1, <2>3, GoneBeginsNone
  <2> QED
    BY <1>6, <2>1, <2>2, <2>3
<1>8. TypeOK'
  BY <1>1, <1>2, <1>5, <1>7 DEF TypeOK, NoneBegins
<1>9. InputOK'
  BY <1>2, <1>5, <1>7 DEF InputOK
<1>10. MemoryOK'
  BY <1>1, <1>2, <1>7 DEF MemoryOK, Holding
<1>11. HoldersOK'
  <2>1. leader = "none" /\ \A w \in Workers : worker[w] = "none" /\ got[w] = -1
    BY <1>1 DEF HoldersOK
  <2>2. leader' = "none" /\ \A w \in Workers : worker'[w] = "none" /\ got'[w] = -1
    BY <1>2, <1>7, <2>1 DEF NoneBegins
  <2>3. namespaceInit'
    BY <1>1, <1>2 DEF HoldersOK
  <2> QED
    BY <2>2, <2>3 DEF HoldersOK, Alive
<1>12. OutcomeOK'
  BY <1>1, <1>7 DEF OutcomeOK
<1> QED
  BY <1>8, <1>9, <1>10, <1>11, <1>12

(* The child.                                                              *)
LEMMA SpawnStep == ASSUME IInv, Spawn PROVE IInv'
<1> USE DEF IInv
<1>1. /\ TypeOK /\ pc = "spawn" /\ memory.sealed /\ namespaceInit
      /\ closed /\ payload = sent /\ payload <= Limit /\ body <= payload
  BY DEF Spawn, MemoryOK, Holding, HoldersOK, InputOK
<1>2. /\ UNCHANGED <<producer, payload, memory, runtime, escaped, got>> /\ worker' = worker
      /\ clock' = 0 /\ leader' \in {"none", "running"}
      /\ \/ leader' = "running" /\ pc' = "wait" /\ UNCHANGED outcome
         \/ pc' = "cleanup" /\ outcome' = "stopped"
  BY DEF Spawn
<1>3. leader = "none" /\ \A w \in Workers : worker[w] = "none" /\ got[w] \in {-1, sent}
  BY <1>1 DEF HoldersOK
<1>4. outcome # "rc"
  BY <1>1 DEF OutcomeOK
<1>5. TypeOK'
  BY <1>1, <1>2 DEF TypeOK, States, producer
<1>6. InputOK' /\ MemoryOK'
  BY <1>1, <1>2 DEF InputOK, MemoryOK, producer, Unsealed
<1>7. HoldersOK'
  BY <1>1, <1>2, <1>3 DEF HoldersOK, producer
<1>8. OutcomeOK'
  BY <1>2, <1>4 DEF OutcomeOK
<1> QED
  BY <1>5, <1>6, <1>7, <1>8

LEMMA WaitStep == ASSUME IInv, Wait PROVE IInv'
<1> USE DEF IInv
<1>1. /\ TypeOK /\ pc = "wait" /\ memory.sealed /\ pc' = "kill" /\ clock' = 0
      /\ UNCHANGED <<producer, payload, memory, runtime, processes>>
      /\ outcome' \in {outcome, "stopped"}
  BY DEF Wait, MemoryOK, Holding
<1>2. UNCHANGED <<escaped, got>> /\ NoneBegins /\ memory \in Memories /\ runtime \in BOOLEAN
  BY <1>1 DEF processes, NoneBegins, TypeOK, Memories
<1>3. OutcomeOK'
  BY <1>1 DEF OutcomeOK
<1> QED
  BY <1>1, <1>2, <1>3, Moved DEF Steps, Unsealed, TypeOK

(* Whoever is in the group when it is killed has ended or will.            *)
LEMMA KillGroupStep == ASSUME IInv, KillGroup PROVE IInv'
<1> USE DEF IInv
<1>1. /\ TypeOK /\ pc = "kill" /\ memory.sealed /\ pc' = "reap" /\ clock' = 0
      /\ UNCHANGED <<producer, payload, memory, runtime, escaped, got, outcome>>
  BY DEF KillGroup, MemoryOK, Holding
<1>2. /\ leader' = Doomed(leader)
      /\ worker' = [w \in Workers |-> IF w \in escaped THEN worker[w] ELSE Doomed(worker[w])]
  BY DEF KillGroup
<1>3. worker' \in [Workers -> States]
  BY <1>1, <1>2 DEF TypeOK, Doomed, States
<1>4. NoneBegins
  BY <1>1, <1>2, <1>3, DoomedBeginsNone
<1>5. KilledOff'
  BY <1>1, <1>2 DEF KilledOff, Doomed
<1>6. OutcomeOK'
  BY <1>1, <1>5 DEF OutcomeOK
<1>7. memory \in Memories /\ runtime \in BOOLEAN
  BY <1>1 DEF TypeOK, Memories
<1> QED
  BY <1>1, <1>4, <1>6, <1>7, Moved DEF Steps, Unsealed, TypeOK

LEMMA ReapStep == ASSUME IInv, Reap PROVE IInv'
<1> USE DEF IInv
<1>1. /\ TypeOK /\ pc = "reap" /\ pc' = "cleanup" /\ clock' = 0
      /\ UNCHANGED <<producer, payload, memory, runtime, processes>>
      /\ outcome' \in {outcome, "stopped"} /\ outcome # "rc"
  BY DEF Reap, OutcomeOK
<1>2. UNCHANGED <<escaped, got>> /\ NoneBegins /\ memory \in Memories /\ runtime \in BOOLEAN
  BY <1>1 DEF processes, NoneBegins, TypeOK, Memories
<1>3. OutcomeOK'
  BY <1>1, <1>2, StillKilledOff DEF OutcomeOK
<1> QED
  BY <1>1, <1>2, <1>3, Moved DEF Steps, Unsealed, Holding, TypeOK

LEMMA CleanupStep == ASSUME IInv, Cleanup PROVE IInv'
<1> USE DEF IInv
<1>1. /\ TypeOK /\ pc = "cleanup" /\ clock' = 0 /\ memory' = memory
      /\ UNCHANGED <<producer, payload, processes>>
      /\ \/ runtime' = FALSE /\ UNCHANGED outcome
            /\ pc' = IF outcome = "stopped" THEN "close" ELSE "report"
         \/ outcome' = "stopped" /\ pc' = "close" /\ UNCHANGED runtime
  BY DEF Cleanup
<1>2. UNCHANGED <<escaped, got>> /\ NoneBegins /\ memory \in Memories /\ outcome # "rc"
  BY <1>1 DEF processes, NoneBegins, TypeOK, Memories, OutcomeOK
<1>3. runtime' \in BOOLEAN
  BY Zenon, <1>1 DEF TypeOK
<1>4. OutcomeOK'
  BY <1>1, <1>2, StillKilledOff DEF OutcomeOK
<1> QED
  BY <1>1, <1>2, <1>3, <1>4, Moved DEF Steps, Unsealed, Holding, TypeOK

LEMMA ReportStep == ASSUME IInv, Report PROVE IInv'
<1> USE DEF IInv
<1>1. /\ TypeOK /\ pc = "report" /\ pc' = "close" /\ outcome' = "rc"
      /\ UNCHANGED <<producer, clock, payload, memory, runtime, processes>>
  BY DEF Report
<1>2. /\ UNCHANGED <<escaped, got>> /\ NoneBegins /\ memory \in Memories /\ runtime \in BOOLEAN
      /\ clock \in Nat
  BY <1>1 DEF processes, NoneBegins, TypeOK, Memories
<1>3. OutcomeOK'
  BY <1>1, <1>2, StillKilledOff DEF OutcomeOK
<1> QED
  BY <1>1, <1>2, <1>3, Moved DEF Steps, Unsealed, Holding, TypeOK

LEMMA CloseStep == ASSUME IInv, Close PROVE IInv'
<1> USE DEF IInv
<1>1. /\ TypeOK /\ pc = "close" /\ Continue("exited")
      /\ memory' = [memory EXCEPT !.open = FALSE]
      /\ UNCHANGED <<producer, clock, payload, runtime, escaped, got, outcome>>
  BY DEF Close
<1>2. pc' = "exited" /\ NoneBegins
  BY <1>1, GoneBeginsNone
<1>3. memory' \in Memories /\ memory'.bytes = memory.bytes /\ memory'.sealed = memory.sealed
  BY <1>1, MemoryFields
<1>4. OutcomeOK'
  BY <1>1, <1>2, StillKilledOff DEF OutcomeOK
<1>5. clock \in Nat /\ runtime \in BOOLEAN /\ outcome \in {"none", "rc", "stopped"}
  BY <1>1 DEF TypeOK
<1> QED
  BY <1>1, <1>2, <1>3, <1>4, <1>5, Moved DEF Steps, Unsealed, Holding

-----------------------------------------------------------------------------
(* The steps of the others.                                                *)

LEMMA ProduceStep == ASSUME IInv, Produce PROVE IInv'
<1> USE DEF IInv
<1>1. /\ TypeOK /\ ~closed
      /\ \/ sent < MaxItem /\ sent' = sent + 1 /\ pipe' = pipe + 1 /\ UNCHANGED closed
         \/ closed' = TRUE /\ UNCHANGED <<sent, pipe>>
      /\ UNCHANGED <<namespaceInit, body, pc, clock, payload, memory, runtime>>
      /\ UNCHANGED <<leader, worker, escaped, got, outcome>>
  BY DEF Produce, processes
<1>2. ~memory.sealed
  BY <1>1 DEF MemoryOK
<1>3. closed' \in BOOLEAN
  BY Zenon, <1>1 DEF TypeOK
<1>4. sent' \in 0..MaxItem /\ pipe' \in 0..sent' /\ pipe' + payload' = sent'
  BY <1>1 DEF TypeOK, InputOK
<1>5. TypeOK'
  BY <1>1, <1>3, <1>4 DEF TypeOK
<1>6. InputOK'
  BY <1>1, <1>4 DEF InputOK
<1>7. MemoryOK'
  BY <1>1, <1>2 DEF MemoryOK
<1>8. HoldersOK'
  BY <1>1, <1>2 DEF HoldersOK
<1>9. OutcomeOK'
  BY <1>1 DEF OutcomeOK, KilledOff
<1> QED
  BY <1>5, <1>6, <1>7, <1>8, <1>9

LEMMA TickStep == ASSUME IInv, Tick PROVE IInv'
<1> USE DEF IInv
<1>1. /\ UNCHANGED <<namespaceInit, body, sent, pipe, closed, pc, payload, memory, runtime>>
      /\ UNCHANGED <<leader, worker, escaped, got, outcome>> /\ clock' = clock + 1
  BY DEF Tick, producer, processes
<1>2. TypeOK'
  BY <1>1 DEF TypeOK
<1>3. InputOK' /\ MemoryOK'
  BY <1>1 DEF InputOK, MemoryOK
<1>4. HoldersOK' /\ OutcomeOK'
  BY <1>1 DEF HoldersOK, OutcomeOK, KilledOff
<1> QED
  BY <1>2, <1>3, <1>4

(* The playbook's processes end, read, and fork while the playbook itself  *)
(* runs.                                                                   *)
LEMMA PlaybookStep == ASSUME IInv, Playbook PROVE IInv'
<1> USE DEF IInv
<1>1. /\ UNCHANGED <<namespaceInit, body, sent, pipe, closed, pc, clock, payload, memory>>
      /\ UNCHANGED <<runtime, outcome>>
  BY DEF Playbook, PlaybookExits, Fork, WorkerEnds, ReadItem, producer
<1>2. InputOK' /\ MemoryOK'
  BY <1>1 DEF InputOK, MemoryOK
<1>3. ASSUME leader' \in States, worker' \in [Workers -> States], escaped' \subseteq Workers,
             got' \in [Workers -> -1..Limit]
      PROVE  TypeOK'
  BY <1>1, <1>3 DEF TypeOK
<1>4. ASSUME NoneBegins, UNCHANGED <<escaped, got>>, pc # "exited" PROVE IInv'
  <2>1. HoldersOK'
    BY <1>1, <1>4 DEF HoldersOK, NoneBegins
  <2>2. OutcomeOK'
    BY <1>1, <1>4, StillKilledOff DEF OutcomeOK
  <2>3. TypeOK'
    BY <1>3, <1>4 DEF NoneBegins, TypeOK
  <2> QED
    BY <1>2, <2>1, <2>2, <2>3
<1>5. CASE PlaybookExits
  <2>1. /\ Alive(leader) /\ leader' = "dead" /\ UNCHANGED <<worker, escaped, got>>
    BY <1>5 DEF PlaybookExits, Alive
  <2>2. pc # "exited"
    BY <2>1 DEF HoldersOK
  <2>3. NoneBegins
    BY <1>1, <2>1, <2>2 DEF NoneBegins, TypeOK, States, Alive
  <2> QED
    BY <1>4, <2>1, <2>2, <2>3
<1>6. ASSUME NEW w \in Workers, WorkerEnds(w) PROVE IInv'
  <2>1. /\ Alive(worker[w]) /\ worker' = [worker EXCEPT ![w] = "dead"]
        /\ UNCHANGED <<leader, escaped, got>>
    BY <1>6 DEF WorkerEnds, Alive
  <2>2. pc # "exited"
    BY <2>1 DEF HoldersOK
  <2>3. NoneBegins
    BY <1>1, <2>1, <2>2 DEF NoneBegins, TypeOK, States, Alive
  <2> QED
    BY <1>4, <2>1, <2>2, <2>3
<1>7. ASSUME NEW w \in Workers, Fork(w) PROVE IInv'
  <2>1. /\ leader = "running" /\ leader' = leader /\ got' = got
        /\ worker' = [worker EXCEPT ![w] = "running"]
        /\ escaped' \in {escaped, escaped \cup {w}}
    BY <1>7 DEF Fork
  <2>2. pc # "exited" /\ ~KilledOff
    BY <2>1 DEF HoldersOK, KilledOff, Alive
  <2>3. TypeOK'
    BY <1>3, <2>1 DEF TypeOK, States
  <2>4. HoldersOK'
    BY <1>1, <2>1, <2>2 DEF HoldersOK, TypeOK
  <2>5. OutcomeOK'
    BY <1>1, <2>2 DEF OutcomeOK
  <2> QED
    BY <1>2, <2>3, <2>4, <2>5
<1>8. ASSUME NEW w \in Workers, ReadItem(w) PROVE IInv'
  <2>1. /\ memory.sealed /\ got' = [got EXCEPT ![w] = memory.bytes]
        /\ UNCHANGED <<leader, worker, escaped>>
    BY <1>8 DEF ReadItem
  <2>2. memory.bytes = sent /\ memory.bytes \in -1..Limit
    BY <2>1 DEF MemoryOK, TypeOK
  <2>3. TypeOK'
    BY <1>3, <2>1, <2>2 DEF TypeOK
  <2>4. HoldersOK'
    BY <1>1, <2>1, <2>2 DEF HoldersOK, TypeOK
  <2>5. OutcomeOK'
    BY <1>1, <2>1 DEF OutcomeOK, KilledOff
  <2> QED
    BY <1>2, <2>3, <2>4, <2>5
<1> QED
  BY <1>5, <1>6, <1>7, <1>8 DEF Playbook

-----------------------------------------------------------------------------
(* The theorems.                                                           *)

LEMMA NextInv == IInv /\ [Next]_vars => IInv'
<1> SUFFICES ASSUME IInv, [Next]_vars PROVE IInv'
  OBVIOUS
<1>1. CASE Launcher
  BY <1>1, EarlySteps, ReadInputStep, SpawnStep, WaitStep, KillGroupStep, ReapStep,
     CleanupStep, ReportStep, CloseStep DEF Launcher
<1>2. CASE Interrupt \/ Produce \/ Tick \/ Playbook
  BY <1>2, InterruptStep, ProduceStep, TickStep, PlaybookStep
<1>3. CASE UNCHANGED vars
  BY <1>3 DEF vars, producer, processes, IInv, TypeOK, InputOK, MemoryOK, HoldersOK, OutcomeOK,
              KilledOff
<1> QED
  BY <1>1, <1>2, <1>3 DEF Next

THEOREM InvariantHolds == Spec => []IInv
<1> QED
  BY InitInv, NextInv, PTL DEF Spec

(* Every process that can reach the item, whether playbook or worker,      *)
(* finds all the producer wrote, sealed and within the limit, and every    *)
(* lookup returns the whole of it.                                         *)
THEOREM ItemsAreWhole == Spec => []ItemIsWhole
<1>1. IInv => ItemIsWhole
  BY DEF IInv, TypeOK, MemoryOK, HoldersOK, ItemIsWhole
<1> QED
  BY <1>1, InvariantHolds, PTL

(* A return code means that the playbook's group has been killed, and      *)
(* after the launcher nobody with the descriptor is alive.                 *)
THEOREM NoHolderRemains == Spec => []HoldersAreGone
<1>1. IInv => HoldersAreGone
  BY DEF IInv, HoldersOK, OutcomeOK, KilledOff, HoldersAreGone
<1> QED
  BY <1>1, InvariantHolds, PTL

=============================================================================
