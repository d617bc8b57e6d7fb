------------------------- MODULE ControllerLauncher -------------------------
(***************************************************************************)
(* ansible/lookup_plugins/lit_controller_onepassword.py: the launcher that *)
(* takes one item from its standard input, puts it into sealed memory and  *)
(* runs ansible-playbook with that descriptor, and the lookups of the      *)
(* playbook's forked workers, which read the item from it.                 *)
(*                                                                         *)
(* External: the producer of the item, which may trickle, stop or never    *)
(* close its pipe, the playbook, which may hang, fork and leave its        *)
(* process group, SIGTERM at any moment, and the kernel, which ends every  *)
(* process of a PID namespace with its init.                               *)
(***************************************************************************)
EXTENDS Integers, FiniteSetsExt

CONSTANTS
  Workers,       \* processes the playbook may fork
  Limit,         \* LIMIT
  Chunk,         \* the 65536 of one os.read
  InputTimeout,  \* of read_stdin (30 s), in ticks
  RunTimeout,    \* of run_child (1800 s)
  WaitGrace,     \* of the wait after SIGKILL (5 s)
  MaxItem        \* bound: bytes the producer writes

ASSUME ControllerLauncherAssumption ==
  /\ Limit \in Nat \ {0} /\ Chunk \in Nat \ {0} /\ MaxItem \in Nat
  /\ InputTimeout \in Nat /\ RunTimeout \in Nat /\ WaitGrace \in Nat

VARIABLES
  namespaceInit,  \* the launcher is PID 1 of its namespace
  body,           \* bytes up to the end of the producer's JSON document
  sent, pipe,     \* bytes written, and of these unread
  closed,         \* the producer has closed the pipe
  pc,
  clock,          \* since the current wait began
  payload,        \* bytes read
  memory,         \* the memfd: whether open, its bytes, offset and seals
  runtime,        \* the TemporaryDirectory exists
  leader,         \* "none", "running", "doomed" (SIGKILL is pending), "dead"
  worker,         \* worker[w], likewise
  escaped,        \* workers that left the process group
  got,            \* got[w]: bytes its lookup read, -1 before
  outcome         \* "none", "rc" or "stopped"

producer  == <<namespaceInit, body, sent, pipe, closed>>
processes == <<leader, worker, escaped, got>>
vars == <<producer, pc, clock, payload, memory, runtime, processes, outcome>>

States == {"none", "running", "doomed", "dead"}

TypeOK ==
  /\ namespaceInit \in BOOLEAN
  /\ body \in 1..MaxItem /\ sent \in 0..MaxItem
  /\ pipe \in 0..sent /\ closed \in BOOLEAN
  /\ pc \in {"require", "arguments", "input", "decode", "memory", "fill", "seal",
             "runtime", "spawn", "wait", "kill", "reap", "cleanup", "report",
             "close", "exited"}
  /\ clock \in Nat
  /\ payload \in 0..Limit + 1
  /\ memory \in [open : BOOLEAN, bytes : 0..Limit, offset : 0..Limit, sealed : BOOLEAN]
  /\ runtime \in BOOLEAN
  /\ leader \in States /\ worker \in [Workers -> States] /\ escaped \subseteq Workers
  /\ got \in [Workers -> -1..Limit]
  /\ outcome \in {"none", "rc", "stopped"}

Init ==
  /\ namespaceInit \in BOOLEAN
  /\ body \in 1..MaxItem
  /\ sent = 0 /\ pipe = 0 /\ closed = FALSE
  /\ pc = "require" /\ clock = 0 /\ payload = 0
  /\ memory = [open |-> FALSE, bytes |-> 0, offset |-> 0, sealed |-> FALSE]
  /\ runtime = FALSE
  /\ leader = "none" /\ worker = [w \in Workers |-> "none"] /\ escaped = {}
  /\ got = [w \in Workers |-> -1]
  /\ outcome = "none"

-----------------------------------------------------------------------------
(* The producer, and time.                                                 *)

Produce ==
  /\ ~closed
  /\ \/ sent < MaxItem /\ sent' = sent + 1 /\ pipe' = pipe + 1 /\ UNCHANGED closed
     \/ closed' = TRUE /\ UNCHANGED <<sent, pipe>>
  /\ UNCHANGED <<namespaceInit, body, pc, clock, payload, memory, runtime,
                 processes, outcome>>

Tick ==
  /\ pc \in {"input", "wait", "reap"}
  /\ clock < Max({InputTimeout, RunTimeout, WaitGrace}) /\ clock' = clock + 1
  /\ UNCHANGED <<producer, pc, payload, memory, runtime, processes, outcome>>

-----------------------------------------------------------------------------
(* How an exception leaves each step: through the finally clauses it is    *)
(* in.                                                                     *)

Unwound(step) ==
  IF step \in {"require", "arguments", "input", "decode", "memory", "close"} THEN "exited"
  ELSE IF step = "wait" THEN "kill"
  ELSE IF step \in {"spawn", "kill", "reap"} THEN "cleanup"
  ELSE "close"

(* With the exit of its init the kernel ends every process of the          *)
(* namespace.                                                              *)
Gone(state) == IF state = "none" THEN "none" ELSE "dead"

Continue(step) ==
  /\ pc' = step
  /\ IF step = "exited" /\ namespaceInit
     THEN leader' = Gone(leader) /\ worker' = [w \in Workers |-> Gone(worker[w])]
     ELSE UNCHANGED <<leader, worker>>

Raise == Continue(Unwound(pc)) /\ outcome' = "stopped" /\ clock' = 0

(* InterruptedError from the SIGTERM handler.  Until it is installed, an   *)
(* init does not receive the signal.                                       *)
Interrupt ==
  /\ pc \notin {"require", "exited"}
  /\ Raise
  /\ UNCHANGED <<producer, payload, memory, runtime, escaped, got>>

Step(here, next) ==
  /\ pc = here
  /\ \/ Continue(next) /\ clock' = 0 /\ UNCHANGED outcome
     \/ Raise

-----------------------------------------------------------------------------
(* launch.                                                                 *)

RequireNamespaceInit ==
  /\ pc = "require"
  /\ IF namespaceInit THEN Step("require", "arguments") ELSE Raise
  /\ UNCHANGED <<producer, payload, memory, runtime, escaped, got>>

(* Core limit, agent socket, playbook arguments.                           *)
Arguments ==
  /\ Step("arguments", "input")
  /\ UNCHANGED <<producer, payload, memory, runtime, escaped, got>>

(* Seeded defect: one byte less is asked for, so that a full payload meets *)
(* a read of nothing.                                                      *)
ReadSizeToLimit == Min({Chunk, Limit - payload})

ReadSize == Min({Chunk, Limit + 1 - payload})

(* Seeded defect: the producer has all the time it wants.                  *)
InputNeverExpires == FALSE

InputExpired == clock >= InputTimeout

ReadInput ==
  /\ pc = "input"
  /\ LET n == Min({pipe, ReadSize})
     IN \/ InputExpired /\ Raise /\ UNCHANGED <<pipe, payload>>
        \/ /\ ~InputExpired /\ n > 0
           /\ pipe' = pipe - n /\ payload' = payload + n
           /\ IF payload + n > Limit THEN Raise ELSE UNCHANGED <<pc, leader, worker, outcome, clock>>
        \/ /\ ~InputExpired /\ n = 0 /\ (pipe > 0 \/ closed)
           /\ UNCHANGED <<pipe, payload>>
           /\ IF payload = 0 THEN Raise
              ELSE Continue("decode") /\ clock' = 0 /\ UNCHANGED outcome
  /\ UNCHANGED <<namespaceInit, body, sent, closed, memory, runtime, escaped, got>>

(* A document that is cut short does not parse.                            *)
Decode ==
  /\ pc = "decode"
  /\ IF payload >= body THEN Step("decode", "memory") ELSE Raise
  /\ UNCHANGED <<producer, payload, memory, runtime, escaped, got>>

CreateMemory ==
  /\ pc = "memory"
  /\ \/ Continue("fill") /\ clock' = 0 /\ UNCHANGED outcome
        /\ memory' = [memory EXCEPT !.open = TRUE]
     \/ Raise /\ UNCHANGED memory
  /\ UNCHANGED <<producer, payload, runtime, escaped, got>>

(* Through a duplicate, which shares the file offset.                      *)
FillMemory ==
  /\ Step("fill", "seal")
  /\ memory' = [memory EXCEPT !.bytes = payload, !.offset = payload]
  /\ UNCHANGED <<producer, payload, runtime, escaped, got>>

SealMemory ==
  /\ pc = "seal"
  /\ \/ Continue("runtime") /\ clock' = 0 /\ UNCHANGED outcome
        /\ memory' = [memory EXCEPT !.sealed = TRUE]
     \/ Raise /\ UNCHANGED memory
  /\ UNCHANGED <<producer, payload, runtime, escaped, got>>

CreateRuntime ==
  /\ pc = "runtime"
  /\ \/ Continue("spawn") /\ clock' = 0 /\ UNCHANGED outcome /\ runtime' = TRUE
     \/ Raise /\ UNCHANGED runtime
  /\ UNCHANGED <<producer, payload, memory, escaped, got>>

(* The environment and Popen.  An exception after the fork leaves a child  *)
(* nobody waits for.                                                       *)
Spawn ==
  /\ pc = "spawn"
  /\ leader' \in {"none", "running"} /\ UNCHANGED worker
  /\ \/ leader' = "running" /\ pc' = "wait" /\ UNCHANGED outcome
     \/ pc' = "cleanup" /\ outcome' = "stopped"
  /\ clock' = 0
  /\ UNCHANGED <<producer, payload, memory, runtime, escaped, got>>

-----------------------------------------------------------------------------
(* The playbook and its workers.                                           *)

Alive(state) == state \in {"running", "doomed"}

PlaybookExits ==
  /\ leader \in {"running", "doomed"} /\ leader' = "dead"
  /\ UNCHANGED <<producer, pc, clock, payload, memory, runtime, worker, escaped, got, outcome>>

Fork(w) ==
  /\ leader = "running" /\ worker[w] = "none"
  /\ worker' = [worker EXCEPT ![w] = "running"]
  /\ escaped' \in {escaped, escaped \cup {w}}
  /\ UNCHANGED <<producer, pc, clock, payload, memory, runtime, leader, got, outcome>>

WorkerEnds(w) ==
  /\ worker[w] \in {"running", "doomed"}
  /\ worker' = [worker EXCEPT ![w] = "dead"]
  /\ UNCHANGED <<producer, pc, clock, payload, memory, runtime, leader, escaped, got, outcome>>

(* read_item: seals and size are checked, then one pread from the start.   *)
ReadItem(w) ==
  /\ worker[w] = "running" /\ got[w] = -1
  /\ memory.sealed /\ memory.bytes \in 1..Limit
  /\ got' = [got EXCEPT ![w] = memory.bytes]
  /\ UNCHANGED <<producer, pc, clock, payload, memory, runtime, leader, worker, escaped, outcome>>

-----------------------------------------------------------------------------
(* run_child, once the child is there.                                     *)

Wait ==
  /\ pc = "wait"
  /\ \/ leader = "dead" /\ UNCHANGED outcome
     \/ leader # "dead" /\ clock >= RunTimeout /\ outcome' = "stopped"
  /\ pc' = "kill" /\ clock' = 0
  /\ UNCHANGED <<producer, payload, memory, runtime, processes>>

Doomed(state) == IF state = "running" THEN "doomed" ELSE state

(* Seeded defect: only a child that runs is killed.                        *)
KillLeader ==
  /\ pc = "kill"
  /\ leader' = Doomed(leader) /\ UNCHANGED worker
  /\ pc' = "reap" /\ clock' = 0
  /\ UNCHANGED <<producer, payload, memory, runtime, escaped, got, outcome>>

KillGroup ==
  /\ pc = "kill"
  /\ leader' = Doomed(leader)
  /\ worker' = [w \in Workers |-> IF w \in escaped THEN worker[w] ELSE Doomed(worker[w])]
  /\ pc' = "reap" /\ clock' = 0
  /\ UNCHANGED <<producer, payload, memory, runtime, escaped, got, outcome>>

Reap ==
  /\ pc = "reap"
  /\ \/ leader = "dead" /\ UNCHANGED outcome
     \/ leader # "dead" /\ clock >= WaitGrace /\ outcome' = "stopped"
  /\ pc' = "cleanup" /\ clock' = 0
  /\ UNCHANGED <<producer, payload, memory, runtime, processes>>

(* A worker that still writes into the directory may keep it from going.   *)
Cleanup ==
  /\ pc = "cleanup"
  /\ \/ runtime' = FALSE /\ UNCHANGED outcome
        /\ pc' = IF outcome = "stopped" THEN "close" ELSE "report"
     \/ /\ Alive(leader) \/ \E w \in Workers : Alive(worker[w])
        /\ outcome' = "stopped" /\ pc' = "close" /\ UNCHANGED runtime
  /\ clock' = 0
  /\ UNCHANGED <<producer, payload, memory, processes>>

Report ==
  /\ pc = "report"
  /\ outcome' = "rc" /\ pc' = "close"
  /\ UNCHANGED <<producer, clock, payload, memory, runtime, processes>>

Close ==
  /\ pc = "close"
  /\ memory' = [memory EXCEPT !.open = FALSE]
  /\ Continue("exited")
  /\ UNCHANGED <<producer, clock, payload, runtime, escaped, got, outcome>>

Launcher ==
  \/ RequireNamespaceInit \/ Arguments \/ ReadInput \/ Decode
  \/ CreateMemory \/ FillMemory \/ SealMemory \/ CreateRuntime \/ Spawn
  \/ Wait \/ KillGroup \/ Reap \/ Cleanup \/ Report \/ Close

Playbook ==
  \/ PlaybookExits \/ \E w \in Workers : Fork(w) \/ WorkerEnds(w) \/ ReadItem(w)

Next == Launcher \/ Interrupt \/ Produce \/ Tick \/ Playbook

(* The launcher is scheduled and time passes; nothing is asked of the      *)
(* producer, the playbook or its workers.                                  *)
Spec == Init /\ [][Next]_vars /\ WF_vars(Launcher) /\ WF_vars(Tick)

-----------------------------------------------------------------------------
(* Properties.                                                             *)

(* The playbook starts only with everything the producer wrote before it   *)
(* closed its pipe, a whole document within the limit, in memory that      *)
(* nobody can change; and every worker reads the whole of it, however many *)
(* have read from the shared file before.  The types are part of it.       *)
ItemIsWhole ==
  /\ TypeOK
  /\ leader # "none" =>
       /\ memory.sealed /\ memory.bytes = sent
       /\ closed /\ sent \in body..Limit
  /\ \A w \in Workers : got[w] \in {-1, sent}

(* A return code is reported only when every process that kept to the      *)
(* playbook's group has been killed: a successful leader does not leave    *)
(* workers with the credential behind.  After the launcher no process that *)
(* had the descriptor is alive, not even one that left the group, or was   *)
(* forked just before an interrupt.                                        *)
HoldersAreGone ==
  /\ outcome = "rc" => \A w \in Workers \ escaped : worker[w] # "running"
  /\ pc = "exited" => ~Alive(leader) /\ \A w \in Workers : ~Alive(worker[w])

(* The launcher ends, although the producer may never close its pipe and   *)
(* the playbook may hang.                                                  *)
LauncherEnds == <>(pc = "exited")

=============================================================================
