--------------------------- MODULE EncryptedBackup ---------------------------
(***************************************************************************)
(* The database backup of a Wunderbox service: the play                    *)
(* runbooks/50-applications/wunderbox/31-management-backup.yml, with its   *)
(* action plugin lit_encrypted_backup.py, the reader lit_bounded_slurp.py  *)
(* on the managed host, and the output file that                           *)
(* lit_controller_vault_password.py opens.                                 *)
(*                                                                         *)
(* The names of the dump, its ciphertext, the object and the readback hold *)
(* the second at which a task evaluates them, because the variables of the *)
(* play are templates that are evaluated at each use; here such a name is  *)
(* that second.  External: the role that makes the dump and the object     *)
(* store.                                                                  *)
(***************************************************************************)
EXTENDS Integers

CONSTANTS
  MaxTime  \* bound: seconds

Names == 0..MaxTime

VARIABLES
  clock, pc,
  host,      \* the plaintext dumps on the managed host
  cipher,    \* cipher[n]: the ciphertext file n of the controller
  inspected, \* what the stat task registered
  object,    \* object[n]: the stored object n
  readback,  \* readback[n]: the file read back
  armed,     \* handlers notified
  published  \* the evidence is set

store == <<object, readback>>
vars  == <<clock, pc, host, cipher, inspected, store, armed, published>>

States == {"absent", "partial", "whole", "damaged"}

TypeOK ==
  /\ clock \in Names
  /\ pc \in {"arm", "dump", "encrypt", "inspect", "upload", "arm_readback",
             "get", "compare", "remove_readback", "remove_dump", "publish",
             "handle_dump", "handle_readback", "ended"}
  /\ host \subseteq Names
  /\ cipher \in [Names -> States] /\ inspected \in States
  /\ object \in [Names -> States] /\ readback \in [Names -> States]
  /\ armed \subseteq {"dump", "readback"} /\ published \in BOOLEAN

Init ==
  /\ clock = 0 /\ pc = "arm" /\ host = {}
  /\ cipher = [n \in Names |-> "absent"] /\ inspected = "absent"
  /\ object = [n \in Names |-> "absent"] /\ readback = [n \in Names |-> "absent"]
  /\ armed = {} /\ published = FALSE

Tick ==
  /\ clock < MaxTime /\ clock' = clock + 1
  /\ UNCHANGED <<pc, host, cipher, inspected, store, armed, published>>

-----------------------------------------------------------------------------
(* The tasks.  Each works on the name of its own second; one that fails    *)
(* ends the block, and force_handlers lets the handlers run.               *)

Fail == pc' = "handle_dump"

Arm ==
  /\ pc = "arm"
  /\ armed' = {"dump"} /\ pc' = "dump"
  /\ UNCHANGED <<clock, host, cipher, inspected, store, published>>

CreateDump ==
  /\ pc = "dump"
  /\ \/ host' = host \cup {clock} /\ pc' = "encrypt"
     \/ Fail /\ UNCHANGED host
  /\ UNCHANGED <<clock, cipher, inspected, store, armed, published>>

(* The output is created exclusively, then the dump is read within its     *)
(* limit, found unchanged and encrypted; an output left half way stays.    *)
EncryptDump ==
  /\ pc = "encrypt"
  /\ \/ /\ cipher[clock] = "absent" /\ clock \in host
        /\ cipher' = [cipher EXCEPT ![clock] = "whole"] /\ pc' = "inspect"
     \/ Fail /\ cipher' \in {cipher, [cipher EXCEPT ![clock] = "partial"]}
  /\ UNCHANGED <<clock, host, inspected, store, armed, published>>

Inspect ==
  /\ pc = "inspect"
  /\ inspected' = cipher[clock] /\ pc' = "upload"
  /\ UNCHANGED <<clock, host, cipher, store, armed, published>>

Upload ==
  /\ pc = "upload"
  /\ \/ /\ cipher[clock] # "absent" /\ pc' = "arm_readback"
        /\ object' \in {[object EXCEPT ![clock] = s] : s \in {cipher[clock], "damaged"}}
     \/ Fail /\ UNCHANGED object
  /\ UNCHANGED <<clock, host, cipher, inspected, readback, armed, published>>

ArmReadback ==
  /\ pc = "arm_readback"
  /\ armed' = armed \cup {"readback"} /\ pc' = "get"
  /\ UNCHANGED <<clock, host, cipher, inspected, store, published>>

Get ==
  /\ pc = "get"
  /\ \/ /\ object[clock] # "absent"
        /\ readback' = [readback EXCEPT ![clock] = object[clock]] /\ pc' = "compare"
     \/ Fail /\ UNCHANGED readback
  /\ UNCHANGED <<clock, host, cipher, inspected, object, armed, published>>

(* The checksum of a file that is not there is an error.                   *)
SameChecksum == readback[clock] = inspected /\ inspected # "absent"

Compare ==
  /\ pc = "compare"
  /\ IF SameChecksum THEN pc' = "remove_readback" ELSE Fail
  /\ UNCHANGED <<clock, host, cipher, inspected, store, armed, published>>

(* A removal of a file that is not there succeeds; a handler that was not  *)
(* notified does nothing.  After a handler that fails the other may run or *)
(* not.                                                                    *)
RemovalFails(here, next) ==
  IF here \in {"remove_readback", "remove_dump"} THEN Fail ELSE pc' \in {next, "ended"}

RemoveReadback(here, next) ==
  /\ pc = here
  /\ \/ /\ pc' = next
        /\ readback' = IF here = "remove_readback" \/ "readback" \in armed
                       THEN [readback EXCEPT ![clock] = "absent"] ELSE readback
     \/ RemovalFails(here, next) /\ UNCHANGED readback
  /\ UNCHANGED <<clock, host, cipher, inspected, object, armed, published>>

RemoveDump(here, next) ==
  /\ pc = here
  /\ \/ /\ pc' = next
        /\ host' = IF here = "remove_dump" \/ "dump" \in armed THEN host \ {clock} ELSE host
     \/ RemovalFails(here, next) /\ UNCHANGED host
  /\ UNCHANGED <<clock, cipher, inspected, store, armed, published>>

Publish ==
  /\ pc = "publish"
  /\ published' = TRUE /\ pc' = "handle_dump"
  /\ UNCHANGED <<clock, host, cipher, inspected, store, armed>>

Task ==
  \/ Arm \/ CreateDump \/ EncryptDump
  \/ Inspect \/ Upload \/ ArmReadback \/ Get \/ Compare
  \/ RemoveReadback("remove_readback", "remove_dump")
  \/ RemoveDump("remove_dump", "publish")
  \/ Publish
  \/ RemoveDump("handle_dump", "handle_readback")
  \/ RemoveReadback("handle_readback", "ended")

Next == Task \/ Tick

Spec == Init /\ [][Next]_vars

-----------------------------------------------------------------------------
(* README.md:91 of the runbooks: the play removes the transient plaintext. *)
(* When a play has come to its end, with its evidence and its handlers, no *)
(* dump is left on the host.                                               *)
PlaintextIsRemoved == pc = "ended" /\ published => host = {}

=============================================================================
