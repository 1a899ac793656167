----------------------------- MODULE SecureFile -----------------------------
(***************************************************************************)
(* Owner-only files (secure.py): several processes write, create and       *)
(* remove the files of the state directory, and each may be killed between *)
(* two system calls.  A temporary file has a random name, so no one else   *)
(* sees it; it is left behind when its writer dies.  Owners, modes and     *)
(* symbolic links are not modelled, nor is a disk that fails.              *)
(*                                                                         *)
(* Removal is a read and an unlink.  One process removes at a time (it has *)
(* the controller's lock).                                                 *)
(***************************************************************************)
CONSTANTS
  Files,      \* names in the state directory
  Replaced,   \* those written by replacing; the others are created by O_EXCL
  Procs,      \* processes that write or create
  Remover,    \* the process that removes
  Values,     \* complete contents
  None, Torn  \* no file; a created file without its content

ASSUME FileConstants ==
  /\ Replaced \subseteq Files
  /\ Remover \notin Procs
  /\ None # Torn /\ {None, Torn} \cap Values = {}

VARIABLES
  file,  \* content of each file
  op     \* per process: the operation under way

fvars == <<file, op>>
Actors == Procs \cup {Remover}

OpIdle == [pc |-> "idle", file |-> None, value |-> None]

FileTypeOK ==
  /\ file \in [Files -> Values \cup {None, Torn}]
  /\ op \in [Actors -> [pc: {"idle", "temp", "created", "found"},
                        file: Files \cup {None}, value: Values \cup {None}]]

FileInit ==
  /\ file = [f \in Files |-> None]
  /\ op = [p \in Actors |-> OpIdle]

Begin(p, l, f, v) ==
  /\ op[p].pc = "idle"
  /\ op' = [op EXCEPT ![p] = [pc |-> l, file |-> f, value |-> v]]
End(p) == op' = [op EXCEPT ![p] = OpIdle]

Put(f, v) == file' = [file EXCEPT ![f] = v]

MutantReplaceTemp(p, f, v) ==   \* the file itself is truncated and written
  /\ f \in Replaced
  /\ Begin(p, "temp", f, v)
  /\ Put(f, Torn)

(* The temporary file is written and synced, the file itself untouched. *)
ReplaceTemp(p, f, v) ==
  /\ f \in Replaced
  /\ Begin(p, "temp", f, v)
  /\ UNCHANGED file

(* os.replace *)
ReplaceCommit(p) ==
  /\ op[p].pc = "temp"
  /\ Put(op[p].file, op[p].value)
  /\ End(p)

MutantCreate(p, f, v) ==   \* O_CREAT without O_EXCL
  /\ f \in Files \ Replaced
  /\ Begin(p, "created", f, v)
  /\ Put(f, Torn)

(* O_CREAT | O_EXCL; a file that exists is FileExistsError. *)
Create(p, f, v) ==
  /\ f \in Files \ Replaced /\ file[f] = None
  /\ Begin(p, "created", f, v)
  /\ Put(f, Torn)

CreateWrite(p) ==
  /\ op[p].pc = "created"
  /\ Put(op[p].file, op[p].value)
  /\ End(p)

(* remove_private_file: a torn file is unreadable and stays. *)
RemoveRead(f) ==
  /\ f \in Files \ Replaced /\ file[f] \in Values
  /\ Begin(Remover, "found", f, file[f])
  /\ UNCHANGED file

RemoveUnlink ==
  /\ op[Remover].pc = "found"
  /\ Put(op[Remover].file, None)
  /\ End(Remover)

Die(p) == op[p].pc # "idle" /\ End(p) /\ UNCHANGED file

FileNext ==
  \/ \E p \in Procs :
       \/ \E f \in Files, v \in Values : ReplaceTemp(p, f, v) \/ Create(p, f, v)
       \/ ReplaceCommit(p) \/ CreateWrite(p)
  \/ \E f \in Files : RemoveRead(f)
  \/ RemoveUnlink
  \/ \E p \in Actors : Die(p)

FileSpec == FileInit /\ [][FileNext]_fvars

(* Why: who creates a file is alone with it until it is complete, and what *)
(* is about to be unlinked is the complete file that was read.             *)
FileInv ==
  /\ \A p \in Actors :
       /\ op[p].pc = "temp" => op[p].file \in Replaced
       /\ op[p].pc \in {"created", "found"} => op[p].file \in Files \ Replaced
       /\ op[p].pc \in {"temp", "created", "found"} => op[p].value \in Values
       /\ op[p].pc = "created" => p \in Procs /\ file[op[p].file] = Torn
       /\ op[p].pc = "found" => p = Remover /\ file[op[p].file] = op[p].value
  /\ \A p, q \in Procs :
       op[p].pc = "created" /\ op[q].pc = "created" /\ op[p].file = op[q].file => p = q

Abstract == INSTANCE PrivateFile

(* To every other process the directory behaves like PrivateFile, however  *)
(* writers interleave and die: a replaced file is never seen torn, and a   *)
(* removal removes a complete file, the one that was read.                 *)
RefinesPrivateFile == Abstract!Spec
=============================================================================
