------------------------------ MODULE Artifacts ------------------------------
(***************************************************************************)
(* The files Kimi keeps of a session, and adopt() waiting for them         *)
(* (binding.py): one directory, a state.json that names this very session, *)
(* and the wire, a log of rows.  Kimi is external.  It creates the wire of *)
(* a fresh session only when the SessionStart hook has returned, and that  *)
(* hook waits for adopt(); the wire of a resumed session may be written at *)
(* any time.  A row reaches the file in several writes.                    *)
(***************************************************************************)
EXTENDS Naturals

CONSTANTS
  NoWire,
  MaxRows   \* bound: rows of the wire

StateFiles == {"missing", "torn", "own", "other"}   \* of state.json; "other": id, cwd, archived
Tails == {"none", "partial", "whole", "bad"}      \* after the last newline; "bad": a row that is no JSON
Wires == [rows: Nat, tail: Tails]

ASSUME ArtifactConstants == MaxRows \in Nat /\ NoWire \notin Wires

VARIABLES
  session,  \* directories of the session, state.json, wire
  wait      \* wait_for_session_artifacts, and whether the session is fresh:
            \* its files are in order when the wait begins, its hook not killed

avars == <<session, wait>>

ArtifactTypeOK ==
  /\ session \in [dirs: Nat, state: StateFiles, wire: Wires \cup {NoWire}]
  /\ wait \in [pc: {"off", "state", "wire", "late", "bound", "failed"},
               cursor: Nat, fresh: BOOLEAN]

Nothing == [dirs |-> 0, state |-> "missing", wire |-> NoWire]
WaitOff == [pc |-> "off", cursor |-> 0, fresh |-> FALSE]

ArtifactInit == session = Nothing /\ wait = WaitOff

Waiting == wait.pc \in {"state", "wire", "late"}

-----------------------------------------------------------------------------
(* Kimi. *)

(* A new session, or one whose files are there. *)
KimiStarts ==
  /\ session = Nothing
  /\ session' \in {[dirs |-> 1, state |-> "missing", wire |-> NoWire],
                   [dirs |-> 1, state |-> "other", wire |-> NoWire],
                   [dirs |-> 1, state |-> "own", wire |-> [rows |-> 1, tail |-> "none"]]}
  /\ UNCHANGED wait

(* The same session in two workspaces. *)
KimiCopies ==
  /\ session.dirs = 1
  /\ session' = [session EXCEPT !.dirs = 2]
  /\ UNCHANGED wait

KimiWritesState ==
  /\ session.dirs > 0
  /\ \/ session.state = "missing" /\ session' = [session EXCEPT !.state = "torn"]
     \/ session.state = "torn" /\ session' = [session EXCEPT !.state = "own"]
  /\ UNCHANGED wait

(* While adopt() waits, only if it killed the hook. *)
KimiOpensWire ==
  /\ session.state = "own" /\ session.wire = NoWire
  /\ session' = [session EXCEPT !.wire = [rows |-> 0, tail |-> "none"]]
  /\ wait' = IF Waiting THEN [wait EXCEPT !.fresh = FALSE] ELSE wait

WireTail(t) == session' = [session EXCEPT !.wire.tail = t] /\ UNCHANGED wait

KimiBeginsRow ==
  /\ session.wire # NoWire /\ session.wire.tail = "none" /\ session.wire.rows < MaxRows
  /\ WireTail("partial")

KimiGoesOn ==
  /\ session.wire # NoWire /\ session.wire.tail = "partial"
  /\ \E t \in {"whole", "bad"} : WireTail(t)

KimiEndsRow ==
  /\ session.wire # NoWire /\ session.wire.tail = "whole"
  /\ session' = [session EXCEPT !.wire = [rows |-> @.rows + 1, tail |-> "none"]]
  /\ UNCHANGED wait

KimiWrites == KimiWritesState \/ KimiOpensWire \/ KimiGoesOn \/ KimiEndsRow

-----------------------------------------------------------------------------
(* wait_for_session_artifacts: at least one poll. *)
WaitGoto(l) == wait' = [wait EXCEPT !.pc = l]

WaitBegin ==
  /\ wait.pc = "off"
  /\ wait' = [pc |-> "state", cursor |-> 0,
              fresh |-> session = [dirs |-> 1, state |-> "own", wire |-> NoWire]]
  /\ UNCHANGED session

(* locate_session and state.json.  Only what is missing is waited for: a   *)
(* state.json found half written fails the adoption.                       *)
CheckState ==
  /\ wait.pc = "state"
  /\ WaitGoto(IF session.dirs # 1 \/ session.state = "missing" THEN "late"
              ELSE IF session.state = "own" THEN "wire" ELSE "failed")
  /\ UNCHANGED session

(* The definitions named Mutant... are mistakes one could make in the      *)
(* definition that follows; each breaks a property of a run.               *)
MutantNotReady ==   \* a missing wire is waited for
  session.wire = NoWire \/ session.wire.tail = "partial"
MutantNoTail ==     \* an unfinished row is a row
  FALSE

NotReady == session.wire # NoWire /\ session.wire.tail = "partial"
Broken   == session.wire # NoWire /\ session.wire.tail = "bad"

RowsRead ==
  IF session.wire = NoWire THEN 0
  ELSE session.wire.rows + (IF session.wire.tail = "none" THEN 0 ELSE 1)

CheckWire ==
  /\ wait.pc = "wire"
  /\ IF NotReady THEN WaitGoto("late")
     ELSE IF Broken THEN WaitGoto("failed")
     ELSE wait' = [wait EXCEPT !.pc = "bound", !.cursor = RowsRead]
  /\ UNCHANGED session

PollAgain == wait.pc = "late" /\ WaitGoto("state") /\ UNCHANGED session

(* session_artifact_timeout *)
PollDeadline == wait.pc = "late" /\ WaitGoto("failed") /\ UNCHANGED session

WaitGoesOn == CheckState \/ CheckWire \/ PollAgain \/ PollDeadline

-----------------------------------------------------------------------------
(* The hook does not wait for what Kimi only creates when the hook has     *)
(* returned: a fresh session whose state.json is complete is bound, unless *)
(* the hook is killed or the directory is copied meanwhile.                *)
FreshSessionIsBound == wait.pc = "failed" /\ wait.fresh => session.dirs > 1

(* The cursor from which the scanner goes on never lies beyond the rows    *)
(* that are complete, now or later: an unfinished row is not skipped.      *)
CursorWithinWire ==
  wait.pc = "bound" =>
    wait.cursor <= IF session.wire = NoWire THEN 0
                   ELSE session.wire.rows + (IF session.wire.tail = "whole" THEN 1 ELSE 0)
=============================================================================
