------------------------------ MODULE RelayGate ------------------------------
(***************************************************************************)
(* The Relay gate (gate.py): at every Stop above the threshold the hook    *)
(* releases the session if its done marker is newer than the last demand,  *)
(* spends a skip, or blocks the stop, at most MaxBlocks times; after that  *)
(* it lets the session go and records handoff_missing for the next window. *)
(*                                                                         *)
(* Time is the clock of the file system in ticks.  The agent, a person and *)
(* the hooks of several sessions run concurrently; Kimi runs one Stop hook *)
(* of a session at a time, with a turn of the model, which takes at least  *)
(* a tick, between two; and it may kill the hook between any two steps,    *)
(* which lets the session stop.  Writing a counter, or handoff_missing,    *)
(* truncates the file first.  The SessionStart hooks of one window at a    *)
(* time read that record.  A Stop below the threshold, or without readable *)
(* usage, changes none of these files.                                     *)
(*                                                                         *)
(* Where only the hooks are installed there is no state directory before   *)
(* the first diagnostic of a hook.  Other errors of the disk are not       *)
(* modelled.                                                               *)
(***************************************************************************)
EXTENDS Naturals, FiniteSets

CONSTANTS
  Sessions,   \* sessions that run in any window
  MaxBlocks,  \* MAX_BLOCKS
  OneSecond,  \* ticks in a second
  EnvArmed,   \* sessions that KIMI_LASTCALL_SKIP_ONCE names
  Skews,      \* how far a marker may be dated into the future
  None,       \* no file
  Corrupt,    \* a counter that is no number, a record that is no JSON
  MaxTime     \* bound: the clock

ASSUME GateConstants ==
  /\ MaxBlocks \in Nat /\ OneSecond \in Nat \ {0} /\ MaxTime \in Nat
  /\ EnvArmed \subseteq Sessions /\ Skews \subseteq Nat
  /\ None \notin Nat /\ Corrupt \notin Nat
  /\ None # Corrupt /\ {None, Corrupt} \cap [session: Sessions, notified: BOOLEAN] = {}

VARIABLES
  now,        \* the clock
  dir,        \* does the state directory exist?
  marker,     \* mtime of the done marker of a session
  demand,     \* mtime of its demand anchor
  count,      \* its block counter
  skip,       \* sessions whose skip file exists
  skipUsed,   \* sessions whose skip-used file exists
  missing,    \* handoff_missing.json
  notice,     \* the SessionStart hook and the session of the record it read
  gate,       \* per session: the progress of its Stop hook
  ran,        \* sessions whose Stop hook ended in this tick
  \* history
  blocks,     \* stops blocked
  skips,      \* stops released by a skip
  unrecorded, \* sessions released by a skip that left no skip-used file
  letter,     \* what the marker of a session stands for
  owed,       \* sessions told to write a letter that they have not written
  news        \* the last record: untold, told, told twice; "mixed" if its writer
              \* was killed, or another hook was between its read and its write

files == <<dir, marker, demand, count, skip, skipUsed>>
told  == <<blocks, skips, unrecorded, letter, owed>>
next  == <<missing, notice, news>>
stops == <<dir, marker, demand, count, skip, skipUsed, gate, ran, told>>
vars  == <<now, next, stops>>

Idle == [pc |-> "idle", fresh |-> FALSE, read |-> 0]
NoticeIdle == [pc |-> "idle", session |-> None]
Records == [session: Sessions, notified: BOOLEAN]
(* What the hook has read: the new counter, or the time of the marker.     *)
GateProgress == [pc: {"idle", "judge", "consume", "spend", "skipped", "write", "stamp", "record"},
                 fresh: BOOLEAN, read: Nat]
Letters == {"none", "ahead", "early", "answer", "touched", "used"}

GateTypeOK ==
  /\ now \in Nat /\ dir \in BOOLEAN
  /\ marker \in [Sessions -> Nat \cup {None}]
  /\ demand \in [Sessions -> Nat \cup {None}]
  /\ count \in [Sessions -> Nat \cup {Corrupt}]
  /\ skip \subseteq Sessions /\ skipUsed \subseteq Sessions
  /\ missing \in Records \cup {None, Corrupt}
  /\ notice \in [pc: {"open", "write"}, session: Sessions] \cup {NoticeIdle}
  /\ news \in {"none", "untold", "told", "twice", "mixed"}
  /\ gate \in [Sessions -> GateProgress]
  /\ ran \subseteq Sessions
  /\ blocks \in [Sessions -> Nat] /\ skips \in [Sessions -> Nat]
  /\ unrecorded \subseteq Sessions
  /\ letter \in [Sessions -> Letters]
  /\ owed \subseteq Sessions

GateInit ==
  /\ now = 0 /\ dir \in BOOLEAN
  /\ marker = [s \in Sessions |-> None] /\ demand = [s \in Sessions |-> None]
  /\ count = [s \in Sessions |-> 0]
  /\ skip = {} /\ skipUsed = {} /\ unrecorded = {}
  /\ missing = None /\ notice = NoticeIdle /\ news = "none"
  /\ gate = [s \in Sessions |-> Idle]
  /\ ran = {}
  /\ blocks = [s \in Sessions |-> 0] /\ skips = [s \in Sessions |-> 0]
  /\ letter = [s \in Sessions |-> "none"]
  /\ owed = {}

Tick ==
  /\ now < MaxTime
  /\ now' = now + 1
  /\ ran' = {}
  /\ UNCHANGED <<next, files, gate, told>>

-----------------------------------------------------------------------------
(* The agent or `kimi-lastcall done` writes the marker; a bad clock or a   *)
(* restored backup dates it into the future.                               *)
Letter(s) ==
  /\ \E skew \in Skews \cup {0} :
       /\ marker' = [marker EXCEPT ![s] = now + skew]
       /\ letter' = [letter EXCEPT ![s] =
                        IF skew > 0 THEN "ahead"
                        ELSE IF s \in owed /\ gate[s].pc = "idle" THEN "answer" ELSE "early"]
  /\ owed' = IF gate[s].pc = "idle" THEN owed \ {s} ELSE owed
  /\ dir' = TRUE
  /\ UNCHANGED <<now, next, demand, count, skip, skipUsed, gate, ran, blocks, skips, unrecorded>>

(* A person creates the skip file. *)
ArmSkip(s) ==
  /\ dir /\ s \notin skip
  /\ skip' = skip \cup {s}
  /\ UNCHANGED <<now, next, dir, marker, demand, count, skipUsed, gate, ran, told>>

(* configure, serve, or the diagnostic of a hook that is not modelled.     *)
DirAppears ==
  /\ ~dir /\ dir' = TRUE
  /\ UNCHANGED <<now, next, marker, demand, count, skip, skipUsed, gate, ran, told>>

-----------------------------------------------------------------------------
(* handle_session_start_notice: the record is read and the next window is  *)
(* told, then the record is opened and written again.                      *)
NoticeGoto(l) == notice' = [notice EXCEPT !.pc = l]

Notice ==
  /\ notice.pc = "idle" /\ missing \in Records /\ ~missing.notified
  /\ notice' = [pc |-> "open", session |-> missing.session]
  /\ news' = CASE news = "untold" -> "told" [] news = "told" -> "twice" [] OTHER -> news
  /\ UNCHANGED <<now, missing, stops>>

NoticeOpen ==
  /\ notice.pc = "open"
  /\ missing' = Corrupt
  /\ NoticeGoto("write")
  /\ UNCHANGED <<now, news, stops>>

MutantNoticeWrite ==   \* the record is written back as it was
  /\ notice.pc = "write"
  /\ missing' = [session |-> notice.session, notified |-> FALSE]
  /\ notice' = NoticeIdle
  /\ UNCHANGED <<now, news, stops>>

NoticeWrite ==
  /\ notice.pc = "write"
  /\ missing' = [session |-> notice.session, notified |-> TRUE]
  /\ notice' = NoticeIdle
  /\ UNCHANGED <<now, news, stops>>

NoticeDies ==
  /\ notice.pc # "idle"
  /\ notice' = NoticeIdle
  /\ news' = "mixed"
  /\ UNCHANGED <<now, missing, stops>>

-----------------------------------------------------------------------------
(* handle_stop. *)
(* The definitions named Mutant... are mistakes one could make in the      *)
(* definition that follows; each breaks a property of a run.               *)
MutantFresh(s) ==   \* strictly newer
  marker[s] # None /\ demand[s] # None /\ marker[s] > demand[s]

Fresh(s) == marker[s] # None /\ demand[s] # None /\ marker[s] >= demand[s]

GateGoto(s, l) == gate' = [gate EXCEPT ![s].pc = l]
Leave(s)       == gate' = [gate EXCEPT ![s] = Idle] /\ ran' = ran \cup {s}

(* Whether the marker is fresh is decided first. *)
StopBegin(s) ==
  /\ gate[s].pc = "idle" /\ s \notin ran
  /\ gate' = [gate EXCEPT ![s] = [pc |-> "judge", fresh |-> Fresh(s), read |-> 0]]
  /\ UNCHANGED <<now, next, files, ran, told>>

Later(a, b)   == IF a >= b THEN a ELSE b
Earlier(a, b) == IF a <= b THEN a ELSE b

MutantConsumeTouch(s) ==     \* only touched
  demand' = [demand EXCEPT ![s] = now]
MutantConsumeUnclamped(s) ==   \* follows a future-dated marker
  demand' = [demand EXCEPT ![s] = Later(now, gate[s].read + OneSecond)]
MutantConsumeBackwards(s) ==   \* a wrong sign, and no maximum
  demand' = [demand EXCEPT ![s] = Earlier(gate[s].read, now) - OneSecond]

(* utime: past the marker as it was read, but not past now + 1 s.          *)
ConsumeMarker(s) ==
  demand' = [demand EXCEPT ![s] = Later(now, Earlier(gate[s].read, now) + OneSecond)]

(* Manual mode, or the controller accepted.  consume_marker reads the time *)
(* of the marker and touches the demand ...                                *)
StopTouch(s) ==
  /\ gate[s].pc = "judge" /\ gate[s].fresh
  /\ demand' = [demand EXCEPT ![s] = now]
  /\ gate' = [gate EXCEPT ![s] = [pc |-> "consume", fresh |-> TRUE, read |-> marker[s]]]
  /\ letter' = [letter EXCEPT ![s] = IF @ = "ahead" THEN @ ELSE "touched"]
  /\ owed' = owed \ {s}
  /\ UNCHANGED <<now, next, dir, marker, count, skip, skipUsed, ran, blocks, skips, unrecorded>>

(* ... and then moves it. *)
StopRelease(s) ==
  /\ gate[s].pc = "consume"
  /\ ConsumeMarker(s)
  /\ Leave(s)
  /\ letter' = [letter EXCEPT ![s] = IF @ = "touched" THEN "used" ELSE @]
  /\ UNCHANGED <<now, next, dir, marker, count, skip, skipUsed, blocks, skips, unrecorded, owed>>

(* The controller did not accept, or Kimi killed the hook: the stop is     *)
(* released and nothing else is written.                                   *)
StopFailsOpen(s) ==
  /\ gate[s].pc # "idle"
  /\ Leave(s)
  /\ news' = IF gate[s].pc = "record" THEN "mixed" ELSE news
  /\ UNCHANGED <<now, missing, notice, files, told>>

MutantSkipArmed(s) ==   \* skip-used is not read
  s \in EnvArmed \/ s \in skip

SkipArmed(s) == (s \in EnvArmed \/ s \in skip) /\ s \notin skipUsed

(* consume_skip: the skip file is removed ... *)
StopSkip(s) ==
  /\ gate[s].pc = "judge" /\ ~gate[s].fresh /\ SkipArmed(s)
  /\ skip' = skip \ {s}
  /\ GateGoto(s, "spend")
  /\ UNCHANGED <<now, next, dir, marker, demand, count, skipUsed, ran, told>>

(* ... and its use recorded, unless there is no directory to record it in:  *)
(* consume_skip creates none, and swallows the error.                       *)
StopSpend(s) ==
  /\ gate[s].pc = "spend"
  /\ skipUsed' = IF dir THEN skipUsed \cup {s} ELSE skipUsed
  /\ GateGoto(s, "skipped")
  /\ UNCHANGED <<now, next, dir, marker, demand, count, skip, ran, told>>

(* audit() creates the directory, and the stop is released. *)
StopSkipped(s) ==
  /\ gate[s].pc = "skipped"
  /\ dir' = TRUE
  /\ skips' = [skips EXCEPT ![s] = @ + 1]
  /\ unrecorded' = IF s \in skipUsed THEN unrecorded ELSE unrecorded \cup {s}
  /\ Leave(s)
  /\ UNCHANGED <<now, next, marker, demand, count, skip, skipUsed, blocks, letter, owed>>

Judges(s) == gate[s].pc = "judge" /\ ~gate[s].fresh /\ ~SkipArmed(s)

MutantLimitReached(s) ==   \* off by one
  count[s] # Corrupt /\ count[s] > MaxBlocks
LimitReached(s) == count[s] # Corrupt /\ count[s] >= MaxBlocks

Recording == {s \in Sessions : gate[s].pc = "record"}
Alone(s)  == notice.pc = "idle" /\ Recording \subseteq {s}

(* allow_with_handoff_missing; a counter that cannot be read counts as full. *)
StopMissing(s) ==
  /\ Judges(s)
  /\ count[s] = Corrupt \/ LimitReached(s)
  /\ missing' = Corrupt /\ dir' = TRUE
  /\ GateGoto(s, "record")
  /\ news' = IF Alone(s) THEN news ELSE "mixed"
  /\ UNCHANGED <<now, notice, marker, demand, count, skip, skipUsed, ran, told>>

StopRecord(s) ==
  /\ gate[s].pc = "record"
  /\ missing' = [session |-> s, notified |-> FALSE]
  /\ Leave(s)
  /\ news' = IF Alone(s) THEN "untold" ELSE "mixed"
  /\ UNCHANGED <<now, notice, files, told>>

StopCount(s) ==
  /\ Judges(s)
  /\ count[s] # Corrupt /\ ~LimitReached(s)
  /\ gate' = [gate EXCEPT ![s] = [pc |-> "write", fresh |-> FALSE, read |-> count[s] + 1]]
  /\ count' = [count EXCEPT ![s] = Corrupt] /\ dir' = TRUE
  /\ UNCHANGED <<now, marker, demand, skip, skipUsed, next, ran, told>>

StopWrite(s) ==
  /\ gate[s].pc = "write"
  /\ count' = [count EXCEPT ![s] = gate[s].read]
  /\ GateGoto(s, "stamp")
  /\ UNCHANGED <<now, next, dir, marker, demand, skip, skipUsed, ran, told>>

(* stamp_demand, and the stop is blocked: exit code 2 and the instructions. *)
StopBlock(s) ==
  /\ gate[s].pc = "stamp"
  /\ demand' = [demand EXCEPT ![s] = now]
  /\ Leave(s)
  /\ blocks' = [blocks EXCEPT ![s] = @ + 1]
  /\ owed' = owed \cup {s}
  /\ UNCHANGED <<now, next, dir, marker, count, skip, skipUsed, skips, unrecorded, letter>>

Stop(s) ==
  \/ StopBegin(s) \/ StopTouch(s) \/ StopRelease(s) \/ StopFailsOpen(s)
  \/ StopSkip(s) \/ StopSpend(s) \/ StopSkipped(s)
  \/ StopMissing(s) \/ StopRecord(s) \/ StopCount(s) \/ StopWrite(s) \/ StopBlock(s)

SessionStarts == Notice \/ NoticeOpen \/ NoticeWrite \/ NoticeDies

GateNext ==
  \/ Tick \/ SessionStarts \/ DirAppears
  \/ \E s \in Sessions : Letter(s) \/ ArmSkip(s) \/ Stop(s)

GateSpec == GateInit /\ [][GateNext]_vars

-----------------------------------------------------------------------------
(* The hook cannot trap a session: it never blocks more than MaxBlocks of  *)
(* its stops, because the counter is written before the stop is blocked,   *)
(* and a counter lost by a killed hook counts as full.                     *)
BlockLimit == \A s \in Sessions : blocks[s] <= MaxBlocks

(* A skip, armed by file or environment and as often as one likes,         *)
(* releases one stop of a session; a second one only if the first found no *)
(* state directory to record its use in (gate.py:369-372).                 *)
SkipOnceIfRecorded ==
  \A s \in Sessions : skips[s] <= IF s \in unrecorded THEN 2 ELSE 1

(* Why: a hook that is about to block has counted the block before, and    *)
(* one that is about to spend the skip has found it unspent; a marker that *)
(* was fresh is still there.                                               *)
CounterInv ==
  \A s \in Sessions :
    /\ blocks[s] <= MaxBlocks
    /\ count[s] # Corrupt => blocks[s] <= count[s]
    /\ gate[s].pc \in {"write", "stamp"} => blocks[s] < gate[s].read /\ gate[s].read <= MaxBlocks
    /\ gate[s].pc = "stamp" => count[s] = gate[s].read

(* Without a record a session has skipped once, and then the directory is  *)
(* there, so that the next skip is recorded.                               *)
Unrecorded(s) == IF s \in unrecorded THEN 1 ELSE 0

SkipInv ==
  \A s \in Sessions :
    /\ skips[s] <= 1 + Unrecorded(s)
    /\ s \notin skipUsed \/ gate[s].pc = "skipped" => skips[s] = Unrecorded(s)
    /\ gate[s].pc = "spend" => s \notin skipUsed
    /\ s \in unrecorded => dir
    /\ s \in unrecorded /\ gate[s].pc = "skipped" => s \in skipUsed

FreshInv == \A s \in Sessions : gate[s].fresh => marker[s] # None

(* While a record is written, it is torn, and no notice is under way.      *)
NewsInv ==
  /\ news # "twice"
  /\ news = "untold" => notice.pc = "idle"
  /\ news \in {"untold", "told"} /\ Recording # {} => missing = Corrupt /\ notice.pc = "idle"
  /\ news = "untold" /\ Recording = {} => missing \in Records /\ ~missing.notified
  /\ news = "told" /\ notice.pc = "idle" /\ Recording = {} => missing \in Records /\ missing.notified

GateInv == CounterInv /\ SkipInv /\ FreshInv /\ NewsInv

(* A future-dated marker does not push the demand into the far future.     *)
DemandNearNow == \A s \in Sessions : demand[s] # None => demand[s] <= now + OneSecond

(* A letter releases once: what was consumed is stale at every later Stop, *)
(* whatever demands were stamped and hooks killed since.  (A marker dated  *)
(* into the future may release again: consume_marker is clamped to now + 1 *)
(* s, and stamp_demand even moves the demand back to now.  So may one that *)
(* was touched by a hook killed before it moved the demand.)               *)
OneShot == \A s \in Sessions : letter[s] = "used" /\ gate[s].pc = "idle" => ~Fresh(s)

(* A letter written after the stop was blocked releases the next one, even *)
(* if both fall into the same tick.                                        *)
AnswerCounts == \A s \in Sessions : letter[s] = "answer" /\ gate[s].pc = "idle" => Fresh(s)

(* The notice is true: the window it speaks of left no letter behind.      *)
NoticeMeansNoLetter ==
  [][Notice => letter[missing.session] \in {"none", "early"}]_vars

(* A window that ends over the limit without a letter is told of once, to  *)
(* a later window (gate.py: "that the next window is told about"), unless  *)
(* a hook was killed while it wrote, or two hooks wrote at a time: the     *)
(* record is replaced without exclusion.                                   *)
NextWindowIsTold ==
  /\ news # "twice"
  /\ news = "untold" /\ Recording = {} => missing \in Records /\ ~missing.notified
=============================================================================
