--------------------------- MODULE RelayGateProofs ---------------------------
(***************************************************************************)
(* Proofs about RelayGate, for any sessions, limit, clock and skew.        *)
(***************************************************************************)
EXTENDS RelayGate, TLAPS

Inv == GateTypeOK /\ CounterInv /\ SkipInv /\ FreshInv

LEMMA GateInitInv == GateInit => Inv
<1> SUFFICES ASSUME GateInit PROVE Inv
  OBVIOUS
<1> USE GateConstants DEF GateInit, Idle, NoticeIdle
<1>1. GateTypeOK
  BY DEF GateTypeOK, GateProgress, Letters
<1>2. CounterInv /\ SkipInv /\ FreshInv
  BY DEF CounterInv, SkipInv, Unrecorded, FreshInv
<1> QED
  BY <1>1, <1>2 DEF Inv

(* The demand that consume_marker leaves is a time. *)
LEMMA ConsumedIsTime ==
  ASSUME GateTypeOK, NEW s \in Sessions
  PROVE  Later(now, Earlier(gate[s].read, now) + OneSecond) \in Nat
BY GateConstants DEF GateTypeOK, GateProgress, Later, Earlier

(* A step of the Stop hook of session s. *)
LEMMA StopStep ==
  ASSUME Inv, NEW s \in Sessions, Stop(s)
  PROVE  Inv'
<1> USE GateConstants DEF Inv, GateTypeOK, GateProgress, Letters, Records, files, told, next, Idle,
                          GateGoto, Leave, Unrecorded
<1>1. CASE StopBegin(s)
  <2> USE <1>1 DEF StopBegin
  <2>0. Fresh(s) \in BOOLEAN
    BY DEF Fresh
  <2>1. GateTypeOK'
    BY <2>0
  <2>2. (CounterInv /\ SkipInv /\ FreshInv)'
    BY <2>0 DEF CounterInv, SkipInv, FreshInv, Fresh
  <2> QED
    BY <2>1, <2>2
<1>2. CASE StopRelease(s)
  <2> USE <1>2 DEF StopRelease
  <2> DEFINE d == Later(now, Earlier(gate[s].read, now) + OneSecond)
  <2>0. d \in Nat
    BY ConsumedIsTime
  <2>1. demand' = [demand EXCEPT ![s] = d]
    BY DEF ConsumeMarker
  <2> HIDE DEF d
  <2>2. GateTypeOK'
    BY <2>0, <2>1
  <2>3. (CounterInv /\ SkipInv /\ FreshInv)'
    BY DEF CounterInv, SkipInv, FreshInv
  <2> QED
    BY <2>2, <2>3
<1>3. CASE StopFailsOpen(s)
  BY <1>3 DEF StopFailsOpen, CounterInv, SkipInv, FreshInv
<1>4. CASE StopSkip(s)
  BY <1>4 DEF StopSkip, SkipArmed, CounterInv, SkipInv, FreshInv
<1>5. CASE StopSpend(s)
  BY <1>5 DEF StopSpend, CounterInv, SkipInv, FreshInv
<1>11. CASE StopSkipped(s)
  BY <1>11 DEF StopSkipped, CounterInv, SkipInv, FreshInv
<1>12. CASE StopTouch(s)
  <2> USE <1>12 DEF StopTouch
  <2>0. marker[s] \in Nat
    BY DEF FreshInv
  <2>1. GateTypeOK'
    BY <2>0
  <2>2. (CounterInv /\ SkipInv /\ FreshInv)'
    BY <2>0 DEF CounterInv, SkipInv, FreshInv
  <2> QED
    BY <2>1, <2>2
<1>6. CASE StopMissing(s)
  BY <1>6 DEF StopMissing, CounterInv, SkipInv, FreshInv
<1>7. CASE StopCount(s)
  <2> USE <1>7 DEF StopCount, LimitReached
  <2>0. count[s] \in Nat /\ count[s] + 1 \in Nat /\ count[s] + 1 <= MaxBlocks
    OBVIOUS
  <2>1. gate' \in [Sessions -> GateProgress]
    BY <2>0
  <2>2. GateTypeOK'
    BY <2>0, <2>1
  <2>3. (CounterInv /\ SkipInv /\ FreshInv)'
    BY <2>0, <2>1 DEF CounterInv, SkipInv, FreshInv
  <2> QED
    BY <2>2, <2>3
<1>8. CASE StopWrite(s)
  BY <1>8 DEF StopWrite, CounterInv, SkipInv, FreshInv
<1>9. CASE StopBlock(s)
  BY <1>9 DEF StopBlock, CounterInv, SkipInv, FreshInv
<1>10. CASE StopRecord(s)
  BY <1>10 DEF StopRecord, CounterInv, SkipInv, FreshInv
<1> QED
  BY <1>1, <1>2, <1>3, <1>4, <1>5, <1>6, <1>7, <1>8, <1>9, <1>10, <1>11, <1>12 DEF Stop

LEMMA GateStep == Inv /\ [GateNext]_vars => Inv'
<1> SUFFICES ASSUME Inv, [GateNext]_vars PROVE Inv'
  OBVIOUS
<1> USE GateConstants DEF Inv, GateTypeOK, CounterInv, SkipInv, Unrecorded, FreshInv, Records,
                          files, told, next, stops
<1>1. CASE Tick
  BY <1>1 DEF Tick
<1>2. CASE SessionStarts
  <2>1. UNCHANGED <<now, stops>>
    BY <1>2 DEF SessionStarts, Notice, NoticeOpen, NoticeWrite, NoticeDies
  <2>2. missing' \in Records \cup {None, Corrupt}
    <3>1. CASE NoticeWrite
      <4>1. notice.session \in Sessions
        BY <3>1 DEF NoticeWrite, NoticeIdle
      <4> QED
        BY <3>1, <4>1 DEF NoticeWrite
    <3>2. CASE Notice \/ NoticeOpen \/ NoticeDies
      BY <3>2 DEF Notice, NoticeOpen, NoticeDies
    <3> QED
      BY <1>2, <3>1, <3>2 DEF SessionStarts
  <2>3. /\ notice' \in [pc: {"open", "write"}, session: Sessions] \cup {NoticeIdle}
        /\ news' \in {"none", "untold", "told", "twice", "mixed"}
    BY <1>2 DEF SessionStarts, Notice, NoticeOpen, NoticeWrite, NoticeDies, NoticeGoto, NoticeIdle
  <2> QED
    BY <2>1, <2>2, <2>3
<1>3. ASSUME NEW s \in Sessions, Letter(s) PROVE Inv'
  BY <1>3 DEF Letter, Letters
<1>6. ASSUME NEW s \in Sessions, ArmSkip(s) PROVE Inv'
  BY <1>6 DEF ArmSkip
<1>7. CASE DirAppears
  BY <1>7 DEF DirAppears
<1>4. ASSUME NEW s \in Sessions, Stop(s) PROVE Inv'
  BY <1>4, StopStep
<1>5. CASE UNCHANGED vars
  BY <1>5 DEF vars
<1> QED
  BY <1>1, <1>2, <1>3, <1>4, <1>5, <1>6, <1>7 DEF GateNext

(* Every variable of the gate keeps its type, for any sessions and limits. *)
THEOREM GateTypeCorrect == GateSpec => []GateTypeOK
<1>1. Inv => GateTypeOK
  BY DEF Inv
<1> QED
  BY GateInitInv, GateStep, <1>1, PTL DEF GateSpec

(* However often its Stop hook is killed and its counter torn, a session   *)
(* is blocked at most MAX_BLOCKS times (write_block_count before exit 2).  *)
THEOREM BlockLimitHolds == GateSpec => []BlockLimit
<1>1. Inv => BlockLimit
  BY DEF Inv, CounterInv, BlockLimit
<1> QED
  BY GateInitInv, GateStep, <1>1, PTL DEF GateSpec

(* However often a skip is armed and its hook killed, it releases one stop *)
(* of a session, and one more where consume_skip found no directory for    *)
(* the skip-used file: the audit that follows creates it.                  *)
THEOREM SkipOnceIfRecordedHolds == GateSpec => []SkipOnceIfRecorded
<1>1. Inv => SkipOnceIfRecorded
  BY DEF Inv, SkipInv, Unrecorded, SkipOnceIfRecorded
<1> QED
  BY GateInitInv, GateStep, <1>1, PTL DEF GateSpec

-----------------------------------------------------------------------------
(***************************************************************************)
(* The times of marker and demand.  A letter that was used is older than   *)
(* the demand, and, once a turn has passed, older than the clock, so that  *)
(* a demand stamped by a later block keeps it stale; an answer is at least *)
(* as new as the demand, and only a hook that found it fresh can run.      *)
(***************************************************************************)
TimeInv(s) ==
  /\ demand[s] # None => demand[s] <= now + OneSecond
  /\ marker[s] # None /\ letter[s] # "ahead" => marker[s] <= now
  /\ gate[s].pc # "idle" => s \notin ran
  /\ s \in owed => demand[s] # None /\ demand[s] <= now
  /\ gate[s].pc = "consume" => /\ s \notin owed /\ letter[s] # "used"
                               /\ letter[s] = "touched" => gate[s].read = marker[s]
  /\ letter[s] = "used" => /\ marker[s] # None /\ demand[s] # None
                           /\ marker[s] < demand[s]
                           /\ s \notin ran => marker[s] < now
  /\ letter[s] = "answer" => /\ marker[s] # None /\ demand[s] # None
                             /\ marker[s] >= demand[s]
                             /\ gate[s].pc # "idle" => gate[s].pc = "judge" /\ gate[s].fresh

TimesInv == \A s \in Sessions : TimeInv(s)

(* The demand that consume_marker leaves, for a marker of time m.          *)
LEMMA ConsumedNearNow ==
  ASSUME NEW m \in Nat, NEW n \in Nat, NEW second \in Nat \ {0}
  PROVE  LET d == Later(n, Earlier(m, n) + second)
         IN  d \in Nat /\ d <= n + second /\ (m <= n => m < d)
BY DEF Later, Earlier

LEMMA TimesInitInv == GateInit => TimesInv
BY GateConstants DEF GateInit, TimesInv, TimeInv, Idle

(* What a step of another session leaves alone. *)
LEMMA OthersKeepTimes ==
  ASSUME GateTypeOK, TimesInv, NEW s \in Sessions, NEW r \in Sessions, r # s,
         Letter(s) \/ ArmSkip(s) \/ Stop(s)
  PROVE  TimeInv(r)'
<1>1. TimeInv(r)
  BY DEF TimesInv
<1>2. /\ now' = now /\ marker'[r] = marker[r] /\ demand'[r] = demand[r]
      /\ letter'[r] = letter[r] /\ gate'[r] = gate[r]
      /\ (r \in owed' <=> r \in owed) /\ (r \in ran' <=> r \in ran)
  <2> USE DEF GateTypeOK, GateGoto, Leave, files, told, Idle, GateProgress
  <2>1. CASE Letter(s)
    BY <2>1 DEF Letter
  <2>3. CASE ArmSkip(s)
    BY <2>3 DEF ArmSkip
  <2>2. CASE Stop(s)
    <3>1. CASE StopBegin(s) \/ StopFailsOpen(s) \/ StopSkip(s) \/ StopSpend(s) \/ StopSkipped(s)
      BY <3>1 DEF StopBegin, StopFailsOpen, StopSkip, StopSpend, StopSkipped
    <3>2. CASE StopMissing(s) \/ StopRecord(s) \/ StopCount(s) \/ StopWrite(s) \/ StopBlock(s)
      BY <3>2 DEF StopMissing, StopRecord, StopCount, StopWrite, StopBlock
    <3>3. CASE StopTouch(s) \/ StopRelease(s)
      BY <3>3 DEF StopTouch, StopRelease, ConsumeMarker
    <3> QED
      BY <2>2, <3>1, <3>2, <3>3 DEF Stop
  <2> QED
    BY <2>1, <2>2, <2>3
<1> QED
  BY <1>1, <1>2 DEF TimeInv

(* The Stop hook of the session itself. *)
LEMMA StopKeepsTimes ==
  ASSUME Inv, TimesInv, NEW s \in Sessions, Stop(s)
  PROVE  TimeInv(s)'
<1> USE GateConstants DEF Inv, GateTypeOK, GateProgress, Letters, TimeInv, files, told, Idle,
                          GateGoto, Leave
<1>0. TimeInv(s)
  BY DEF TimesInv
<1>1. CASE StopBegin(s)
  <2> DEFINE f == Fresh(s)
  <2>1. gate' = [gate EXCEPT ![s] = [pc |-> "judge", fresh |-> f, read |-> 0]]
        /\ UNCHANGED <<now, files, ran, told>> /\ s \notin ran
    BY <1>1 DEF StopBegin
  <2>2. letter[s] = "answer" => f
    BY <1>0 DEF Fresh
  <2> HIDE DEF f
  <2>3. gate'[s].pc = "judge" /\ gate'[s].fresh = f
    BY <2>1
  <2> QED
    BY <1>0, <2>1, <2>2, <2>3
<1>2. CASE StopRelease(s)
  <2> DEFINE m == gate[s].read
             d == Later(now, Earlier(m, now) + OneSecond)
  <2>1. m \in Nat
    OBVIOUS
  <2>2. d \in Nat /\ d <= now + OneSecond /\ (m <= now => m < d)
    BY <2>1, ConsumedNearNow, GateConstants
  <2>3. letter[s] = "touched" => m = marker[s]
    BY <1>0, <1>2 DEF StopRelease
  <2>4. /\ now' = now /\ marker' = marker /\ demand'[s] = d /\ owed' = owed
        /\ gate'[s].pc = "idle" /\ s \in ran'
        /\ letter'[s] = IF letter[s] = "touched" THEN "used" ELSE letter[s]
    BY <1>2 DEF StopRelease, ConsumeMarker
  <2> HIDE DEF d, m
  <2>5. gate[s].pc = "consume"
    BY <1>2 DEF StopRelease
  <2>6. s \notin owed /\ letter[s] # "answer"
    BY <1>0, <2>5
  <2>7. CASE letter[s] = "touched"
    <3>1. marker[s] = m /\ m <= now /\ m < d /\ letter'[s] = "used"
      BY <1>0, <2>1, <2>2, <2>3, <2>4, <2>7
    <3> QED
      BY <2>1, <2>2, <2>4, <2>6, <3>1
  <2>8. CASE letter[s] # "touched"
    BY <1>0, <2>1, <2>2, <2>4, <2>5, <2>6, <2>8
  <2> QED
    BY <2>7, <2>8
<1>3. CASE StopFailsOpen(s)
  BY <1>0, <1>3 DEF StopFailsOpen
<1>4. CASE StopSkip(s)
  BY <1>0, <1>4 DEF StopSkip
<1>5. CASE StopSpend(s)
  BY <1>0, <1>5 DEF StopSpend
<1>11. CASE StopSkipped(s)
  BY <1>0, <1>11 DEF StopSkipped
<1>12. CASE StopTouch(s)
  BY <1>0, <1>12 DEF StopTouch, FreshInv
<1>6. CASE StopMissing(s)
  BY <1>0, <1>6 DEF StopMissing, Judges
<1>7. CASE StopCount(s)
  BY <1>0, <1>7 DEF StopCount, Judges
<1>8. CASE StopWrite(s)
  BY <1>0, <1>8 DEF StopWrite
<1>9. CASE StopBlock(s)
  BY <1>0, <1>9 DEF StopBlock
<1>10. CASE StopRecord(s)
  BY <1>0, <1>10 DEF StopRecord
<1> QED
  BY <1>1, <1>2, <1>3, <1>4, <1>5, <1>6, <1>7, <1>8, <1>9, <1>10, <1>11, <1>12 DEF Stop

LEMMA TimesStep == Inv /\ TimesInv /\ [GateNext]_vars => TimesInv'
<1> SUFFICES ASSUME Inv, TimesInv, [GateNext]_vars PROVE TimesInv'
  OBVIOUS
<1> USE GateConstants DEF Inv, GateTypeOK
<1>1. CASE Tick
  BY <1>1 DEF Tick, files, told, TimesInv, TimeInv
<1>2. CASE SessionStarts
  BY <1>2 DEF SessionStarts, Notice, NoticeOpen, NoticeWrite, NoticeDies, stops, told,
              TimesInv, TimeInv
<1>3. ASSUME NEW s \in Sessions, Letter(s) PROVE TimesInv'
  <2>1. TimeInv(s)'
    <3>0. TimeInv(s)
      BY DEF TimesInv
    <3>1. PICK skew \in Skews \cup {0} :
            /\ marker' = [marker EXCEPT ![s] = now + skew]
            /\ letter' = [letter EXCEPT ![s] =
                             IF skew > 0 THEN "ahead"
                             ELSE IF s \in owed /\ gate[s].pc = "idle" THEN "answer" ELSE "early"]
      BY <1>3 DEF Letter
    <3>a. skew \in Nat
      OBVIOUS
    <3>b. marker'[s] = now + skew
      BY <3>1, Zenon
    <3>2. skew \in Nat /\ marker'[s] = now + skew
      BY <3>a, <3>b
    <3>3. /\ now' = now /\ demand' = demand /\ gate' = gate /\ ran' = ran
          /\ s \in owed' => s \in owed
      BY <1>3 DEF Letter
    <3>4. CASE skew > 0
      <4>1. letter'[s] = "ahead"
        BY <3>1, <3>4
      <4> QED
        BY <3>0, <3>2, <3>3, <4>1 DEF TimeInv
    <3>5. CASE skew = 0
      <4>1. /\ letter'[s] \in {"answer", "early"} /\ marker'[s] = now
            /\ letter'[s] = "answer" => s \in owed /\ gate[s].pc = "idle"
        BY <3>1, <3>2, <3>5
      <4> QED
        BY <3>0, <3>3, <4>1 DEF TimeInv
    <3> QED
      BY <3>2, <3>4, <3>5
  <2> QED
    BY <1>3, <2>1, OthersKeepTimes DEF TimesInv
<1>4. ASSUME NEW s \in Sessions, Stop(s) PROVE TimesInv'
  BY <1>4, StopKeepsTimes, OthersKeepTimes DEF TimesInv
<1>5. CASE UNCHANGED vars
  BY <1>5 DEF vars, stops, told, TimesInv, TimeInv
<1>6. ASSUME NEW s \in Sessions, ArmSkip(s) PROVE TimesInv'
  BY <1>6 DEF ArmSkip, told, TimesInv, TimeInv
<1>7. CASE DirAppears
  BY <1>7 DEF DirAppears, told, TimesInv, TimeInv
<1> QED
  BY <1>1, <1>2, <1>3, <1>4, <1>5, <1>6, <1>7 DEF GateNext

(* consume_marker never moves the demand more than a second beyond now.    *)
THEOREM DemandNearNowHolds == GateSpec => []DemandNearNow
<1>1. TimesInv => DemandNearNow
  BY DEF TimesInv, TimeInv, DemandNearNow
<1> QED
  BY GateInitInv, GateStep, TimesInitInv, TimesStep, <1>1, PTL DEF GateSpec

(* A letter that released a stop releases no other, whatever demands are   *)
(* stamped and hooks killed after it (consume_marker, stamp_demand).       *)
THEOREM OneShotHolds == GateSpec => []OneShot
<1>1. Inv /\ TimesInv => OneShot
  BY GateConstants DEF Inv, GateTypeOK, TimesInv, TimeInv, OneShot, Fresh
<1> QED
  BY GateInitInv, GateStep, TimesInitInv, TimesStep, <1>1, PTL DEF GateSpec

(* A letter that answers a demand releases the next stop (handle_stop).    *)
THEOREM AnswerCountsHolds == GateSpec => []AnswerCounts
<1>1. TimesInv => AnswerCounts
  BY DEF TimesInv, TimeInv, AnswerCounts, Fresh
<1> QED
  BY GateInitInv, GateStep, TimesInitInv, TimesStep, <1>1, PTL DEF GateSpec
-----------------------------------------------------------------------------
(***************************************************************************)
(* The record of the last window: a hook alone with it takes it from torn  *)
(* to untold, and a notice alone with it from untold to told.              *)
(***************************************************************************)
LEMMA NewsInitInv == GateInit => NewsInv
BY DEF GateInit, NewsInv

(* The Stop hooks that write the record, before and after a step of one.   *)
LEMMA RecordingSteps ==
  ASSUME GateTypeOK, NEW s \in Sessions, NEW l \in {"judge", "spend", "skipped", "write", "stamp", "record"}
  PROVE  /\ GateGoto(s, l) =>
              Recording' = IF l = "record" THEN Recording \cup {s} ELSE Recording \ {s}
         /\ Leave(s) => Recording' = Recording \ {s}
BY DEF GateTypeOK, GateProgress, Recording, GateGoto, Leave, Idle

(* Steps of a Stop hook that leave record and notice alone.                *)
LEMMA OtherStopsKeepNews ==
  ASSUME GateTypeOK, NewsInv, NEW s \in Sessions,
         UNCHANGED next, s \notin Recording, Recording' = Recording \ {s}
  PROVE  NewsInv'
<1>1. Recording' = Recording
  OBVIOUS
<1> QED
  BY <1>1 DEF NewsInv, next

LEMMA StopKeepsNews ==
  ASSUME GateTypeOK, NewsInv, NEW s \in Sessions, Stop(s)
  PROVE  NewsInv'
<1> USE GateConstants
<1>1. CASE StopMissing(s)
  <2>1. s \notin Recording /\ Recording' = Recording \cup {s}
    BY <1>1, RecordingSteps DEF StopMissing, Judges, Recording
  <2>2. CASE Alone(s)
    BY <1>1, <2>1, <2>2 DEF StopMissing, Alone, NewsInv
  <2>3. CASE ~Alone(s)
    BY <1>1, <2>3 DEF StopMissing, NewsInv
  <2> QED
    BY <2>2, <2>3
<1>2. CASE StopRecord(s)
  <2>1. Recording' = Recording \ {s}
    BY <1>2, RecordingSteps DEF StopRecord
  <2>2. CASE Alone(s)
    BY <1>2, <2>1, <2>2 DEF StopRecord, Alone, NewsInv, Records
  <2>3. CASE ~Alone(s)
    BY <1>2, <2>3 DEF StopRecord, NewsInv
  <2> QED
    BY <2>2, <2>3
<1>3. CASE StopFailsOpen(s)
  <2>1. Recording' = Recording \ {s}
    BY <1>3, RecordingSteps DEF StopFailsOpen
  <2>2. CASE gate[s].pc = "record"
    BY <1>3, <2>2 DEF StopFailsOpen, NewsInv
  <2>3. CASE gate[s].pc # "record"
    BY <1>3, <2>1, <2>3, OtherStopsKeepNews DEF StopFailsOpen, next, Recording
  <2> QED
    BY <2>2, <2>3
<1>4. CASE StopBegin(s)
  BY <1>4, OtherStopsKeepNews DEF StopBegin, Recording, GateTypeOK, GateProgress
<1>5. CASE StopCount(s)
  BY <1>5, OtherStopsKeepNews DEF StopCount, Judges, Recording, GateTypeOK, GateProgress
<1>6. CASE StopRelease(s)
  BY <1>6, RecordingSteps, OtherStopsKeepNews DEF StopRelease, Recording
<1>7. CASE StopSkip(s)
  BY <1>7, RecordingSteps, OtherStopsKeepNews DEF StopSkip, Recording
<1>8. CASE StopSpend(s)
  BY <1>8, RecordingSteps, OtherStopsKeepNews DEF StopSpend, Recording
<1>11. CASE StopSkipped(s)
  BY <1>11, RecordingSteps, OtherStopsKeepNews DEF StopSkipped, Recording
<1>12. CASE StopTouch(s)
  BY <1>12, OtherStopsKeepNews DEF StopTouch, Recording, GateTypeOK, GateProgress
<1>9. CASE StopWrite(s)
  BY <1>9, RecordingSteps, OtherStopsKeepNews DEF StopWrite, Recording
<1>10. CASE StopBlock(s)
  BY <1>10, RecordingSteps, OtherStopsKeepNews DEF StopBlock, Recording
<1> QED
  BY <1>1, <1>2, <1>3, <1>4, <1>5, <1>6, <1>7, <1>8, <1>9, <1>10, <1>11, <1>12 DEF Stop

LEMMA NewsStep == GateTypeOK /\ NewsInv /\ [GateNext]_vars => NewsInv'
<1> SUFFICES ASSUME GateTypeOK, NewsInv, [GateNext]_vars PROVE NewsInv'
  OBVIOUS
<1> USE GateConstants
<1>1. CASE SessionStarts
  <2>1. Recording' = Recording
    BY <1>1 DEF SessionStarts, Notice, NoticeOpen, NoticeWrite, NoticeDies, stops, Recording
  <2>2. CASE Notice
    BY <2>1, <2>2 DEF Notice, NewsInv, Records
  <2>3. CASE NoticeOpen
    BY <2>1, <2>3 DEF NoticeOpen, NoticeGoto, NoticeIdle, NewsInv, GateTypeOK
  <2>4. CASE NoticeWrite
    BY <2>1, <2>4 DEF NoticeWrite, NoticeIdle, NewsInv, GateTypeOK, Records
  <2>5. CASE NoticeDies
    BY <2>5 DEF NoticeDies, NewsInv
  <2> QED
    BY <1>1, <2>2, <2>3, <2>4, <2>5 DEF SessionStarts
<1>2. ASSUME NEW s \in Sessions, Stop(s) PROVE NewsInv'
  BY <1>2, StopKeepsNews
<1>3. CASE UNCHANGED <<next, gate>>
  BY <1>3 DEF next, NewsInv, Recording
<1> QED
  BY <1>1, <1>2, <1>3 DEF GateNext, Tick, DirAppears, Letter, ArmSkip, vars, stops

(* The record, the counter and the skip of the gate: what GateInv says of  *)
(* them is inductive (gate.py's handle_stop and its notice).               *)
THEOREM GateInvHolds == GateSpec => []GateInv
<1>1. Inv /\ NewsInv => GateInv
  BY DEF Inv, GateInv
<1>2. Inv => GateTypeOK
  BY DEF Inv
<1> QED
  BY GateInitInv, GateStep, NewsInitInv, NewsStep, <1>1, <1>2, PTL DEF GateSpec

(* Without a kill or an overlap in its writing, a record is told of once   *)
(* (record_handoff_missing, handle_session_start_notice).                  *)
THEOREM NextWindowIsToldHolds == GateSpec => []NextWindowIsTold
<1>1. NewsInv => NextWindowIsTold
  BY DEF NewsInv, NextWindowIsTold
<1>2. Inv => GateTypeOK
  BY DEF Inv
<1> QED
  BY GateInitInv, GateStep, NewsInitInv, NewsStep, <1>1, <1>2, PTL DEF GateSpec
=============================================================================
