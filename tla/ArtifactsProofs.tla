-------------------------- MODULE ArtifactsProofs --------------------------
(***************************************************************************)
(* Steps of Kimi and of adopt()'s wait keep what Artifacts promises, for   *)
(* any number of rows.                                                     *)
(***************************************************************************)
EXTENDS Artifacts, TLAPS

ArtifactStep ==
  \/ KimiStarts \/ KimiCopies \/ KimiBeginsRow \/ KimiWrites
  \/ WaitBegin \/ WaitGoesOn

(* The wire of a fresh session is missing for as long as adopt() waits.    *)
FreshInv ==
  wait.fresh =>
    /\ session.state = "own" /\ session.dirs >= 1
    /\ Waiting => session.wire = NoWire
    /\ wait.pc \in {"late", "failed"} => session.dirs > 1

ArtifactInv == ArtifactTypeOK /\ FreshInv /\ CursorWithinWire

LEMMA ArtifactInitInv == ArtifactInit => ArtifactInv
BY ArtifactConstants
   DEF ArtifactInit, ArtifactInv, ArtifactTypeOK, FreshInv, CursorWithinWire, Nothing, WaitOff,
       StateFiles, Waiting

LEMMA KimiStep ==
  ASSUME ArtifactInv, KimiStarts \/ KimiCopies \/ KimiBeginsRow \/ KimiWrites
  PROVE  ArtifactInv'
<1> USE ArtifactConstants
        DEF ArtifactInv, ArtifactTypeOK, FreshInv, CursorWithinWire, Waiting, StateFiles, Tails, Wires
<1>1. CASE KimiStarts
  BY <1>1 DEF KimiStarts, Nothing
<1>2. CASE KimiCopies
  BY <1>2 DEF KimiCopies
<1>3. CASE KimiBeginsRow
  BY <1>3 DEF KimiBeginsRow, WireTail
<1>4. CASE KimiWritesState
  BY <1>4 DEF KimiWritesState
<1>5. CASE KimiOpensWire
  <2> DEFINE w == [rows |-> 0, tail |-> "none"]
  <2>1. session' = [session EXCEPT !.wire = w] /\ w \in Wires /\ session.wire = NoWire
    BY <1>5 DEF KimiOpensWire
  <2>2. wait'.pc = wait.pc /\ wait'.cursor = wait.cursor /\ wait'.fresh \in BOOLEAN
    BY <1>5 DEF KimiOpensWire
  <2>3. wait'.fresh => wait.fresh /\ ~Waiting
    BY <1>5 DEF KimiOpensWire
  <2>4. ArtifactTypeOK'
    BY <1>5, <2>1 DEF KimiOpensWire
  <2>5. CursorWithinWire'
    BY <2>1, <2>2
  <2>6. FreshInv'
    BY <2>1, <2>2, <2>3
  <2> QED
    BY <2>4, <2>5, <2>6
<1>6. CASE KimiGoesOn
  BY <1>6 DEF KimiGoesOn, WireTail
<1>7. CASE KimiEndsRow
  BY <1>7 DEF KimiEndsRow
<1> QED
  BY <1>1, <1>2, <1>3, <1>4, <1>5, <1>6, <1>7 DEF KimiWrites

LEMMA WaitStep ==
  ASSUME ArtifactInv, WaitBegin \/ WaitGoesOn
  PROVE  ArtifactInv'
<1> USE ArtifactConstants
        DEF ArtifactInv, ArtifactTypeOK, FreshInv, CursorWithinWire, Waiting, StateFiles, Tails, Wires,
            WaitGoto
<1>1. CASE WaitBegin
  <2> DEFINE f == session = [dirs |-> 1, state |-> "own", wire |-> NoWire]
  <2>1. wait' = [pc |-> "state", cursor |-> 0, fresh |-> f] /\ session' = session
    BY <1>1 DEF WaitBegin
  <2>2. f \in BOOLEAN /\ (f => session.state = "own" /\ session.dirs = 1 /\ session.wire = NoWire)
    OBVIOUS
  <2> HIDE DEF f
  <2>3. wait'.pc = "state" /\ wait'.cursor = 0 /\ wait'.fresh = f
    BY <2>1
  <2>4. ArtifactTypeOK'
    BY <2>1, <2>2
  <2>5. FreshInv' /\ CursorWithinWire'
    BY <2>1, <2>2, <2>3
  <2> QED
    BY <2>4, <2>5
<1>2. CASE CheckState
  BY <1>2 DEF CheckState
<1>3. CASE CheckWire
  <2>1. session' = session /\ wait.pc = "wire"
    BY <1>3 DEF CheckWire
  <2>2. CASE NotReady
    BY <1>3, <2>1, <2>2 DEF CheckWire, NotReady
  <2>3. CASE ~NotReady /\ Broken
    BY <1>3, <2>1, <2>3 DEF CheckWire, Broken
  <2>4. CASE ~NotReady /\ ~Broken
    <3>1. wait' = [wait EXCEPT !.pc = "bound", !.cursor = RowsRead]
      BY <1>3, <2>4 DEF CheckWire
    <3>2. CASE session.wire = NoWire
      <4>1. RowsRead = 0
        BY <3>2 DEF RowsRead
      <4>2. wait' = [wait EXCEPT !.pc = "bound", !.cursor = 0]
        BY <3>1, <4>1
      <4>3. wait'.pc = "bound" /\ wait'.cursor = 0 /\ wait'.fresh = wait.fresh
        BY <4>2
      <4> HIDE DEF Wires, Tails
      <4>4. ArtifactTypeOK'
        BY <2>1, <4>2
      <4>5. FreshInv'
        BY <2>1, <4>3
      <4>6. CursorWithinWire'
        BY <2>1, <3>2, <4>3
      <4> QED
        BY <4>4, <4>5, <4>6
    <3>3. CASE session.wire # NoWire
      <4>1. session.wire.rows \in Nat /\ session.wire.tail \in {"none", "whole"}
        BY <2>4, <3>3 DEF NotReady, Broken
      <4>2. RowsRead \in Nat
            /\ RowsRead <= session.wire.rows + (IF session.wire.tail = "whole" THEN 1 ELSE 0)
        BY <3>3, <4>1 DEF RowsRead
      <4> HIDE DEF Wires, Tails
      <4>3. ArtifactTypeOK' /\ FreshInv'
        BY <2>1, <3>1, <4>2
      <4>4. CursorWithinWire'
        BY <2>1, <3>1, <3>3, <4>2
      <4> QED
        BY <4>3, <4>4
    <3> QED
      BY <3>2, <3>3
  <2> QED
    BY <2>2, <2>3, <2>4
<1>4. CASE PollAgain
  BY <1>4 DEF PollAgain
<1>5. CASE PollDeadline
  BY <1>5 DEF PollDeadline
<1> QED
  BY <1>1, <1>2, <1>3, <1>4, <1>5 DEF WaitGoesOn

LEMMA ArtifactInvStep == ArtifactInv /\ (ArtifactStep \/ UNCHANGED avars) => ArtifactInv'
<1>1. ASSUME ArtifactInv, UNCHANGED avars PROVE ArtifactInv'
  BY <1>1 DEF avars, ArtifactInv, ArtifactTypeOK, FreshInv, CursorWithinWire, Waiting
<1> QED
  BY <1>1, KimiStep, WaitStep DEF ArtifactStep

(* A hook that is not killed waits for nothing that Kimi creates later.    *)
LEMMA FreshIsBound == ArtifactInv => FreshSessionIsBound
BY DEF ArtifactInv, ArtifactTypeOK, FreshInv, FreshSessionIsBound
=============================================================================
