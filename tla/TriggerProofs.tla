--------------------------- MODULE TriggerProofs ---------------------------
(***************************************************************************)
(* The arithmetic of Trigger, for any constants, capacity, ratio and       *)
(* setting.                                                                *)
(***************************************************************************)
EXTENDS Trigger, TLAPS

(* A rounded quotient is a number (ratio_trigger_tokens). *)
LEMMA RoundIsInt ==
  ASSUME NEW n \in Int, NEW d \in Nat \ {0}
  PROVE  Round(n, d) \in Int
<1>1. n \div d \in Int
  OBVIOUS
<1> QED
  BY <1>1 DEF Round

(* Whatever is clamped comes out positive, and below the limit. *)
LEMMA ClampBelow ==
  ASSUME NEW t \in Int, NEW limit \in Nat
  PROVE  /\ ClampTrigger(t, limit) \in Nat \ {0}
         /\ limit > 1 => ClampTrigger(t, limit) \in 1 .. limit - 1
BY TriggerConstants DEF ClampTrigger, Least, Greatest

LEMMA RatioBelow ==
  ASSUME NEW limit \in Nat, NEW ratio \in Int
  PROVE  /\ RatioTrigger(limit, ratio) \in Nat
         /\ limit > 1 => RatioTrigger(limit, ratio) \in 1 .. limit - 1
<1> DEFINE percent == Greatest(5, Least(ratio, 99))
           r == Round(limit * percent, 100 * StepTokens)
<1>1. percent \in Int
  BY DEF Greatest, Least
<1>2. limit * percent \in Int /\ 100 * StepTokens \in Nat \ {0}
  BY <1>1, TriggerConstants
<1>3. r \in Int
  BY <1>2, RoundIsInt
<1> HIDE DEF r
<1>4. r * StepTokens \in Int
  BY <1>3, TriggerConstants
<1>5. RatioTrigger(limit, ratio) = ClampTrigger(r * StepTokens, limit)
  BY DEF RatioTrigger, r
<1> QED
  BY <1>4, <1>5, ClampBelow

(* The gate is not dead: what read_trigger_tokens returns lies below the   *)
(* limit, whatever the file and the environment hold.                      *)
THEOREM ReadTriggerBelow ==
  ASSUME NEW setting, NEW limit \in Nat, NEW ratio \in Int
  PROVE  /\ ReadTrigger(setting, limit, ratio) \in Nat
         /\ limit > 1 => ReadTrigger(setting, limit, ratio) \in 1 .. limit - 1
<1>1. CASE OnStep(setting) /\ setting <= MaxTokens /\ setting < limit
  BY <1>1, TriggerConstants DEF OnStep, ReadTrigger
<1>2. CASE ~(OnStep(setting) /\ setting <= MaxTokens /\ setting < limit)
  <2>1. ReadTrigger(setting, limit, ratio) = RatioTrigger(limit, ratio)
    BY <1>2 DEF ReadTrigger
  <2> QED
    BY <2>1, RatioBelow
<1> QED
  BY <1>1, <1>2

(* The two sides of a setting agree: what write_trigger_tokens lets        *)
(* through, read_trigger_tokens and _usage take as it is.                  *)
THEOREM WritableIsShown ==
  ASSUME NEW v, NEW limit \in Nat, NEW ratio, Writable(v, limit)
  PROVE  ShownTrigger(v, limit, ratio) = v
<1>1. OnStep(v) /\ v \in Nat
  BY DEF Writable, OnStep
<1>2. CASE limit > 0
  <2>1. v < limit /\ v <= SliderMax(limit)
    BY <1>2 DEF Writable
  <2>2. SliderMax(limit) \in Int /\ SliderMax(limit) <= MaxTokens
    <3> DEFINE below == ((limit - 1) \div StepTokens) * StepTokens
    <3>1. (limit - 1) \div StepTokens \in Int
      BY TriggerConstants
    <3>2. below \in Int
      BY <3>1, TriggerConstants
    <3>3. SliderMax(limit) = Greatest(MinTokens, Least(MaxTokens, below))
      BY <1>2 DEF SliderMax
    <3> HIDE DEF below
    <3> QED
      BY <3>2, <3>3, TriggerConstants DEF Greatest, Least
  <2>3. v <= MaxTokens
    BY <1>1, <2>1, <2>2, TriggerConstants
  <2> QED
    BY <1>1, <1>2, <2>1, <2>3 DEF ShownTrigger, ReadTrigger
<1>3. CASE ~(limit > 0)
  <2>1. v <= UnknownMax
    BY <1>3 DEF Writable, SliderMax
  <2> QED
    BY <1>1, <1>3, <2>1 DEF ShownTrigger
<1> QED
  BY <1>2, <1>3
=============================================================================
