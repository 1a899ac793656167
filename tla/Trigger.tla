------------------------------- MODULE Trigger -------------------------------
(***************************************************************************)
(* The Relay threshold (gate.py, Controller._usage): from the capacity of  *)
(* the model, a ratio and the explicit setting to the number of tokens at  *)
(* which the gate demands a letter.  The ratio is a percentage.  A setting *)
(* is what a reader finds in settings.json: a number, or something else    *)
(* (no file, an invalid one).                                              *)
(***************************************************************************)
EXTENDS Integers

CONSTANTS
  MinTokens,       \* TRIGGER_MIN_TOKENS
  MaxTokens,       \* TRIGGER_MAX_TOKENS
  StepTokens,      \* TRIGGER_STEP_TOKENS
  UnknownMax,      \* the ceiling while the capacity is unknown
  UnknownDefault   \* what the panel shows meanwhile

ASSUME TriggerConstants ==
  /\ MinTokens \in Nat \ {0} /\ MaxTokens \in Nat /\ MinTokens <= MaxTokens
  /\ StepTokens \in Nat \ {0}
  /\ UnknownMax \in Nat /\ MinTokens <= UnknownMax /\ UnknownMax <= MaxTokens
  /\ UnknownDefault \in Nat

Least(a, b)    == IF a <= b THEN a ELSE b
Greatest(a, b) == IF a >= b THEN a ELSE b

(* Python's round(n / d): to the nearest integer, ties to the even one. *)
Round(n, d) ==
  LET q == n \div d
      m == n % d
  IN  IF 2 * m > d \/ (2 * m = d /\ q % 2 = 1) THEN q + 1 ELSE q

(* The definitions named Mutant... are mistakes one could make in the      *)
(* definition that follows; each breaks a property of a run.               *)
MutantClampTrigger(tokens, limit) ==   \* equal to the limit is let through
  LET t == Greatest(MinTokens, Least(tokens, MaxTokens))
  IN  IF t > limit THEN Greatest(1, limit - StepTokens) ELSE t

MutantClampNegative(tokens, limit) ==   \* a limit below a step
  LET t == Greatest(MinTokens, Least(tokens, MaxTokens))
  IN  IF t >= limit THEN limit - StepTokens ELSE t

(* Into the allowed range, then below the limit. *)
ClampTrigger(tokens, limit) ==
  LET t == Greatest(MinTokens, Least(tokens, MaxTokens))
  IN  IF t >= limit THEN Greatest(1, limit - StepTokens) ELSE t

RatioTrigger(limit, ratio) ==
  LET percent == Greatest(5, Least(ratio, 99))
  IN  ClampTrigger(Round(limit * percent, 100 * StepTokens) * StepTokens, limit)

OnStep(v) == v \in Nat /\ MinTokens <= v /\ v % StepTokens = 0

(* The explicit setting wins; anything invalid falls back to the ratio. *)
ReadTrigger(setting, limit, ratio) ==
  IF OnStep(setting) /\ setting <= MaxTokens /\ setting < limit
  THEN setting
  ELSE RatioTrigger(limit, ratio)

SliderMax(limit) ==
  IF limit <= 0 THEN UnknownMax
  ELSE Greatest(MinTokens, Least(MaxTokens, ((limit - 1) \div StepTokens) * StepTokens))

MutantWritable(tokens, limit) ==   \* no ceiling while the capacity is unknown
  /\ OnStep(tokens) /\ tokens <= MaxTokens
  /\ limit > 0 => tokens < limit

(* May update_settings persist this threshold? *)
Writable(tokens, limit) ==
  /\ OnStep(tokens) /\ tokens <= SliderMax(limit)
  /\ limit > 0 => tokens < limit

(* The trigger that status(), the panel and `set-trigger` report. *)
ShownTrigger(setting, limit, ratio) ==
  IF limit > 0 THEN ReadTrigger(setting, limit, ratio)
  ELSE IF OnStep(setting) /\ setting <= UnknownMax THEN setting ELSE UnknownDefault
=============================================================================
