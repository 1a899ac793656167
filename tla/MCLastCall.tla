----------------------------- MODULE MCLastCall -----------------------------
(* Instances of LastCall for TLC: the budgets of the runs. *)
EXTENDS LastCall, TLC

CONSTANTS s1, s2, s3

ManualBudget    == [user |-> 2, confirm |-> 2, stop |-> 0, crash |-> 2, mode |-> 0]
AutomaticBudget == [user |-> 1, confirm |-> 0, stop |-> 2, crash |-> 1, mode |-> 0]
MixedBudget     == [user |-> 1, confirm |-> 1, stop |-> 1, crash |-> 1, mode |-> 1]
SteadyBudget    == [user |-> 1, confirm |-> 0, stop |-> 2, crash |-> 0, mode |-> 0]
SettleBudget    == [user |-> 1, confirm |-> 2, stop |-> 1, crash |-> 0, mode |-> 0]
ResumeBudget    == [user |-> 2, confirm |-> 1, stop |-> 0, crash |-> 1, mode |-> 0]

ThreadSymmetry == Permutations(Sessions) \cup Permutations(Confirmers)
=============================================================================
