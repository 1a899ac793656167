------------------------------ MODULE Rollover ------------------------------
(***************************************************************************)
(* What the last-call controller promises (README.md, "mechanical evidence *)
(* that the intended new session actually took over"): one session is      *)
(* bound at a time; it is only replaced when a switch that names it ends;  *)
(* switches come one after another, and a completed one leads to another   *)
(* session.  There are no threads, files or crashes here.                  *)
(***************************************************************************)
EXTENDS Naturals

CONSTANTS Sessions, None

VARIABLES
  bound,      \* the bound session
  op,         \* the switch in progress
  begun,      \* number of switches begun
  done        \* the completed switches

rvars == <<bound, op, begun, done>>

Init == bound = None /\ op = None /\ begun = 0 /\ done = {}

(* The first session of an installation. *)
Bind(s) ==
  /\ bound = None /\ op = None
  /\ bound' = s
  /\ UNCHANGED <<op, begun, done>>

Begin ==
  /\ bound # None /\ op = None
  /\ begun' = begun + 1
  /\ op' = [id |-> begun', from |-> bound]
  /\ UNCHANGED <<bound, done>>

Complete(s) ==
  /\ op # None /\ s # op.from
  /\ bound' = s /\ op' = None
  /\ done' = done \cup {[id |-> op.id, from |-> op.from, to |-> s]}
  /\ UNCHANGED begun

(* The switch fails.  The new session may yet have been bound, when it was *)
(* the integration callback that refused it.                               *)
Fail(s) ==
  /\ op # None
  /\ bound' = s /\ op' = None
  /\ UNCHANGED <<begun, done>>

Next == Begin \/ \E s \in Sessions : Bind(s) \/ Complete(s) \/ Fail(s)

Spec == Init /\ [][Next]_rvars
=============================================================================
