----------------------------- MODULE PrivateFile -----------------------------
(***************************************************************************)
(* What the other modules take a file of the state directory for: a        *)
(* replaced file goes from one value to the next at once; a created one is *)
(* torn until its creator has written it, for good if the creator dies,    *)
(* and only a complete file is removed.                                    *)
(***************************************************************************)
CONSTANTS Files, Replaced, Values, None, Torn

VARIABLE file

Init == file = [f \in Files |-> None]

Becomes(f, v) == file' = [file EXCEPT ![f] = v]

Replace(f, v) == f \in Replaced /\ Becomes(f, v)
Create(f)     == f \notin Replaced /\ file[f] = None /\ Becomes(f, Torn)
Fill(f, v)    == file[f] = Torn /\ Becomes(f, v)
Remove(f)     == f \notin Replaced /\ file[f] \in Values /\ Becomes(f, None)

Next == \E f \in Files :
  \/ Create(f) \/ Remove(f)
  \/ \E v \in Values : Replace(f, v) \/ Fill(f, v)

Spec == Init /\ [][Next]_file
=============================================================================
