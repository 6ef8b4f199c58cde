------------------------------- MODULE Replica -------------------------------
(***************************************************************************)
(* A primary to which items are added, and a copy that follows it: the     *)
(* copy has nothing else, loses nothing, and gets everything in the end.   *)
(***************************************************************************)
VARIABLES primary, copy

replicaVars == <<primary, copy>>

Write(item) ==
    /\ item \notin primary
    /\ primary' = primary \cup {item}
    /\ UNCHANGED copy

Replicate(item) ==
    /\ item \in primary \ copy
    /\ copy' = copy \cup {item}
    /\ UNCHANGED primary

\* Whatever the items are: those of the primary after the step
Writes == \E item \in primary' : Write(item)

Replicates == \E item \in primary : Replicate(item)

Init == primary = {} /\ copy = {}

Next == Writes \/ Replicates

Spec == Init /\ [][Next]_replicaVars /\ WF_replicaVars(Replicates)
=============================================================================
