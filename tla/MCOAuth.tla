------------------------------ MODULE MCOAuth ------------------------------
(* Instances of the OAuth client for TLC: a handover of its leadership, and a single leader. *)
EXTENDS OAuth, TLC

\* One call at a time in every tab.
MCIn == [c \in Callers |-> c]

MCFailover == [kind \in {"reload", "fault", "end", "revoke"} |-> IF kind = "reload" THEN 1 ELSE 0]
MCUndisturbed == [kind \in {"reload", "fault", "end", "revoke"} |-> 0]
Symmetry == Permutations(Tabs) \cup Permutations(Flows)
=============================================================================
