------------------------------ MODULE MCOutbox ------------------------------
(* Small instances of Outbox for TLC. *)
EXTENDS Outbox, TLC

MCCalm == [d \in Disruptions |-> 0]
MCSetting(strategy, retries, budget) ==
  [failureStrategy |-> strategy, maxRetries |-> retries, budget |-> budget]

\* The default strategy with retries, a crash and a timeout; pausing with a client's change
\* and a handover.
MCSettings ==
  {MCSetting("discard-all", 1, [MCCalm EXCEPT !["crash"] = 1, !["timeout"] = 1]),
   MCSetting("pause", 0, [MCCalm EXCEPT !["user"] = 1, !["handover"] = 1])}

MCSettling ==
  {MCSetting("discard-all", 0, [MCCalm EXCEPT !["outage"] = 1, !["user"] = 1, !["crash"] = 1])}

Symmetry == Permutations(Contexts) \cup Permutations(Ids)
=============================================================================
