------------------------------- MODULE MCLeader -------------------------------
(***************************************************************************)
(* Instances for TLC of what the leader of several tabs does for them: the *)
(* outbox and the OAuth client.  `focus' selects what a behaviour is       *)
(* about; the other component keeps its initial state.                     *)
(***************************************************************************)
EXTENDS MCOutbox, OAuth

CONSTANTS Second, Other   \* a tab, and the caller that it has

VARIABLE focus

\* The other callers share a tab.
MCIn == [c \in Callers |-> IF c = Other THEN Second ELSE CHOOSE t \in Tabs : t # Second]

MCOnce == [kind \in {"reload", "fault", "end", "revoke"} |-> 1]

\* Two calls at a time, in one tab or in two, and any two disruptions; once the user signs in or
\* out two of these together.
MCBound ==
  LET calls == Cardinality({c \in Callers : task'[c].pc # "idle"})
      kinds == Cardinality({kind \in DOMAIN Budget : spending'[kind] > 0})
  IN  /\ calls <= 2 /\ kinds <= 2
      /\ ~Unattended' => calls + kinds <= 2

LeaderSymmetry == Symmetry \cup Permutations(Callers \ {Other})

----------------------------------------------------------------------------
MCInit ==
  /\ focus \in {"outbox", "oauth"} /\ Init /\ OAuthInit
  /\ IF focus = "outbox" THEN stored = 0 ELSE setting = CHOOSE s \in Settings : TRUE

MCNext ==
  /\ UNCHANGED focus
  /\ CASE focus = "outbox" -> Next /\ UNCHANGED oauthVars
       [] focus = "oauth" -> OAuthNext /\ UNCHANGED vars /\ MCBound

MCSpec == MCInit /\ [][MCNext]_<<vars, oauthVars, focus>>

\* The state of the part that moves has its type.
StateTyped == IF focus = "outbox" THEN TypeOK ELSE OAuthTypeOK
=============================================================================
