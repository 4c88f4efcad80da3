--------------------------- MODULE MCConnections ---------------------------
(* Small instances of Connections for TLC. *)
EXTENDS Connections, TLC

CONSTANTS c1, p

Bounds(reload, close, fault, refuse, handover) ==
  [kind \in Kinds |-> CASE kind = "reload" -> reload [] kind = "close" -> close
     [] kind = "fault" -> fault [] kind = "refuse" -> refuse [] kind = "handover" -> handover]

MCOneTab == [a \in Callers |-> c1]

MCSetting(contexts, callers, names, budget) ==
  [contexts |-> contexts, callers |-> callers, sessions |-> names, budget |-> budget]

\* Two tabs, one of which is loaded again or whose user is refused; one that serves two callers; and
\* one that meets all that disrupts it.
MCAlone == MCSetting({c1}, {p}, 3, Bounds(0, 1, 1, 1, 1))
MCApart == MCSetting(Contexts, {p}, 3, Bounds(0, 0, 0, 1, 0))
MCSettings ==
  {MCSetting(Contexts, {p}, 3, Bounds(1, 0, 0, 0, 0)), MCApart, MCSetting({c1}, Callers, 3, Bounds(0, 0, 0, 0, 0)),
   MCSetting({c1}, {p}, 3, Bounds(1, 0, 1, 1, 0)), MCAlone}
\* What is checked of liveness: two tabs, or one that is disrupted.
MCLively == {MCApart, MCAlone}
\* Nothing is disrupted.
MCQuiet == {MCSetting({c1}, {p}, 3, Bounds(0, 0, 0, 0, 0))}
=============================================================================
