----------------------------- MODULE PartTurns -----------------------------
(***************************************************************************)
(* What automations promise each other of the parts they change: they take *)
(* turns.  A chain of runs takes every part it may change at once, and     *)
(* only when no other chain holds one of them; parts are let go when it is *)
(* done with them, and all of them when the server stops.                  *)
(***************************************************************************)
CONSTANTS
  Parts,
  Chains   \* those promised to let go again

VARIABLE held   \* the chains that hold each part

Init == held = [p \in Parts |-> {}]

\* A chain takes these parts: free ones, or its own already.
Take(c, ps) ==
  /\ \A p \in ps : held[p] \subseteq {c}
  /\ held' = [p \in Parts |-> IF p \in ps THEN {c} ELSE held[p]]

\* A chain lets these go.
LetGo(c, ps) ==
  held' = [p \in Parts |-> IF p \in ps THEN held[p] \ {c} ELSE held[p]]

\* The server stops: nobody holds anything.
Lose == held' = [p \in Parts |-> {}]

Holders == UNION {held[p] : p \in Parts}

Next ==
  \/ \E c \in Holders', ps \in SUBSET Parts : Take(c, ps)
  \/ \E c \in Holders, ps \in SUBSET Parts : LetGo(c, ps)
  \/ Lose

Spec == Init /\ [][Next]_held

\* Nobody keeps a part for ever: every chain that holds one lets it go.
FairSpec ==
  Spec /\ \A c \in Chains, p \in Parts : (c \in held[p]) ~> (c \notin held[p])
=============================================================================
