----------------------------- MODULE MCFollower -----------------------------
(* A node that follows, with one device or two.                            *)
EXTENDS Follower, TLC

CONSTANTS station, plug

\* One device, or two and one move less.
OneOrBoth == {{station}, {station, plug}}
FewerOfBoth == {station} :> 3 @@ {station, plug} :> 2

\* One entry of the timeline is kept owed, and two of the other kinds.
OneOrTwo == [kind \in Kinds |-> IF kind = "audit" THEN 1 ELSE 2]

=============================================================================
