------------------------------ MODULE WriteOnce ------------------------------
(***************************************************************************)
(* What the immutable document stores promise: a place that is filled once *)
(* and never refilled.  Whoever fills it or finds its own content there    *)
(* may learn that the content is durable; until somebody has learnt that,  *)
(* a power loss may empty the place again.                                 *)
(***************************************************************************)
CONSTANTS Contents, Empty

VARIABLES content, told

Init == content = Empty /\ told = FALSE

Fill == content = Empty /\ content' \in Contents /\ UNCHANGED told

Tell == content # Empty /\ told' = TRUE /\ UNCHANGED content

Lose == ~told /\ content' = Empty /\ UNCHANGED told

Next == Fill \/ Tell \/ Lose

Spec == Init /\ [][Next]_<<content, told>>
=============================================================================
