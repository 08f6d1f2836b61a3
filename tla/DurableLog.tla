------------------------------ MODULE DurableLog ------------------------------
(***************************************************************************)
(* What the run's state document promises to whoever dispatches into it:   *)
(* a log of dispatches that grows by one entry at a time.  The writer of   *)
(* the last entry may learn that the log is durable up to it; a power loss *)
(* may take back entries nobody was told are durable and no other.         *)
(***************************************************************************)
EXTENDS Naturals, Sequences

CONSTANT Entries

VARIABLES log, confirmed

Init == log = << >> /\ confirmed = << >>

Write == \E e \in Entries : log' = Append(log, e) /\ UNCHANGED confirmed

Confirm == confirmed' = log /\ UNCHANGED log

Lose ==
    /\ \E n \in Len(confirmed)..Len(log) : log' = SubSeq(log, 1, n)
    /\ UNCHANGED confirmed

Next == Write \/ Confirm \/ Lose

Spec == Init /\ [][Next]_<<log, confirmed>>
=============================================================================
