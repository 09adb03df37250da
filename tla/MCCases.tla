------------------------------- MODULE MCCases -------------------------------
(* Instances of Cases for TLC. *)
EXTENDS Cases, TLC

CONSTANTS a1, a2

\* Both agents eligible; the first takes one case a day.
MCCapped == [a \in Agents |-> [active |-> TRUE, recent |-> TRUE, accepting |-> TRUE,
                               cap |-> IF a = a1 THEN 1 ELSE None]]

\* Both agents eligible without a cap.
MCOpen == [a \in Agents |-> [active |-> TRUE, recent |-> TRUE, accepting |-> TRUE, cap |-> None]]

MCSymmetry == Permutations(Agents) \cup Permutations(Requests)
=============================================================================
