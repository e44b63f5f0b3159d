-------------------------- MODULE MCLiveSubmission --------------------------
(* LiveSubmission on two outcome tokens: a single order on "up" and a spread. *)
EXTENDS LiveSubmission

MCTokens == {"up", "down"}
Single   == [spread |-> FALSE, legs |-> << "up" >>]
Spread   == [spread |-> TRUE, legs |-> << "up", "down" >>]

SinglesAndSpreads == {Single, Spread}
Singles == {Single}

\* A rehearsal before the real sessions; or none.
RehearseFirst == [s \in 1..3 |-> s = 1]
NoRehearsal   == [s \in 1..1 |-> FALSE]
=============================================================================
