------------------------- MODULE MCRuntimeDecision -------------------------
(* Instances of RuntimeDecision for TLC. *)
EXTENDS RuntimeDecision

\* Three quarters for latency arbitrage, everything for the others.
MCFraction == [f \in Families |-> IF f = "latency_arb" THEN 3 ELSE 4]

\* Live trading under the default ("risky") policy, and paper under the
\* "compatibility" policy with a balance that ties.
MCConfigs ==
    { [live |-> TRUE,  balance |-> 5, family |-> 0, global |-> 1],
      [live |-> FALSE, balance |-> 3, family |-> 4, global |-> 4],
      [live |-> FALSE, balance |-> 2, family |-> 4, global |-> 4] }
=============================================================================
