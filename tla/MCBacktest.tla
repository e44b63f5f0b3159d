----------------------------- MODULE MCBacktest -----------------------------
(* Two adjoining windows, one of each outcome.                              *)
EXTENDS Backtest

TwoWindows == <<[start |-> 0, end |-> 2, outcome |-> "UP"],
                [start |-> 2, end |-> 5, outcome |-> "DOWN"]>>
TwoQuotes == {[ask |-> 1, size |-> 1], [ask |-> 2, size |-> 2]}
\* The replay of a pulled run under the default policy, and the historical fallback
\* under the compatibility policy.
TwoConfigs == {[mode |-> "observed", family |-> 0, global |-> 1, counts |-> FALSE],
               [mode |-> "immediate", family |-> 4, global |-> 4, counts |-> TRUE]}
EqualLimits == [f \in Families |-> 2]
FullFractions == [f \in Families |-> 4]
=============================================================================
