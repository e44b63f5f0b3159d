--------------------------- MODULE MCResearchJobs ---------------------------
EXTENDS ResearchJobs

OneJob == {1}
MCWorkers == {"w1", "w2"}
MCPlans == [current_params |-> <<"verify", "command", "report">>,
            export |-> <<"plan", "snapshot", "manifest", "verify">>]
=============================================================================
