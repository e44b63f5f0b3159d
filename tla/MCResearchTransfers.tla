------------------------- MODULE MCResearchTransfers -------------------------
EXTENDS ResearchTransfers

MCMachines == {"bot", "desk"}
MCCustom == {"desk"}
OneTransfer == {1}
\* What an operator posts: an end without a copy, a failure, and a row that
\* nobody works on.
MCReports == {[status |-> "completed", done |-> 1, sum |-> "verified"],
              [status |-> "failed", done |-> 1, sum |-> "none"],
              [status |-> "running", done |-> 2, sum |-> "pending"]}
=============================================================================
