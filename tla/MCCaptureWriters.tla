--------------------------- MODULE MCCaptureWriters ---------------------------
(* Instances of CaptureWriters for TLC. *)
EXTENDS CaptureWriters

\* Bound: feed rows, and the monitor that depends on them, are looked at in a live
\* process that has no market yet, so that the evidence writer carries its reports only;
CaptureLife ==
    /\ trades = Seeded([t \in Trades |-> "none"], TRUE)
    /\ ~told /\ ~db.market
    /\ \A i \in DOMAIN Backlog : Backlog[i].kind \in {"report", "shutdown"}

\* and the trades in a process, live or not, that accepts no feed row and is not armed.
LedgerLife == feed.enqueued = 0 /\ monitor = "disarmed" /\ refresh = NoRefresh

Bounded == CaptureLife \/ LedgerLife

\* The actions under Fairness touch neither trades nor rows; a refresh that has begun is
\* that of a CaptureLife, and stays one.
MCSpec == Init /\ [][Next /\ Bounded']_vars /\ Fairness
=============================================================================
