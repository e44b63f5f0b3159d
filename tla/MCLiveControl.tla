---------------------------- MODULE MCLiveControl ----------------------------
(* Instances of LiveControl for TLC. *)
EXTENDS LiveControl

\* preflight is the refresh that arm begins with, cancel_all leaves the monitor as
\* redeem_all does.
CommandActions == {"arm", "disarm", "stop_after_flat", "kill_switch", "redeem_all"}
=============================================================================
