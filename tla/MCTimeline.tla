----------------------------- MODULE MCTimeline -----------------------------
(* A small instance of HistoryTimeline for TLC.                            *)
EXTENDS HistoryTimeline

MCEventKeys == {Key(1, 0), Key(1, 2), Key(2, 0), Key(2, 1), Key(3, 2)}
MCSnapshotTimes == {1, 2, 3}
MCQueryTimes == 1..4
MCNone == {}
=============================================================================
