------------------------------ MODULE MCMemory ------------------------------
(* Small instances of HistoryMemory for TLC.                               *)
EXTENDS ReplayLoops

\* Two events share a time, one id below and one above the snapshot id 1, and
\* the id of a third equals it.
MCEventKeys == {Key(1, 0), Key(1, 2), Key(2, 1), Key(3, 2)}
MCSnapshotTimes == {1, 2, 3}
MCQueryTimes == 0..4
MCAdvanceSteps == {1, 2}
=============================================================================
