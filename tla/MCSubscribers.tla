---------------------------- MODULE MCSubscribers ----------------------------
(* Small instances of Subscribers for TLC.                                 *)
EXTENDS Subscribers

\* The ids lie below, at and above the snapshot id 1.
MCEventKeys == {Key(1, 0), Key(2, 1), Key(3, 2)}
MCSnapshotTimes == {1, 2}
MCQueryTimes == {2, 3}
MCNone == {}
=============================================================================
