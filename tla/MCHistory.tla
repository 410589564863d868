----------------------------- MODULE MCHistory -----------------------------
(* Small instances of History for TLC.                                     *)
EXTENDS HistoryClaims

\* In the first set two events share a time, one id below and one above the
\* snapshot id 1, and the id of a third equals it; in the second none does.
MCEventKeys == {Key(1, 0), Key(1, 2), Key(2, 1), Key(3, 2)}
MCOtherIdEventKeys == {Key(1, 0), Key(2, 2)}
MCSnapshotTimes == {1, 2, 3}
MCNone == {}
MCQueryTimes == 0..4
=============================================================================
