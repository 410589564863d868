------------------------------ MODULE Timeline ------------------------------
(***************************************************************************)
(* What a history promises while nothing is pruned: a set of events and a  *)
(* set of authoritative states, and a query that replays the events        *)
(* between the newest authoritative state and the query time, in key order.*)
(* There are no checkpoints.  The promise is the one the code keeps: an    *)
(* input older than an authoritative state overrides it.  Which events of  *)
(* the query time itself are replayed is left open: the documentation says *)
(* none, the code takes those with an id below the snapshot id (see        *)
(* HistoryClaims!QueriesExcludeTheirTime).  No others are.                 *)
(***************************************************************************)
EXTENDS ContimeKey, FiniteSets

CONSTANTS SnapshotId, Payloads, EventKeys, SnapshotTimes, QueryTimes

VARIABLES
  origin,    \* contents before any input
  anchors,   \* authoritative states by key
  events,    \* keys of the events received
  reply      \* the last answer: {} or {[time, snapshot]}

vars == <<origin, anchors, events, reply>>

AnchorsBefore(key) ==
    [a \in {k \in DOMAIN anchors : KeyLess(k, key)} |-> anchors[a]]

Instant(t) == {k \in events : k.time = t /\ KeyLess(k, Key(t, SnapshotId))}

StateAt(t, instant) ==
    LET key    == Key(t, SnapshotId)
        anchor == BoundAtLast({a \in DOMAIN anchors : KeyLeq(a, key)})
        replay == AfterBound(anchor, {k \in events : k.time < t} \cup instant)
    IN  [from    |-> IF anchor = {} THEN origin ELSE anchors[LastKey(anchor)],
         anchor  |-> anchor,
         time    |-> t,
         applied |-> replay,
         inOrder |-> TRUE,
         items   |-> Cardinality(replay)]

Init ==
    /\ origin \in Payloads
    /\ anchors = [k \in {} |-> origin]
    /\ events = {}
    /\ reply = {}

Receive(k) ==
    /\ k \notin events
    /\ events' = events \cup {k}
    /\ anchors' = AnchorsBefore(k)
    /\ UNCHANGED <<origin, reply>>

Correct(t, p) ==
    LET key == Key(t, SnapshotId) IN
    /\ anchors' = [a \in DOMAIN AnchorsBefore(key) \cup {key} |->
                      IF a = key THEN p ELSE anchors[a]]
    /\ UNCHANGED <<origin, events, reply>>

Query(t) ==
    /\ \E instant \in SUBSET Instant(t) :
          reply' = {[time |-> t, snapshot |-> StateAt(t, instant)]}
    /\ UNCHANGED <<origin, anchors, events>>

Next ==
    \/ \E k \in EventKeys : Receive(k)
    \/ \E t \in SnapshotTimes, p \in Payloads : Correct(t, p)
    \/ \E t \in QueryTimes : Query(t)

Spec == Init /\ [][Next]_vars
=============================================================================
