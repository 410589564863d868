-------------------------- MODULE HistoryTimeline --------------------------
(***************************************************************************)
(* A history that is never advanced implements Timeline: checkpoints,      *)
(* their invalidation and the replay that rebuilds them cannot be seen in  *)
(* an answer.  A query that panics is a step Timeline does not take.       *)
(***************************************************************************)
EXTENDS History

Promise == INSTANCE Timeline WITH
    origin  <- base_snapshot.from,
    anchors <- [c \in Authoritative |-> checkpoints[c].from],
    events  <- events,
    reply   <- reply

\* Whatever the order of events, duplicates, corrections and queries, every
\* answer of snapshot_at is one Timeline gives.  Events at exactly the query
\* time do not count (HistoryClaims!QueriesExcludeTheirTime is about those).
ImplementsTimeline == Promise!Spec

(***************************************************************************)
(* Why it does: the inductive invariant.  s is what the newest             *)
(* authoritative state up to key k and the events in scope after it make,  *)
(* each event applied once and in key order.                               *)
(***************************************************************************)
AuthoritativeIn(cps) == {c \in DOMAIN cps : c \in cps[c].anchor}

AnchorIn(cps, k) == BoundAtLast({a \in AuthoritativeIn(cps) : KeyLeq(a, k)})

Grown(s, k, scope, origin, cps) ==
    LET anchor == AnchorIn(cps, k)
    IN  /\ s.anchor = anchor
        /\ s.from = IF anchor = {} THEN origin ELSE cps[LastKey(anchor)].from
        /\ s.applied = AfterBound(anchor, scope)
        /\ s.inOrder
        /\ s.items = Cardinality(s.applied)

Unapplied(s) == s.applied = {} /\ s.inOrder /\ s.items = 0

\* No sequence of arrivals leaves a checkpoint that holds anything but its
\* newest authoritative state and every event between that and itself.
Unpruned ==
    /\ TypeOK
    /\ base_snapshot.anchor = {} /\ Unapplied(base_snapshot)
    /\ NoCheckpointAhead
    /\ \A c \in DOMAIN checkpoints :
          Grown(checkpoints[c], c, UpTo(c), base_snapshot.from, checkpoints)
=============================================================================
