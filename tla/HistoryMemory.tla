--------------------------- MODULE HistoryMemory ---------------------------
(***************************************************************************)
(* The bytes_delta every method of src/history.rs and src/apply.rs returns *)
(* and the worker adds to memory_usage.  usage is the share of one history *)
(* in that counter.                                                        *)
(***************************************************************************)
EXTENDS History, Sums

CONSTANTS EventSize,     \* Event::conservative_size
          SnapshotSize,  \* Snapshot::conservative_size of an empty snapshot
          ItemSize       \* what one applied event adds to it

ASSUME MemoryAssumption == EventSize \in Nat /\ SnapshotSize \in Nat /\ ItemSize \in Nat

VARIABLE usage

memoryVars == <<vars, usage>>

Size(s) == SnapshotSize + ItemSize * s.items
SizeOf(snapshots, keys) == SumOver([k \in keys |-> Size(snapshots[k])], keys)

MemoryInit == Init /\ usage = Size(base_snapshot)

\* What replay_and_checkpoint returns: the size of every checkpoint it takes.
ReplayDelta(start_snapshot, start_bound, stored) ==
    LET range == AfterBound(start_bound, stored)
        taken == [k \in Closed(range) |->
                     Replay(start_snapshot, {j \in range : KeyLeq(j, k)})]
    IN  SizeOf(taken, Closed(range))

\* A checkpoint the fast path overwrites is not given back.
FastDelta ==
    LET bound == BoundAtLast(DOMAIN checkpoints)
        range == AfterBound(bound, events')
    IN  IF Cardinality(range) % CheckpointInterval = 0
        THEN Size(Replay(ReplayStart(base_snapshot, checkpoints, bound), range))
        ELSE 0

Stale(key) == {c \in DOMAIN checkpoints : ~KeyLess(c, key)}

\* Mutant: the stale checkpoints stay charged.
SlowDeltaStaleCharged(key) ==
    LET bound == BoundAtLast(DOMAIN checkpoints \ Stale(key))
    IN  ReplayDelta(ReplayStart(base_snapshot, checkpoints, bound), bound, events')

SlowDelta(key) ==
    LET bound == BoundAtLast(DOMAIN checkpoints \ Stale(key))
    IN  ReplayDelta(ReplayStart(base_snapshot, checkpoints, bound), bound, events')
          - SizeOf(checkpoints, Stale(key))

ApplyEventWithMemory(k) ==
    /\ apply_event(k)
    /\ usage' = IF k \in events THEN usage
                ELSE usage + EventSize
                     + IF \A j \in events : KeyLess(j, k)
                       THEN FastDelta ELSE SlowDelta(k)

ApplySnapshotWithMemory(id, t, p) ==
    LET key  == Key(t, SnapshotId)
        auth == Fresh(p, {key}, t)
    IN  /\ apply_snapshot(id, t, p)
        /\ usage' = usage - SizeOf(checkpoints, Stale(key)) + Size(auth)
                          + ReplayDelta(auth, {key}, events)

\* The checkpoint that becomes the base snapshot is given back as well.
AdvanceWithMemory(d) ==
    /\ advance(d)
    /\ usage' = usage - EventSize * Cardinality(events \ events')
                      - SizeOf(checkpoints, DOMAIN checkpoints \ DOMAIN checkpoints')

MemoryNext ==
    /\ ~panicked
    /\ \/ \E d \in AdvanceSteps : AdvanceWithMemory(d)
       \/ \E k \in EventKeys : MaySendEvent(k) /\ ApplyEventWithMemory(k)
       \/ \E id \in SnapshotIds, t \in SnapshotTimes, p \in Payloads :
             MaySendSnapshot(t) /\ ApplySnapshotWithMemory(id, t, p)
       \/ /\ \/ \E id \in SnapshotIds : apply_snapshot_foreign(id)
             \/ \E t \in QueryTimes : snapshot_at(t)
             \/ \E t \in QueryTimes : snapshot_at_panics(t)
             \/ recv
          /\ UNCHANGED usage

MemorySpec == MemoryInit /\ [][MemoryNext]_memoryVars
-----------------------------------------------------------------------------
Stored == EventSize * Cardinality(events) + SizeOf(checkpoints, DOMAIN checkpoints)

\* src/history.rs:148: the methods return the memory delta.  Whatever was
\* added, invalidated, rebuilt and pruned, the counter is what
\* the two maps hold plus the snapshot the history was created with.
UsageMatchesMaps == usage = Stored + SnapshotSize
=============================================================================
