----------------------------- MODULE ReplayLoops -----------------------------
(***************************************************************************)
(* The loops of src/apply.rs and src/history.rs, one event at a time.      *)
(* Apply states what they compute over a set of keys, and HistoryMemory    *)
(* what they charge; here the snapshot, the count, the checkpoints and the *)
(* byte delta change together in every iteration.                          *)
(***************************************************************************)
EXTENDS HistoryMemory

\* for (key, event) in range { step }: a BTreeMap yields the keys in their
\* order, so that the step of the last key is applied last.
InKeyOrder(step(_, _), start, range) ==
    MapThenFoldSet(LAMBDA k, loop : step(loop, k), start, LAMBDA k : k, LastKey, range)

apply_to(s, k) == [s EXCEPT !.applied = @ \cup {k},
                            !.items = @ + 1,
                            !.inOrder = @ /\ \A j \in s.applied : KeyLess(j, k)]

set_time(s, t) == [s EXCEPT !.time = t]

ReplayStep(s, k) == set_time(apply_to(s, k), k.time)

Put(checkpoints_, k, s) ==
    [c \in DOMAIN checkpoints_ \cup {k} |-> IF c = k THEN s ELSE checkpoints_[c]]

\* Mutant: the checkpoint is taken before the event is counted.
CountedLate(loop, k) ==
    LET s == ReplayStep(loop.snapshot, k)
    IN  IF loop.count > 0 /\ loop.count % CheckpointInterval = 0
        THEN [snapshot |-> s, count |-> loop.count + 1,
              checkpoints |-> Put(loop.checkpoints, k, s),
              bytes_delta |-> loop.bytes_delta + Size(s)]
        ELSE [loop EXCEPT !.snapshot = s, !.count = @ + 1]

\* The body of replay_and_checkpoint.
CheckpointStep(loop, k) ==
    LET s     == ReplayStep(loop.snapshot, k)
        count == loop.count + 1
    IN  IF count % CheckpointInterval = 0
        THEN [snapshot |-> s, count |-> count,
              checkpoints |-> Put(loop.checkpoints, k, s),
              bytes_delta |-> loop.bytes_delta + Size(s)]
        ELSE [loop EXCEPT !.snapshot = s, !.count = count]

CheckpointLoop(start, range) == InKeyOrder(CheckpointStep, start, range)

ReplayLoop(start, bound, kept, evs, bytes_delta) ==
    CheckpointLoop([snapshot |-> start, count |-> 0, checkpoints |-> kept,
                    bytes_delta |-> bytes_delta],
                   AfterBound(bound, evs))

\* for key in &stale_keys: remove it and give its bytes back.
RemoveStep(m, k) ==
    [checkpoints |-> [c \in DOMAIN m.checkpoints \ {k} |-> m.checkpoints[c]],
     bytes_delta |-> m.bytes_delta - Size(m.checkpoints[k])]

StaleLoop(start, range) == InKeyOrder(RemoveStep, start, range)

RemoveStale(key) ==
    StaleLoop([checkpoints |-> checkpoints, bytes_delta |-> 0], Stale(key))

FastLoop(start, range) == InKeyOrder(ReplayStep, start, range)

\* apply_event_in_place for a key that is not stored yet.
ApplyEventLoops(k) ==
    LET evs == events \cup {k} IN
    IF \A j \in events : KeyLess(j, k)
    THEN LET bound == BoundAtLast(DOMAIN checkpoints)
             range == AfterBound(bound, evs)
             snap  == FastLoop(ReplayStart(base_snapshot, checkpoints, bound), range)
         IN  IF Cardinality(range) % CheckpointInterval = 0
             THEN [checkpoints |-> Put(checkpoints, k, snap),
                   bytes_delta |-> EventSize + Size(snap)]
             ELSE [checkpoints |-> checkpoints, bytes_delta |-> EventSize]
    ELSE LET kept  == RemoveStale(k)
             bound == BoundAtLast(DOMAIN kept.checkpoints)
         IN  ReplayLoop(ReplayStart(base_snapshot, kept.checkpoints, bound), bound,
                        kept.checkpoints, evs, EventSize + kept.bytes_delta)

ApplySnapshotLoops(t, p) ==
    LET key  == Key(t, SnapshotId)
        auth == Fresh(p, {key}, t)
        kept == RemoveStale(key)
    IN  ReplayLoop(auth, {key}, Put(kept.checkpoints, key, auth), events,
                   kept.bytes_delta + Size(auth))

QueryLoop(start, range) == InKeyOrder(apply_to, start, range)

\* snapshot_at: the time is set once, after the loop.
SnapshotAtLoop(t) ==
    LET key   == Key(t, SnapshotId)
        bound == BoundAtLast({c \in DOMAIN checkpoints : KeyLeq(c, key)})
        range == {k \in AfterBound(bound, events) : KeyLess(k, key)}
    IN  set_time(QueryLoop(ReplayStart(base_snapshot, checkpoints, bound), range), t)
-----------------------------------------------------------------------------
Outcome(loops) ==
    /\ checkpoints' = loops.checkpoints
    /\ usage' = usage + loops.bytes_delta

\* Every step that stores an event or an authoritative snapshot leaves the
\* checkpoints and adds the bytes that the code's loops produce one event at a
\* time, and every query answers with the snapshot its loop builds.
LoopsAgree ==
    [][/\ \A k \in events' \ events : Outcome(ApplyEventLoops(k))
       /\ \A id \in SnapshotIds, t \in SnapshotTimes, p \in Payloads :
             ApplySnapshotWithMemory(id, t, p) => Outcome(ApplySnapshotLoops(t, p))
       /\ \A t \in QueryTimes :
             reply' # reply /\ reply' = {[time |-> t, snapshot |-> AnswerAt(t)]}
                => AnswerAt(t) = SnapshotAtLoop(t)]_memoryVars
=============================================================================
