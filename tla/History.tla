------------------------------ MODULE History ------------------------------
(***************************************************************************)
(* src/history.rs: the history of one snapshot id, a LocalSnapshotHistory. *)
(* One action per method; every method runs to completion before the next  *)
(* one, since a history belongs to a single worker thread.                 *)
(***************************************************************************)
EXTENDS Apply, Sequences

CONSTANTS
  EventKeys,               \* keys of the events clients may send
  SnapshotTimes,           \* times of the authoritative snapshots they may send
  SnapshotIds,             \* ids those snapshots may carry
  QueryTimes,              \* times they may query
  AdvanceSteps,            \* amounts the current time may be advanced by
  LowerTimeHorizonDelta,   \* lower_time_horizon_delta
  ReconciliationCapacity,  \* capacity of the bounded channel, 1000 in the code
  MaxTime,                 \* bound of the model: current_time stops here
  LateEvents,              \* may clients send events from before the horizon?
  AheadSnapshots           \* may they send a snapshot newer than every event?

ASSUME HistoryAssumption ==
    /\ EventKeys \subseteq ContimeKeys
    /\ SnapshotTimes \subseteq Int
    /\ SnapshotIds \subseteq Nat
    /\ QueryTimes \subseteq Int
    /\ AdvanceSteps \subseteq Nat
    /\ LowerTimeHorizonDelta \in Int
    /\ ReconciliationCapacity \in Nat
    /\ MaxTime \in Int
    /\ LateEvents \in BOOLEAN
    /\ AheadSnapshots \in BOOLEAN

VARIABLES
  base_snapshot,       \* replay starts here when no checkpoint is old enough
  checkpoints,         \* BTreeMap<ContimeKey, S>
  events,              \* keys of BTreeMap<ContimeKey, S::Event>
  current_time,
  reconciliation_rx,   \* content of the channel every receiver is a clone of
  reply,               \* the last snapshot_at answer: {} or {[time, snapshot]}
  panicked             \* a method panicked; the worker that owned it is gone

vars == <<base_snapshot, checkpoints, events, current_time,
          reconciliation_rx, reply, panicked>>

Reconciliation == [from_time : Int, to_time : Int]

(***************************************************************************)
(* new(snapshot, 0, delta): the snapshot is the from_event state of the    *)
(* first event or an authoritative snapshot; either way its time becomes 0.*)
(***************************************************************************)
Fresh(p, bound, t) == [from |-> p, anchor |-> bound, time |-> t,
                       applied |-> {}, inOrder |-> TRUE, items |-> 0]

new(p) ==
    /\ base_snapshot = Fresh(p, {}, 0)
    /\ checkpoints = [k \in {} |-> Fresh(p, {}, 0)]
    /\ events = {}
    /\ current_time = 0
    /\ reconciliation_rx = <<>>
    /\ reply = {}
    /\ panicked = FALSE

Init == \E p \in Payloads : new(p)

\* Mutant: an unbounded channel.
SendAlways(from, to) ==
    reconciliation_rx' = Append(reconciliation_rx,
                                [from_time |-> from, to_time |-> to])

\* Mutant: the channel counts as full one notification too early.
TrySendEarlyFull(from, to) ==
    reconciliation_rx' =
        IF Len(reconciliation_rx) + 1 < ReconciliationCapacity
        THEN Append(reconciliation_rx, [from_time |-> from, to_time |-> to])
        ELSE reconciliation_rx

\* try_send: a notification for a full channel is dropped silently.
try_send(from, to) ==
    reconciliation_rx' =
        IF Len(reconciliation_rx) < ReconciliationCapacity
        THEN Append(reconciliation_rx, [from_time |-> from, to_time |-> to])
        ELSE reconciliation_rx

DropTime == current_time - LowerTimeHorizonDelta

\* Mutant: the newest dropped checkpoint is not promoted to base snapshot.
AdvanceWithoutPromotion(d) ==
    /\ current_time + d <= MaxTime
    /\ current_time' = current_time + d
    /\ LET drop_key == Key(DropTime', 0)
       IN  /\ events' = {k \in events : ~KeyLess(k, drop_key)}
           /\ checkpoints' =
                [c \in {k \in DOMAIN checkpoints : ~KeyLess(k, drop_key)} |->
                    checkpoints[c]]
    /\ UNCHANGED <<base_snapshot, reconciliation_rx, reply, panicked>>

\* Mutant: checkpoints outlive the events they were built from.
AdvanceKeepingCheckpoints(d) ==
    /\ current_time + d <= MaxTime
    /\ current_time' = current_time + d
    /\ events' = {k \in events : ~KeyLess(k, Key(DropTime', 0))}
    /\ UNCHANGED <<base_snapshot, checkpoints, reconciliation_rx, reply, panicked>>

(***************************************************************************)
(* advance(time): everything before drop_key goes; the newest checkpoint   *)
(* that goes becomes the base snapshot.                                    *)
(***************************************************************************)
advance(d) ==
    /\ current_time + d <= MaxTime
    /\ current_time' = current_time + d
    /\ LET drop_key == Key(DropTime', 0)
           dropped == {c \in DOMAIN checkpoints : KeyLess(c, drop_key)}
       IN  /\ events' = {k \in events : ~KeyLess(k, drop_key)}
           /\ checkpoints' =
                [c \in DOMAIN checkpoints \ dropped |-> checkpoints[c]]
           /\ base_snapshot' = ReplayStart(base_snapshot, checkpoints,
                                           BoundAtLast(dropped))
    /\ UNCHANGED <<reconciliation_rx, reply, panicked>>

\* Mutant: the ends of the announced range are swapped.
ApplyEventSwapped(k) ==
    /\ checkpoints' = apply_event_in_place(k, base_snapshot, checkpoints, events)
    /\ events' = events \cup {k}
    /\ IF events # {} /\ k.time < LastKey(events).time
       THEN try_send(LastKey(events).time, k.time)
       ELSE UNCHANGED reconciliation_rx
    /\ UNCHANGED <<base_snapshot, current_time, reply, panicked>>

\* Mutant: only an event older than every other one is announced.
ApplyEventOldestOnly(k) ==
    /\ checkpoints' = apply_event_in_place(k, base_snapshot, checkpoints, events)
    /\ events' = events \cup {k}
    /\ IF events # {} /\ \A e \in events : k.time < e.time
       THEN try_send(k.time, LastKey(events).time)
       ELSE UNCHANGED reconciliation_rx
    /\ UNCHANGED <<base_snapshot, current_time, reply, panicked>>

\* apply_event(event): notified when the event is older than the latest one,
\* a duplicate included.
apply_event(k) ==
    /\ checkpoints' = apply_event_in_place(k, base_snapshot, checkpoints, events)
    /\ events' = events \cup {k}
    /\ IF events # {} /\ k.time < LastKey(events).time
       THEN try_send(k.time, LastKey(events).time)
       ELSE UNCHANGED reconciliation_rx
    /\ UNCHANGED <<base_snapshot, current_time, reply, panicked>>

\* apply_snapshot(snapshot), with its early return for a foreign id.
apply_snapshot(id, t, p) ==
    LET key  == Key(t, SnapshotId)
        kept == DropFrom(checkpoints, key)
        auth == Fresh(p, {key}, t)
    IN  /\ id = SnapshotId
        /\ checkpoints' =
             replay_and_checkpoint(auth, {key},
                 [k \in DOMAIN kept \cup {key} |->
                     IF k = key THEN auth ELSE kept[k]],
                 events)
        /\ try_send(t, IF events = {} THEN t ELSE LastKey(events).time)
        /\ UNCHANGED <<base_snapshot, events, current_time, reply, panicked>>

apply_snapshot_foreign(id) ==
    /\ id # SnapshotId
    /\ UNCHANGED vars

\* Mutant: every event at the query time is replayed, whatever its id.
AnswerThrough(t) ==
    LET key   == Key(t, SnapshotId)
        bound == BoundAtLast({c \in DOMAIN checkpoints : KeyLeq(c, key)})
        range == {k \in AfterBound(bound, events) : k.time <= t}
    IN  [Replay(ReplayStart(base_snapshot, checkpoints, bound), range)
            EXCEPT !.time = t]

(***************************************************************************)
(* snapshot_at(time): the newest checkpoint at or before the query key,    *)
(* plus the events strictly between the two.                               *)
(***************************************************************************)
AnswerAt(t) ==
    LET key   == Key(t, SnapshotId)
        bound == BoundAtLast({c \in DOMAIN checkpoints : KeyLeq(c, key)})
        range == {k \in AfterBound(bound, events) : KeyLess(k, key)}
    IN  [Replay(ReplayStart(base_snapshot, checkpoints, bound), range)
            EXCEPT !.time = t]

(***************************************************************************)
(* BTreeMap::range panics when both ends are Excluded and equal: the       *)
(* checkpoint found is stored under the query key itself.  A map that owns *)
(* no node yet returns an empty range instead; a map emptied by advance    *)
(* may be in either condition.                                             *)
(***************************************************************************)
AtCheckpoint(t) == Key(t, SnapshotId) \in DOMAIN checkpoints

snapshot_at(t) ==
    /\ ~AtCheckpoint(t) \/ events = {}
    /\ reply' = {[time |-> t, snapshot |-> AnswerAt(t)]}
    /\ UNCHANGED <<base_snapshot, checkpoints, events, current_time,
                   reconciliation_rx, panicked>>

snapshot_at_panics(t) ==
    /\ AtCheckpoint(t)
    /\ events # {} \/ current_time # 0
    /\ panicked' = TRUE
    /\ UNCHANGED <<base_snapshot, checkpoints, events, current_time,
                   reconciliation_rx, reply>>

\* A holder of one of the receiver clones takes the oldest notification.
recv ==
    /\ reconciliation_rx # <<>>
    /\ reconciliation_rx' = Tail(reconciliation_rx)
    /\ UNCHANGED <<base_snapshot, checkpoints, events, current_time, reply,
                   panicked>>

(***************************************************************************)
(* What the clients send.  The code takes every input; two kinds of input  *)
(* that it mishandles are switched on only in the runs that show it.       *)
(***************************************************************************)
MaySendEvent(k) == LateEvents \/ k.time >= DropTime
MaySendSnapshot(t) ==
    AheadSnapshots \/ \E k \in events : KeyLeq(Key(t, SnapshotId), k)

Next ==
    /\ ~panicked
    /\ \/ \E d \in AdvanceSteps : advance(d)
       \/ \E k \in EventKeys : MaySendEvent(k) /\ apply_event(k)
       \/ \E id \in SnapshotIds, t \in SnapshotTimes, p \in Payloads :
             MaySendSnapshot(t) /\ apply_snapshot(id, t, p)
       \/ \E id \in SnapshotIds : apply_snapshot_foreign(id)
       \/ \E t \in QueryTimes : snapshot_at(t)
       \/ \E t \in QueryTimes : snapshot_at_panics(t)
       \/ recv

Spec == Init /\ [][Next]_vars
-----------------------------------------------------------------------------
(***************************************************************************)
(* Type invariant.                                                         *)
(***************************************************************************)
TypeOK ==
    /\ base_snapshot \in Snapshots
    /\ checkpoints \in [DOMAIN checkpoints -> Snapshots]
    /\ DOMAIN checkpoints \subseteq ContimeKeys
    /\ IsFiniteSet(DOMAIN checkpoints)
    /\ events \subseteq ContimeKeys
    /\ IsFiniteSet(events)
    /\ current_time \in Int
    /\ reconciliation_rx \in Seq(Reconciliation)
    /\ Len(reconciliation_rx) <= ReconciliationCapacity
    /\ reply \subseteq [time : Int, snapshot : Snapshots]
    /\ panicked \in BOOLEAN

(***************************************************************************)
(* s is the state at key k, given the stored events, checkpoints and       *)
(* horizon (Apply!Reflects).                                               *)
(***************************************************************************)
StateAt(s, k, scope) == Reflects(s, k, scope, events, checkpoints, DropTime)

UpTo(k) == {e \in events : KeyLeq(e, k)}
Earlier(t) == {e \in events : e.time < t}

\* Late events, authoritative snapshots and pruning never leave a stale
\* checkpoint behind: each one still is the state its events produce.
CheckpointsSound ==
    \A k \in DOMAIN checkpoints : StateAt(checkpoints[k], k, UpTo(k))

\* Every query inside the horizon, whatever checkpoint it starts from, is
\* answered with all retained events from before its time and none after its
\* key.  Events at exactly its time are left open: the documentation leaves
\* them out, in the code their ids decide (HistoryClaims!QueriesExcludeTheirTime).
AnswersSound ==
    \A t \in QueryTimes :
        t >= DropTime /\ ~AtCheckpoint(t)
           => StateAt(AnswerAt(t), Key(t, SnapshotId), Earlier(t))

\* No sequence of arrivals, duplicates among them, makes apply_to see an event
\* after a newer one or a second time.
AppliedInOrder ==
    /\ base_snapshot.inOrder
    /\ \A k \in DOMAIN checkpoints : checkpoints[k].inOrder
    /\ \A t \in QueryTimes : t >= DropTime => AnswerAt(t).inOrder

(***************************************************************************)
(* Why these hold under every operation: the inductive invariant.  Events  *)
(* older than the horizon are gone, the base snapshot is older than the    *)
(* horizon, and an event follows every checkpoint, so that the latest      *)
(* event can never leave a checkpoint behind it.                           *)
(***************************************************************************)
EventsRetained == \A e \in events : e.time >= DropTime

BaseBehind ==
    /\ base_snapshot.inOrder
    /\ \A k \in base_snapshot.anchor \cup base_snapshot.applied : k.time < DropTime
    /\ \A a \in base_snapshot.anchor, e \in base_snapshot.applied : KeyLess(a, e)

NoCheckpointAhead == \A c \in DOMAIN checkpoints : \E e \in events : KeyLeq(c, e)

Consistent ==
    /\ TypeOK
    /\ EventsRetained
    /\ BaseBehind
    /\ NoCheckpointAhead
    /\ \A k \in DOMAIN checkpoints : checkpoints[k].inOrder
    /\ CheckpointsSound

(***************************************************************************)
(* Where checkpoints lie is decided by the stored events and authoritative *)
(* snapshots alone, whatever order they came in: at every                  *)
(* CheckpointInterval-th event after an authoritative snapshot, or after   *)
(* the start.  For a history that has not been pruned.                     *)
(***************************************************************************)
Authoritative == {c \in DOMAIN checkpoints : c \in checkpoints[c].anchor}

OrderIndependent ==
    /\ DOMAIN checkpoints \subseteq events \cup Authoritative
    /\ \A k \in events \ Authoritative :
          LET start == BoundAtLast({a \in Authoritative : KeyLeq(a, k)})
          IN  k \in DOMAIN checkpoints
                <=> Rank(k, AfterBound(start, events)) % CheckpointInterval = 0

(***************************************************************************)
(* A step that changes what a query between two known event times answers  *)
(* leaves a notification covering that time in the channel, unless the     *)
(* channel was full.  Pruning announces nothing and is left out.           *)
(***************************************************************************)
Covers(r, t) == r.from_time <= t /\ t <= r.to_time

HistoryChangesAreAnnounced ==
    [][\A t \in QueryTimes :
          /\ \A d \in AdvanceSteps : ~advance(d)
          /\ \E k \in events : t < k.time
          /\ ~AtCheckpoint(t) /\ ~AtCheckpoint(t)'
          /\ AnswerAt(t)' # AnswerAt(t)
          => \/ Len(reconciliation_rx) = ReconciliationCapacity
             \/ /\ Len(reconciliation_rx') = Len(reconciliation_rx) + 1
                /\ Covers(reconciliation_rx'[Len(reconciliation_rx')], t)]_vars

\* An advance that drops no event after the newest checkpoint it drops changes
\* no answer inside the horizon it leaves.
PruningIsInvisible ==
    [][\A t \in QueryTimes :
          /\ \E d \in AdvanceSteps : advance(d)
          /\ t >= DropTime'
          /\ \A e \in events \ events' :
                \E c \in DOMAIN checkpoints : KeyLeq(e, c) /\ c.time < DropTime'
          => AnswerAt(t)' = AnswerAt(t)]_vars
=============================================================================
