------------------------------- MODULE Apply -------------------------------
(***************************************************************************)
(* src/apply.rs: what one event does to the checkpoints and the events of  *)
(* a history.                                                              *)
(*                                                                         *)
(* A snapshot is abstracted to what tells its contents apart:              *)
(*   from     the initial or authoritative state it grew from              *)
(*   anchor   {} for the state a history was created with, {k} for the     *)
(*            authoritative snapshot stored under key k                    *)
(*   applied  the keys of the events apply_to has been called with         *)
(*   inOrder  whether those calls were made in strictly increasing key     *)
(*            order                                                        *)
(*   items    how many calls there were (one item each)                    *)
(*   time     Snapshot::time()                                             *)
(* An event is its key: the key determines the payload, and duplicates are *)
(* recognised by key alone.                                                *)
(***************************************************************************)
EXTENDS ContimeKey, FiniteSets

CONSTANTS SnapshotId,          \* id of the snapshot the history belongs to
          CheckpointInterval,  \* LocalSnapshotHistory::checkpoint_interval
          Payloads             \* contents a client or from_event supplies

ASSUME ApplyAssumption ==
    /\ SnapshotId \in Nat
    /\ CheckpointInterval \in Nat \ {0}

Snapshots == [from : Payloads, anchor : SUBSET ContimeKeys, time : Int,
              applied : SUBSET ContimeKeys, inOrder : BOOLEAN, items : Nat]

(***************************************************************************)
(* for event in R { event.apply_to(&mut s); s.set_time(event.time()) },    *)
(* where a BTreeMap range yields R in key order.                           *)
(***************************************************************************)
Replay(s, R) ==
    IF R = {} THEN s
    ELSE [s EXCEPT !.applied = @ \cup R,
                   !.items = @ + Cardinality(R),
                   !.inOrder = @ /\ \A j \in s.applied, k \in R : KeyLess(j, k),
                   !.time = LastKey(R).time]

\* The 1-based position of k in the iteration over R.
Rank(k, R) == Cardinality({j \in R : KeyLeq(j, k)})

ReplayStart(base_snapshot, checkpoints, bound) ==
    IF bound = {} THEN base_snapshot ELSE checkpoints[LastKey(bound)]

\* Mutant: the checkpoint is taken one event too early.
ClosedOffByOne(range) ==
    {k \in range : (Rank(k, range) + 1) % CheckpointInterval = 0}

\* The keys at which that iteration takes a checkpoint.
Closed(range) == {k \in range : Rank(k, range) % CheckpointInterval = 0}

replay_and_checkpoint(start_snapshot, start_bound, checkpoints, events) ==
    LET range  == AfterBound(start_bound, events)
        closed == Closed(range)
    IN  [k \in DOMAIN checkpoints \cup closed |->
            IF k \in closed
            THEN Replay(start_snapshot, {j \in range : KeyLeq(j, k)})
            ELSE checkpoints[k]]

\* checkpoints without its entries at or after key
DropFrom(checkpoints, key) ==
    [k \in {c \in DOMAIN checkpoints : KeyLess(c, key)} |-> checkpoints[k]]

\* The new event is the latest one: at most one checkpoint, at its own key.
FastPath(event_key, base_snapshot, checkpoints, events) ==
    LET bound == BoundAtLast(DOMAIN checkpoints)
        range == AfterBound(bound, events)
        snap  == Replay(ReplayStart(base_snapshot, checkpoints, bound), range)
    IN  IF Cardinality(range) % CheckpointInterval = 0
        THEN [k \in DOMAIN checkpoints \cup {event_key} |->
                 IF k = event_key THEN snap ELSE checkpoints[k]]
        ELSE checkpoints

\* Mutant: stale checkpoints are kept.
SlowPathStale(event_key, base_snapshot, checkpoints, events) ==
    LET bound == BoundAtLast({c \in DOMAIN checkpoints : KeyLess(c, event_key)})
    IN  replay_and_checkpoint(ReplayStart(base_snapshot, checkpoints, bound),
                              bound, checkpoints, events)

\* The new event is out of order: stale checkpoints go, replay rebuilds them.
SlowPath(event_key, base_snapshot, checkpoints, events) ==
    LET kept  == DropFrom(checkpoints, event_key)
        bound == BoundAtLast(DOMAIN kept)
    IN  replay_and_checkpoint(ReplayStart(base_snapshot, kept, bound),
                              bound, kept, events)

apply_event_in_place(event_key, base_snapshot, checkpoints, events) ==
    LET inserted == events \cup {event_key}
        is_latest == \A k \in events : ~KeyLess(event_key, k)
    IN  IF event_key \in events THEN checkpoints
        ELSE IF is_latest
             THEN FastPath(event_key, base_snapshot, checkpoints, inserted)
             ELSE SlowPath(event_key, base_snapshot, checkpoints, inserted)
-----------------------------------------------------------------------------
(***************************************************************************)
(* s is the state at key k as far as the events in scope determine it:     *)
(* nothing newer than k went into it, nothing older than its authoritative *)
(* snapshot was applied on top of that snapshot, every event in scope after*)
(* that snapshot was applied, whatever else was applied has been pruned,   *)
(* and no stored authoritative snapshot up to k was passed over.           *)
(***************************************************************************)
Reflects(s, k, scope, events, checkpoints, drop_time) ==
    /\ \A a \in s.anchor : KeyLeq(a, k)
    /\ \A e \in s.applied :
          /\ KeyLeq(e, k)
          /\ e \in events \/ e.time < drop_time
          /\ \A a \in s.anchor : KeyLess(a, e)
    /\ \A e \in scope : (\A a \in s.anchor : KeyLess(a, e)) => e \in s.applied
    /\ \A c \in DOMAIN checkpoints :
          KeyLeq(c, k) /\ c \in checkpoints[c].anchor
             => \E a \in s.anchor : KeyLeq(c, a)
=============================================================================
