--------------------------- MODULE HistoryClaims ---------------------------
(***************************************************************************)
(* What the documentation, the comments and the tests of the repository    *)
(* say of a history, where the code does something else.  Each claim is    *)
(* the property of one run that ends in a counterexample.                  *)
(***************************************************************************)
EXTENDS History

\* src/history.rs:207: the state at a time is reconstructed.  A query at the
\* very key of a checkpoint kills the worker instead.
QueriesNeverPanic == ~panicked

\* src/history.rs:209, src/api.rs:91, src/lib.rs:16, README.md:122: events at
\* exactly the query time are not included.  The bound of the replay is a key
\* with the snapshot id, so that an event with a smaller id is.
QueriesExcludeTheirTime ==
    \A r \in reply : \A e \in r.snapshot.applied : e.time < r.time

\* src/apply.rs:52: appending the latest event leaves no stale checkpoint.
\* Every checkpoint only holds what happened up to its own key.
CheckpointsHoldThePast ==
    \A k \in DOMAIN checkpoints :
        \A e \in checkpoints[k].anchor \cup checkpoints[k].applied :
            KeyLeq(e, k)

\* README.md:25: the state does not depend on the order the inputs come in.
\* An event older than an authoritative snapshot leaves the answers after
\* the snapshot alone, whether it comes before or after the snapshot.
SnapshotsOutliveOlderEvents ==
    [][\A t \in QueryTimes :
          /\ events' # events /\ current_time' = current_time
          /\ ~AtCheckpoint(t) /\ ~AtCheckpoint(t)'
          /\ \E a \in AnswerAt(t).anchor :
                \A k \in events' \ events : KeyLess(k, a)
          => AnswerAt(t)' = AnswerAt(t)]_vars
=============================================================================
