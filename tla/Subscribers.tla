----------------------------- MODULE Subscribers -----------------------------
(***************************************************************************)
(* One entry of history_by_id (src/worker.rs) and the clients that query   *)
(* it: the history is created by the first event or snapshot, every query  *)
(* returns a clone of the one reconciliation receiver, and a client that   *)
(* takes a notification from it queries again.  Which clone takes a        *)
(* notification is left open.  Nothing is pruned.                          *)
(***************************************************************************)
EXTENDS History

CONSTANT Clients  \* threads that hold the receiver of their last query

VARIABLES
  exists,  \* is there an entry for the id?
  holds,   \* the last answer of each client: {} or {[time, snapshot, settled]}
  told     \* who has taken a notification since that answer went stale

clientVars == <<holds, told>>
subscriberVars == <<vars, exists, holds, told>>

\* Until there is an entry, the variables of History are what new will make of
\* the first input.
SubscriberInit ==
    /\ Init
    /\ exists = FALSE
    /\ holds = [c \in Clients |-> {}]
    /\ told = [c \in Clients |-> {}]

\* The answer a client has is no longer the one it would get.
StaleFor(c) == \E a \in holds[c] : ~AtCheckpoint(a.time) /\ a.snapshot # AnswerAt(a.time)

Changed(a) == AnswerAt(a.time)' # AnswerAt(a.time)

\* A change of a held answer: nobody has been told of it yet.
Retold ==
    told' = [c \in Clients |-> IF \E a \in holds[c] : Changed(a) THEN {} ELSE told[c]]
-----------------------------------------------------------------------------
\* WorkerInbound::Event, with Entry::Occupied or Entry::Vacant.
ReceiveEvent(k) ==
    /\ apply_event(k)
    /\ exists' = TRUE
    /\ Retold
    /\ UNCHANGED holds

\* WorkerInbound::Snapshot, Entry::Occupied.
ReceiveSnapshot(t, p) ==
    /\ exists
    /\ apply_snapshot(SnapshotId, t, p)
    /\ Retold
    /\ UNCHANGED <<exists, holds>>

\* Entry::Vacant: the snapshot becomes the base snapshot, its time 0, and is
\* not stored under its key.
ReceiveFirstSnapshot(p) ==
    /\ ~exists
    /\ p = base_snapshot.from
    /\ exists' = TRUE
    /\ UNCHANGED <<vars, clientVars>>

\* WorkerInbound::SnapshotAt.  The answer is settled when an event is known
\* that is later than the time asked for.
at(c, t) ==
    /\ exists
    /\ snapshot_at(t)
    /\ holds' = [holds EXCEPT ![c] =
          {[time |-> t, snapshot |-> AnswerAt(t), settled |-> \E k \in events : t < k.time]}]
    /\ told' = [told EXCEPT ![c] = {}]
    /\ UNCHANGED exists

at_not_found(c) ==
    /\ ~exists
    /\ holds' = [holds EXCEPT ![c] = {}]
    /\ UNCHANGED <<vars, exists, told>>

at_panics(c, t) ==
    /\ exists
    /\ snapshot_at_panics(t)
    /\ UNCHANGED <<exists, clientVars>>

\* A client takes the oldest notification from its clone of the receiver.
listen(c) ==
    /\ holds[c] # {}
    /\ recv
    /\ told' = [o \in Clients |-> IF StaleFor(o) THEN told[o] \cup {c} ELSE told[o]]
    /\ UNCHANGED <<exists, holds>>

\* Having been told, it asks again.
query_again(c) ==
    /\ c \in told[c]
    /\ \E a \in holds[c] : at(c, a.time) \/ at_panics(c, a.time)
-----------------------------------------------------------------------------
SubscriberNext ==
    /\ ~panicked
    /\ \/ \E k \in EventKeys : ReceiveEvent(k)
       \/ \E t \in SnapshotTimes, p \in Payloads :
             MaySendSnapshot(t) /\ ReceiveSnapshot(t, p)
       \/ \E p \in Payloads : ReceiveFirstSnapshot(p)
       \/ \E c \in Clients, t \in QueryTimes : at(c, t) \/ at_panics(c, t)
       \/ \E c \in Clients : at_not_found(c) \/ listen(c) \/ query_again(c)

\* A client that holds a receiver keeps listening, and asks again once told.
\* Nobody has to send anything.
Fairness ==
    \A c \in Clients :
        /\ WF_subscriberVars(~panicked /\ listen(c))
        /\ WF_subscriberVars(~panicked /\ query_again(c))

SubscriberSpec == SubscriberInit /\ [][SubscriberNext]_subscriberVars /\ Fairness
-----------------------------------------------------------------------------
Settled(c) == \E a \in holds[c] : a.settled

\* When late data has changed an answer and nobody has been told since, there
\* is a notification waiting, even if the one for this change was dropped
\* because the channel was full.
SomebodyWillHear ==
    \A c \in Clients :
        Settled(c) /\ StaleFor(c) /\ told[c] = {} => reconciliation_rx # <<>>

(***************************************************************************)
(* Why: the inductive invariant.  A client holds at most one answer, and a *)
(* settled one still lies before a known event, so that whatever changes   *)
(* it is announced.                                                        *)
(***************************************************************************)
AnswersAccounted ==
    /\ TypeOK
    /\ holds \in [Clients -> SUBSET [time : QueryTimes, snapshot : Snapshots, settled : BOOLEAN]]
    /\ told \in [Clients -> SUBSET Clients]
    /\ \A c \in Clients : \A a \in holds[c] :
          /\ \A b \in holds[c] : b = a
          /\ a.settled => \E k \in events : a.time < k.time
    /\ SomebodyWillHear

\* A client whose answer late data has changed ends up with the right one,
\* unless another client takes a notification in its place or the worker dies.
CatchesUp ==
    \A c \in Clients :
        Settled(c) /\ StaleFor(c)
          ~> ~StaleFor(c) \/ told[c] \ {c} # {} \/ panicked

\* src/handle.rs:67: the receiver yields future reconciliation notifications.
\* Whoever holds a changed answer has been told or will find a notification.
EverybodyHears ==
    \A c \in Clients :
        Settled(c) /\ StaleFor(c) => c \in told[c] \/ reconciliation_rx # <<>>
=============================================================================
