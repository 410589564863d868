-------------------------- MODULE SubscribersProofs --------------------------
(***************************************************************************)
(* Clients that share the receiver of a history: a changed answer is never *)
(* left without a notification that somebody can take, for any number of   *)
(* clients, any inputs and any capacity of the channel.                    *)
(***************************************************************************)
EXTENDS Subscribers, HistoryProofs

LEMMA TrySendKeeps ==
    ASSUME TypeOK, NEW from, NEW to, try_send(from, to), reconciliation_rx # <<>>
    PROVE  reconciliation_rx' # <<>>
<1>1. reconciliation_rx \in Seq(Reconciliation)
    BY DEF TypeOK
<1>2. Append(reconciliation_rx, [from_time |-> from, to_time |-> to]) # <<>>
    BY <1>1
<1>3. QED BY <1>2 DEF try_send

LEMMA AnnouncedIsWaiting ==
    ASSUME TypeOK, TypeOK', ReconciliationCapacity > 0, NEW t, Announced(t),
           reconciliation_rx # <<>> => reconciliation_rx' # <<>>
    PROVE  reconciliation_rx' # <<>>
<1>1. /\ reconciliation_rx \in Seq(Reconciliation) /\ Len(reconciliation_rx) \in Nat
      /\ reconciliation_rx' \in Seq(Reconciliation)
    BY LenProperties DEF TypeOK
<1>2. CASE Len(reconciliation_rx) = ReconciliationCapacity
    <2>1. Len(reconciliation_rx) # 0
        BY <1>2
    <2>2. reconciliation_rx # <<>>
        BY <2>1
    <2>3. QED BY <2>2
<1>3. CASE Len(reconciliation_rx') = Len(reconciliation_rx) + 1
    <2>1. Len(reconciliation_rx') # 0
        BY <1>1, <1>3
    <2>2. QED BY <2>1
<1>4. QED BY <1>2, <1>3 DEF Announced

\* A checkpoint after which an event arrives stays.
LEMMA CheckpointsBeforeStay ==
    ASSUME TypeOK, NEW k \in EventKeys, apply_event(k), NEW t \in QueryTimes,
           AtCheckpoint(t), t < k.time
    PROVE  AtCheckpoint(t)'
<1> DEFINE key == Key(t, SnapshotId)
<1>1. k \in ContimeKeys /\ key \in ContimeKeys /\ key.time = t /\ key \in DOMAIN checkpoints
    BY HistoryAssumption, SnapshotKeyType DEF AtCheckpoint
<1>2. KeyLess(key, k)
    BY <1>1, TimeOrder
<1> HIDE DEF key
<1>3. key \in DOMAIN DropFrom(checkpoints, k)
    BY <1>1, <1>2 DEF DropFrom
<1>4. key \in DOMAIN checkpoints'
    BY <1>1, <1>3 DEF apply_event, apply_event_in_place, FastPath, SlowPath,
                      replay_and_checkpoint
<1>5. QED BY <1>4 DEF AtCheckpoint, key

LEMMA CheckpointsBeforeSnapshotStay ==
    ASSUME TypeOK, NEW id, NEW s \in SnapshotTimes, NEW p, apply_snapshot(id, s, p),
           NEW t \in QueryTimes, AtCheckpoint(t), t < s
    PROVE  AtCheckpoint(t)'
<1> DEFINE key == Key(t, SnapshotId)
           k   == Key(s, SnapshotId)
<1>1. /\ key \in ContimeKeys /\ key.time = t /\ key \in DOMAIN checkpoints
      /\ k \in ContimeKeys /\ k.time = s
    BY HistoryAssumption, SnapshotKeyType DEF AtCheckpoint
<1>2. KeyLess(key, k)
    BY <1>1, TimeOrder
<1>3. key \in DOMAIN DropFrom(checkpoints, k)
    BY <1>1, <1>2 DEF DropFrom
<1>4. key \in DOMAIN checkpoints'
    BY <1>3 DEF apply_snapshot, replay_and_checkpoint
<1>5. QED BY <1>4 DEF AtCheckpoint

(***************************************************************************)
(* An input either rings or leaves an answer before a known event alone.   *)
(***************************************************************************)
Quiet(t) == ~AtCheckpoint(t) /\ AnswerAt(t)' = AnswerAt(t)

LEMMA InputHeard ==
    ASSUME AnswersAccounted, TypeOK', UNCHANGED holds, Retold,
           events \in SUBSET events',
           reconciliation_rx # <<>> => reconciliation_rx' # <<>>,
           \A t \in QueryTimes : \A e \in events :
              t < e.time /\ ~AtCheckpoint(t)' => reconciliation_rx' # <<>> \/ Quiet(t)
    PROVE  AnswersAccounted'
<1>1. /\ holds \in [Clients -> SUBSET [time : QueryTimes, snapshot : Snapshots, settled : BOOLEAN]]
      /\ told \in [Clients -> SUBSET Clients]
      /\ \A c \in Clients : \A a \in holds[c] :
            /\ \A b \in holds[c] : b = a
            /\ a.settled => \E k \in events : a.time < k.time
    BY DEF AnswersAccounted
<1>2. told' \in [Clients -> SUBSET Clients]
    BY <1>1 DEF Retold
<1>3. ASSUME NEW c \in Clients, Settled(c)', StaleFor(c)', told'[c] = {}
      PROVE  reconciliation_rx' # <<>>
    <2>1. PICK a \in holds[c] : ~AtCheckpoint(a.time)' /\ a.snapshot # AnswerAt(a.time)'
        BY <1>3 DEF StaleFor
    <2>2. a.settled /\ a.time \in QueryTimes
        BY <1>1, <1>3, <2>1 DEF Settled
    <2>3. PICK e \in events : a.time < e.time
        BY <1>1, <2>2
    <2>4. CASE reconciliation_rx' # <<>>
        BY <2>4
    <2>5. CASE Quiet(a.time)
        <3>1. \A b \in holds[c] : ~Changed(b)
            BY <1>1, <2>5 DEF Quiet, Changed
        <3>2. told[c] = {}
            BY <1>3, <3>1 DEF Retold
        <3>3. Settled(c) /\ StaleFor(c)
            BY <2>1, <2>2, <2>5 DEF Settled, StaleFor, Quiet
        <3>4. reconciliation_rx # <<>>
            BY <3>2, <3>3 DEF AnswersAccounted, SomebodyWillHear
        <3>5. QED BY <3>4
    <2>6. QED BY <2>1, <2>2, <2>3, <2>4, <2>5
<1>4. SomebodyWillHear'
    BY <1>3 DEF SomebodyWillHear
<1>5. QED BY <1>1, <1>2, <1>4 DEF AnswersAccounted

LEMMA ReceiveEventHeard ==
    ASSUME AnswersAccounted, ReconciliationCapacity > 0,
           NEW k \in EventKeys, ReceiveEvent(k)
    PROVE  AnswersAccounted'
<1>1. TypeOK /\ TypeOK' /\ apply_event(k) /\ Retold /\ UNCHANGED holds
    BY ApplyEventActionType DEF AnswersAccounted, ReceiveEvent
<1>2. reconciliation_rx # <<>> => reconciliation_rx' # <<>>
    BY <1>1, TrySendKeeps DEF apply_event
<1>3. ASSUME NEW t \in QueryTimes, NEW e \in events, t < e.time, ~AtCheckpoint(t)'
      PROVE  reconciliation_rx' # <<>> \/ Quiet(t)
    <2>1. CASE k.time <= t
        BY <1>1, <1>2, <1>3, <2>1, EventAnnounced, AnnouncedIsWaiting
    <2>2. CASE t < k.time
        <3>1. ~AtCheckpoint(t)
            BY <1>1, <1>3, <2>2, CheckpointsBeforeStay
        <3>2. AnswerAt(t)' = AnswerAt(t) \/ Announced(t)
            BY <1>1, <1>3, ApplyEventAnnounced
        <3>3. QED BY <1>1, <1>2, <3>1, <3>2, AnnouncedIsWaiting DEF Quiet
    <2>3. QED BY <2>1, <2>2, HistoryAssumption DEF ContimeKeys
<1>4. events \in SUBSET events'
    BY <1>1 DEF apply_event
<1>5. QED BY <1>1, <1>2, <1>3, <1>4, InputHeard

LEMMA ReceiveSnapshotHeard ==
    ASSUME AnswersAccounted, ReconciliationCapacity > 0,
           NEW s \in SnapshotTimes, NEW p \in Payloads, ReceiveSnapshot(s, p)
    PROVE  AnswersAccounted'
<1>1. TypeOK /\ TypeOK' /\ apply_snapshot(SnapshotId, s, p) /\ Retold /\ UNCHANGED holds
    BY ApplySnapshotType DEF AnswersAccounted, ReceiveSnapshot
<1>2. reconciliation_rx # <<>> => reconciliation_rx' # <<>>
    BY <1>1, TrySendKeeps DEF apply_snapshot
<1>3. ASSUME NEW t \in QueryTimes, NEW e \in events, t < e.time, ~AtCheckpoint(t)'
      PROVE  reconciliation_rx' # <<>> \/ Quiet(t)
    <2>1. CASE s <= t
        BY <1>1, <1>2, <1>3, <2>1, SnapshotAnnounced, AnnouncedIsWaiting
    <2>2. CASE t < s
        <3>1. ~AtCheckpoint(t)
            BY <1>1, <1>3, <2>2, CheckpointsBeforeSnapshotStay
        <3>2. AnswerAt(t)' = AnswerAt(t) \/ Announced(t)
            BY <1>1, <1>3, ApplySnapshotAnnounced
        <3>3. QED BY <1>1, <1>2, <3>1, <3>2, AnnouncedIsWaiting DEF Quiet
    <2>3. QED BY <2>1, <2>2, HistoryAssumption
<1>4. events \in SUBSET events'
    BY <1>1 DEF apply_snapshot
<1>5. QED BY <1>1, <1>2, <1>3, <1>4, InputHeard

\* What does not touch the history leaves every answer and every checkpoint.
LEMMA SameHistory ==
    ASSUME UNCHANGED <<base_snapshot, checkpoints, events>>
    PROVE  \A t : AnswerAt(t)' = AnswerAt(t) /\ (AtCheckpoint(t)' <=> AtCheckpoint(t))
BY DEF AnswerAt, AtCheckpoint

LEMMA AskHeard ==
    ASSUME AnswersAccounted, NEW c \in Clients, NEW t \in QueryTimes,
           ~panicked, at(c, t)
    PROVE  AnswersAccounted'
<1> DEFINE a == [time |-> t, snapshot |-> AnswerAt(t), settled |-> \E k \in events : t < k.time]
<1>1. /\ TypeOK /\ snapshot_at(t)
      /\ holds' = [holds EXCEPT ![c] = {a}] /\ told' = [told EXCEPT ![c] = {}]
      /\ UNCHANGED <<base_snapshot, checkpoints, events, reconciliation_rx>>
    BY DEF AnswersAccounted, at, snapshot_at
<1>2. TypeOK'
    BY <1>1, NextType DEF Next
<1>3. AnswerAt(t) \in Snapshots
    BY <1>1, AnswerType, HistoryAssumption
<1>4. a \in [time : QueryTimes, snapshot : Snapshots, settled : BOOLEAN]
      /\ a.time = t /\ a.snapshot = AnswerAt(t) /\ (a.settled => \E k \in events : t < k.time)
    BY <1>3
<1> HIDE DEF a
<1>5. /\ holds \in [Clients -> SUBSET [time : QueryTimes, snapshot : Snapshots, settled : BOOLEAN]]
      /\ told \in [Clients -> SUBSET Clients]
      /\ \A o \in Clients : \A b \in holds[o] :
            /\ \A d \in holds[o] : d = b
            /\ b.settled => \E k \in events : b.time < k.time
      /\ SomebodyWillHear
    BY DEF AnswersAccounted
<1>6. /\ holds'[c] = {a} /\ told'[c] = {}
      /\ \A o \in Clients : o # c => holds'[o] = holds[o] /\ told'[o] = told[o]
    BY <1>1, <1>5
<1>7. /\ holds' \in [Clients -> SUBSET [time : QueryTimes, snapshot : Snapshots, settled : BOOLEAN]]
      /\ told' \in [Clients -> SUBSET Clients]
    BY <1>1, <1>4, <1>5
<1>8. \A o \in Clients : \A b \in holds'[o] :
         /\ \A d \in holds'[o] : d = b
         /\ b.settled => \E k \in events' : b.time < k.time
    BY <1>1, <1>4, <1>5, <1>6
<1>9. SomebodyWillHear'
    <2> SUFFICES ASSUME NEW o \in Clients, Settled(o)', StaleFor(o)', told'[o] = {}
                 PROVE  reconciliation_rx' # <<>>
        BY DEF SomebodyWillHear
    <2>1. \E b \in holds'[o] : ~AtCheckpoint(b.time) /\ b.snapshot # AnswerAt(b.time)
        BY <1>1, SameHistory DEF StaleFor
    <2>2. o # c
        BY <1>4, <1>6, <2>1
    <2>3. Settled(o) /\ StaleFor(o) /\ told[o] = {}
        BY <1>6, <2>1, <2>2 DEF Settled, StaleFor
    <2>4. QED BY <1>1, <1>5, <2>3 DEF SomebodyWillHear
<1>10. QED BY <1>2, <1>7, <1>8, <1>9 DEF AnswersAccounted

LEMMA ListenHeard ==
    ASSUME AnswersAccounted, NEW c \in Clients, listen(c)
    PROVE  AnswersAccounted'
<1>1. /\ TypeOK /\ recv /\ holds' = holds
      /\ told' = [o \in Clients |-> IF StaleFor(o) THEN told[o] \cup {c} ELSE told[o]]
      /\ UNCHANGED <<base_snapshot, checkpoints, events>>
    BY DEF AnswersAccounted, listen, recv
<1>2. TypeOK' /\ told' \in [Clients -> SUBSET Clients]
    BY <1>1, RecvType DEF AnswersAccounted
<1>3. SomebodyWillHear'
    <2> SUFFICES ASSUME NEW o \in Clients, StaleFor(o)', told'[o] = {} PROVE FALSE
        BY DEF SomebodyWillHear
    <2>1. StaleFor(o)
        BY <1>1, SameHistory DEF StaleFor
    <2>2. c \in told'[o]
        BY <1>1, <2>1
    <2>3. QED BY <2>2
<1>4. QED BY <1>1, <1>2, <1>3 DEF AnswersAccounted

LEMMA UnheardHeard ==
    ASSUME AnswersAccounted, TypeOK', NEW c \in Clients,
           UNCHANGED <<base_snapshot, checkpoints, events, reconciliation_rx, told>>,
           holds' = holds \/ holds' = [holds EXCEPT ![c] = {}]
    PROVE  AnswersAccounted'
<1>1. \A o \in Clients : holds'[o] \in {{}, holds[o]}
    BY DEF AnswersAccounted
<1>2. holds' \in [Clients -> SUBSET [time : QueryTimes, snapshot : Snapshots, settled : BOOLEAN]]
    BY DEF AnswersAccounted
<1>3. \A o \in Clients : /\ Settled(o)' => Settled(o)
                         /\ StaleFor(o)' => StaleFor(o)
    BY <1>1, SameHistory DEF Settled, StaleFor
<1>4. SomebodyWillHear'
    BY <1>3 DEF AnswersAccounted, SomebodyWillHear
<1>5. \A o \in Clients : \A b \in holds'[o] :
         /\ \A d \in holds'[o] : d = b
         /\ b.settled => \E k \in events' : b.time < k.time
    BY <1>1 DEF AnswersAccounted
<1>6. QED BY <1>2, <1>4, <1>5 DEF AnswersAccounted

LEMMA SubscriberStep ==
    ASSUME ReconciliationCapacity > 0, AnswersAccounted,
           [SubscriberNext]_subscriberVars
    PROVE  AnswersAccounted'
<1>1. ASSUME NEW k \in EventKeys, ReceiveEvent(k) PROVE AnswersAccounted'
    BY <1>1, ReceiveEventHeard
<1>2. ASSUME NEW t \in SnapshotTimes, NEW p \in Payloads, ReceiveSnapshot(t, p)
      PROVE  AnswersAccounted'
    BY <1>2, ReceiveSnapshotHeard
<1>3. ASSUME NEW c \in Clients, NEW t \in QueryTimes, ~panicked, at(c, t)
      PROVE  AnswersAccounted'
    BY <1>3, AskHeard
<1>4. ASSUME NEW c \in Clients, listen(c) PROVE AnswersAccounted'
    BY <1>4, ListenHeard
<1>5. ASSUME UNCHANGED <<base_snapshot, checkpoints, events, reconciliation_rx, told>>,
             TypeOK', holds' = holds
      PROVE  AnswersAccounted'
    BY <1>5, SameHistory DEF AnswersAccounted, SomebodyWillHear, Settled, StaleFor
<1>6. ASSUME NEW c \in Clients, at_not_found(c) PROVE AnswersAccounted'
    <2>1. TypeOK'
        BY <1>6, NextType DEF at_not_found, AnswersAccounted
    <2>2. QED BY <1>6, <2>1, UnheardHeard DEF at_not_found, vars
<1>7. ASSUME NEW c \in Clients, NEW t \in QueryTimes, ~panicked, at_panics(c, t)
      PROVE  AnswersAccounted'
    <2>1. TypeOK'
        BY <1>7, NextType DEF at_panics, AnswersAccounted, Next
    <2>2. QED BY <1>5, <1>7, <2>1 DEF at_panics, snapshot_at_panics, clientVars
<1>8. ASSUME NEW c \in Clients, ~panicked, query_again(c) PROVE AnswersAccounted'
    <2>1. PICK a \in holds[c] : at(c, a.time) \/ at_panics(c, a.time)
        BY <1>8 DEF query_again
    <2>2. a.time \in QueryTimes
        BY DEF AnswersAccounted
    <2>3. QED BY <1>3, <1>7, <1>8, <2>1, <2>2
<1>9. ASSUME UNCHANGED <<vars, holds, told>> PROVE AnswersAccounted'
    <2>1. TypeOK'
        BY <1>9, NextType DEF AnswersAccounted
    <2>2. QED BY <1>5, <1>9, <2>1 DEF vars
<1>10. QED BY <1>1, <1>2, <1>3, <1>4, <1>6, <1>7, <1>8, <1>9
           DEF SubscriberNext, subscriberVars, ReceiveFirstSnapshot, clientVars

(***************************************************************************)
(* A settled answer that has changed and that nobody has been told of has  *)
(* a notification waiting, whichever clone takes it.  A channel of no      *)
(* capacity would drop every notification.                                 *)
(***************************************************************************)
THEOREM AnswersStayAccounted ==
    ASSUME ReconciliationCapacity > 0
    PROVE  SubscriberSpec => []AnswersAccounted
<1>1. SubscriberInit => AnswersAccounted
    <2> SUFFICES ASSUME SubscriberInit PROVE AnswersAccounted
        OBVIOUS
    <2>1. TypeOK
        BY InitType DEF SubscriberInit
    <2>2. QED BY <2>1 DEF SubscriberInit, AnswersAccounted, SomebodyWillHear, Settled
<1>2. AnswersAccounted /\ [SubscriberNext]_subscriberVars => AnswersAccounted'
    BY SubscriberStep
<1>3. QED BY <1>1, <1>2, PTL DEF SubscriberSpec

THEOREM SomebodyAlwaysHears ==
    ASSUME ReconciliationCapacity > 0
    PROVE  SubscriberSpec => []SomebodyWillHear
<1>1. AnswersAccounted => SomebodyWillHear
    BY DEF AnswersAccounted
<1>2. QED BY <1>1, AnswersStayAccounted, PTL
=============================================================================
