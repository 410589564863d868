--------------------------- MODULE ContimeProofs ---------------------------
(***************************************************************************)
(* Theorems about a Contime, for any lanes, ids, workers, clients and      *)
(* channel capacity, any panics and a drop at any moment: what becomes of  *)
(* the requests and of the contents, and that Contime implements Store.    *)
(***************************************************************************)
EXTENDS ContimeStore, ContimeInvariant, SequenceTheorems, TLAPS

RouteParts == [worker : Workers, id : Ids \cup {0}, initial : SUBSET SnapshotTypes]
Replies == {"pending", "done", "lost"}

(***************************************************************************)
(* Routes.                                                                 *)
(***************************************************************************)
LEMMA TargetTypesType ==
    ASSUME NEW e \in EventLanes
    PROVE  /\ TargetTypes[e.variant] \in Seq(SnapshotTypes)
           /\ Len(TargetTypes[e.variant]) \in Nat \ {0}
           /\ DOMAIN TargetTypes[e.variant] = 1..Len(TargetTypes[e.variant])
           /\ \A i \in DOMAIN TargetTypes[e.variant] :
                TargetTypes[e.variant][i] \in SnapshotTypes
<1>1. TargetTypes[e.variant] \in Seq(SnapshotTypes) \ {<<>>}
    BY LanesAssumption DEF EventLanes
<1>2. QED BY <1>1, EmptySeq, LenProperties, ElementOfSeq

LEMMA StatesOfEvent ==
    ASSUME NEW e \in Events
    PROVE  /\ snapshots(e) \in Seq(States) /\ snapshots(e) # <<>>
           /\ \A i \in DOMAIN snapshots(e) :
                 /\ i \in DOMAIN TargetTypes[e.variant]
                 /\ snapshots(e)[i].type = TargetTypes[e.variant][i]
                 /\ snapshots(e)[i].id = e.ids[TargetTypes[e.variant][i]]
           /\ \A i \in DOMAIN TargetTypes[e.variant] : i \in DOMAIN snapshots(e)
<1> DEFINE n == Len(TargetTypes[e.variant])
<1>1. e \in EventLanes
    BY ContimeAssumption
<1>2. /\ n \in Nat \ {0} /\ DOMAIN TargetTypes[e.variant] = 1..n
    BY <1>1, TargetTypesType
<1>3. snapshots(e) = [i \in 1..n |-> from_event(TargetTypes[e.variant][i], e)]
    BY <1>2 DEF snapshots
<1>4. \A i \in DOMAIN snapshots(e) : snapshots(e)[i] \in States
    BY DEF States
<1>5. DOMAIN snapshots(e) = 1..n
    BY <1>3
<1>6. snapshots(e) \in [1..n -> States]
    BY <1>3, <1>4, <1>5
<1> HIDE DEF n
<1>7. snapshots(e) \in Seq(States) /\ Len(snapshots(e)) = n
    BY <1>2, <1>6, IsASeq
<1>8. QED BY <1>2, <1>3, <1>5, <1>7 DEF from_event

LEMMA StateType ==
    ASSUME NEW s \in States
    PROVE  /\ s.type \in SnapshotTypes /\ s.id \in Ids
           /\ s = [type |-> s.type, id |-> s.id]
           /\ WorkerIndex[s.id] \in Workers
<1>1. s.id \in Ids
    BY DEF Ids
<1>2. s \in SnapshotLanes
    <2>1. CASE s \in Corrections
        BY <2>1, ContimeAssumption
    <2>2. ASSUME NEW e \in Events, NEW i \in DOMAIN snapshots(e), s = snapshots(e)[i]
          PROVE  s \in SnapshotLanes
        <3>1. e \in EventLanes /\ i \in DOMAIN TargetTypes[e.variant]
            BY <2>2, ContimeAssumption, StatesOfEvent
        <3>2. TargetTypes[e.variant][i] \in SnapshotTypes
            BY <3>1, TargetTypesType
        <3>3. s = [type |-> TargetTypes[e.variant][i],
                   id |-> e.ids[TargetTypes[e.variant][i]]]
            BY <2>2, <3>1 DEF snapshots, from_event
        <3>4. QED BY <3>1, <3>2, <3>3 DEF SnapshotLanes, EventLanes
    <2>3. QED BY <2>1, <2>2 DEF States
<1>3. QED BY <1>1, <1>2, ContimeAssumption DEF SnapshotLanes

LEMMA RouteType ==
    ASSUME NEW states \in Seq(States)
    PROVE  /\ Route(states) \in Seq(RouteParts)
           /\ Len(Route(states)) = Len(states)
           /\ \A i \in DOMAIN Route(states) :
                 /\ i \in DOMAIN states
                 /\ Route(states)[i].worker = WorkerIndex[states[i].id]
                 /\ Route(states)[i].id = states[i].id
                 /\ Route(states)[i].initial = {states[i].type}
<1> DEFINE n == Len(states)
<1>1. n \in Nat /\ DOMAIN states = 1..n /\ \A i \in 1..n : states[i] \in States
    BY LenProperties, ElementOfSeq
<1>2. Route(states) = [i \in 1..n |-> Message(WorkerIndex[states[i].id],
                                              states[i].id, {states[i].type})]
    BY <1>1 DEF Route
<1>3. \A i \in 1..n : Message(WorkerIndex[states[i].id], states[i].id,
                              {states[i].type}) \in RouteParts
    BY <1>1, StateType DEF Message, RouteParts
<1> HIDE DEF n
<1>4. Route(states) \in [1..n -> RouteParts]
    BY <1>2, <1>3
<1>5. Route(states) \in Seq(RouteParts) /\ Len(Route(states)) = n
      /\ DOMAIN Route(states) = 1..n
    BY <1>1, <1>4, IsASeq
<1>6. QED BY <1>1, <1>2, <1>5 DEF Message, n

LEMMA BroadcastType ==
    /\ Broadcast \in Seq(RouteParts) /\ Len(Broadcast) = WorkerCount
    /\ \A w \in Workers : w \in DOMAIN Broadcast /\ Broadcast[w] = Message(w, 0, {})
<1>1. WorkerCount \in Nat
    BY ContimeAssumption
<1>2. Broadcast \in [1..WorkerCount -> RouteParts]
    BY DEF Broadcast, Message, RouteParts, Workers
<1>3. Broadcast \in Seq(RouteParts) /\ Len(Broadcast) = WorkerCount
    BY <1>1, <1>2, IsASeq
<1>4. QED BY <1>3 DEF Broadcast, Workers

LEMMA SingleRoute ==
    ASSUME NEW m \in RouteParts
    PROVE  <<m>> \in Seq(RouteParts) /\ Len(<<m>>) = 1 /\ <<m>>[1] = m
OBVIOUS

LEMMA CorrectionIsState == Corrections \subseteq States
BY DEF States

LEMMA CorrectionRoute ==
    ASSUME NEW s \in Corrections
    PROVE  /\ Route(<<s>>) \in Seq(RouteParts) /\ Len(Route(<<s>>)) = 1
           /\ DOMAIN Route(<<s>>) = {1}
           /\ Route(<<s>>)[1].worker = WorkerIndex[s.id]
           /\ Route(<<s>>)[1].id = s.id
           /\ Route(<<s>>)[1].initial = {s.type}
<1>1. PICK states : states = <<s>>
    OBVIOUS
<1>2. states \in Seq(States) /\ Len(states) = 1 /\ states[1] = s
    BY <1>1, CorrectionIsState
<1>3. Route(states) \in Seq(RouteParts) /\ Len(Route(states)) = 1
    BY <1>2, RouteType
<1>4. DOMAIN Route(states) = {1}
    BY <1>3, LenProperties
<1>5. /\ Route(states)[1].worker = WorkerIndex[states[1].id]
      /\ Route(states)[1].id = states[1].id
      /\ Route(states)[1].initial = {states[1].type}
    BY <1>2, <1>4, RouteType
<1>6. QED BY <1>1, <1>2, <1>3, <1>4, <1>5

LEMMA QueryMessageType ==
    ASSUME NEW id \in QueryIds
    PROVE  Message(WorkerIndex[id], id, {}) \in RouteParts
<1>1. id \in Ids
    BY DEF Ids
<1>2. QED BY <1>1, ContimeAssumption DEF Message, RouteParts

LEMMA RoutedType ==
    ASSUME NEW q, WellRouted(q)
    PROVE  /\ q.route \in Seq(RouteParts) /\ Len(q.route) \in Nat \ {0}
           /\ q.event \in SUBSET EventLanes
           /\ q.op \in {"event", "snapshot", "query", "advance"}
<1>1. ASSUME q.op = "event", NEW e \in Events, q.event = {e}, q.route = Route(snapshots(e))
      PROVE  q.route \in Seq(RouteParts) /\ Len(q.route) \in Nat \ {0}
             /\ q.event \in SUBSET EventLanes
    <2>1. snapshots(e) \in Seq(States) /\ snapshots(e) # <<>>
        BY StatesOfEvent
    <2>2. Len(snapshots(e)) \in Nat \ {0}
        BY <2>1, EmptySeq, LenProperties
    <2>3. QED BY <1>1, <2>1, <2>2, RouteType, ContimeAssumption
<1>2. ASSUME NEW s \in Corrections, q.route = Route(<<s>>)
      PROVE  q.route \in Seq(RouteParts) /\ Len(q.route) \in Nat \ {0}
    BY <1>2, CorrectionRoute
<1>3. ASSUME NEW id \in QueryIds, q.route = <<Message(WorkerIndex[id], id, {})>>
      PROVE  q.route \in Seq(RouteParts) /\ Len(q.route) \in Nat \ {0}
    BY <1>3, QueryMessageType, SingleRoute
<1>4. ASSUME q.route = Broadcast
      PROVE  q.route \in Seq(RouteParts) /\ Len(q.route) \in Nat \ {0}
    BY <1>4, BroadcastType, ContimeAssumption
<1>5. QED BY <1>1, <1>2, <1>3, <1>4 DEF WellRouted

\* Every part of an event or a snapshot brings a state to its own history.
LEMMA UpdateRoute ==
    ASSUME NEW q, WellRouted(q), q.op \in {"event", "snapshot"}, NEW i \in DOMAIN q.route
    PROVE  \E s \in States :
              /\ q.route[i].id = s.id /\ q.route[i].worker = WorkerIndex[s.id]
              /\ q.route[i].initial = {s.type}
              /\ q.op = "event" => \A e \in q.event : applies_to(e.variant, s.type)
<1>1. ASSUME NEW e \in Events, q.event = {e}, q.route = Route(snapshots(e))
      PROVE  \E s \in States :
                /\ q.route[i].id = s.id /\ q.route[i].worker = WorkerIndex[s.id]
                /\ q.route[i].initial = {s.type}
                /\ applies_to(e.variant, s.type)
    <2>1. snapshots(e) \in Seq(States)
        BY StatesOfEvent
    <2>2. /\ i \in DOMAIN snapshots(e)
          /\ q.route[i].worker = WorkerIndex[snapshots(e)[i].id]
          /\ q.route[i].id = snapshots(e)[i].id
          /\ q.route[i].initial = {snapshots(e)[i].type}
        BY <1>1, <2>1, RouteType
    <2>3. snapshots(e)[i] \in States
        BY <2>2 DEF States
    <2>4. applies_to(e.variant, snapshots(e)[i].type)
        BY <2>2, StatesOfEvent DEF applies_to
    <2>5. QED BY <2>2, <2>3, <2>4
<1>2. ASSUME NEW s \in Corrections, q.route = Route(<<s>>)
      PROVE  s \in States /\ q.route[i].id = s.id
             /\ q.route[i].worker = WorkerIndex[s.id] /\ q.route[i].initial = {s.type}
    BY <1>2, CorrectionRoute, CorrectionIsState
<1>3. QED BY <1>1, <1>2 DEF WellRouted

\* Every history a request is for has a part, at the worker a query would ask.
LEMMA TargetRouted ==
    ASSUME NEW r, WellRouted(requests[r]), IsUpdate(r), NEW id \in Targets(r)
    PROVE  \E i \in DOMAIN requests[r].route :
              requests[r].route[i].id = id /\ WorkerOf(r, i) = WorkerIndex[id]
<1> DEFINE q == requests[r]
<1>1. ASSUME NEW e \in Events, q.op = "event", q.event = {e}, q.route = Route(snapshots(e))
      PROVE  \E i \in DOMAIN q.route : q.route[i].id = id /\ WorkerOf(r, i) = WorkerIndex[id]
    <2>1. PICK i \in DOMAIN TargetTypes[e.variant] : id = e.ids[TargetTypes[e.variant][i]]
        BY <1>1 DEF Targets
    <2>2. i \in DOMAIN snapshots(e) /\ snapshots(e)[i].id = id /\ snapshots(e) \in Seq(States)
        BY <2>1, StatesOfEvent
    <2>3. DOMAIN q.route = DOMAIN snapshots(e)
        BY <1>1 DEF Route
    <2>4. q.route[i].id = id /\ q.route[i].worker = WorkerIndex[id]
        BY <1>1, <2>2, <2>3, RouteType
    <2>5. QED BY <2>2, <2>3, <2>4 DEF WorkerOf
<1>2. ASSUME NEW s \in Corrections, q.op = "snapshot", q.route = Route(<<s>>)
      PROVE  \E i \in DOMAIN q.route : q.route[i].id = id /\ WorkerOf(r, i) = WorkerIndex[id]
    <2>1. id = q.route[1].id
        BY <1>2 DEF Targets
    <2>2. 1 \in DOMAIN q.route /\ q.route[1].worker = WorkerIndex[q.route[1].id]
        BY <1>2, CorrectionRoute
    <2>3. QED BY <2>1, <2>2 DEF WorkerOf
<1>3. QED BY <1>1, <1>2 DEF WellRouted, IsUpdate

-----------------------------------------------------------------------------
(***************************************************************************)
(* What the steps do to the requests, field by field.                      *)
(***************************************************************************)
LEMMA RequestFields ==
    ASSUME requests \in Seq(RequestRecords), NEW r \in DOMAIN requests
    PROVE  /\ r \in 1..Len(requests) /\ r \in Nat /\ r # 0
           /\ requests[r] \in RequestRecords
           /\ requests[r].op \in {"event", "snapshot", "query", "advance"}
           /\ requests[r].status \in {"sending", "sent", "ok", "error", "worker_dropped"}
           /\ requests[r].earlier \in SUBSET (1..MaxRequests)
           /\ requests[r].answer \in SUBSET SUBSET (1..MaxRequests)
           /\ requests[r].replies \in Seq(Replies)
           /\ Len(requests[r].replies) \in Nat
           /\ DOMAIN requests[r].replies = 1..Len(requests[r].replies)
           /\ \A i \in DOMAIN requests[r].replies : requests[r].replies[i] \in Replies
           /\ requests[r].route \in Seq(RouteParts)
           /\ Len(requests[r].route) \in Nat
           /\ DOMAIN requests[r].route = 1..Len(requests[r].route)
           /\ \A i \in DOMAIN requests[r].route : WorkerOf(r, i) \in Workers
<1>1. r \in 1..Len(requests) /\ requests[r] \in RequestRecords
    BY LenProperties, ElementOfSeq
<1>2. requests[r].replies \in Seq(Replies) /\ requests[r].route \in Seq(RouteParts)
    BY <1>1 DEF RequestRecords, Replies, RouteParts
<1>3. \A i \in DOMAIN requests[r].route : requests[r].route[i] \in RouteParts
    BY <1>2, ElementOfSeq, LenProperties
<1>4. \A i \in DOMAIN requests[r].route : WorkerOf(r, i) \in Workers
    BY <1>3 DEF WorkerOf, RouteParts
<1>5. QED BY <1>1, <1>2, <1>4, ElementOfSeq, LenProperties DEF RequestRecords

\* Request r gets these replies, this status and this answer.
Becomes(r, replies, status, answer) ==
    /\ requests' \in Seq(RequestRecords) /\ Len(requests') = Len(requests)
    /\ DOMAIN requests' = DOMAIN requests
    /\ \A q \in DOMAIN requests : q # r => requests'[q] = requests[q]
    /\ requests'[r].op = requests[r].op /\ requests'[r].event = requests[r].event
    /\ requests'[r].route = requests[r].route
    /\ requests'[r].earlier = requests[r].earlier
    /\ requests'[r].replies = replies /\ requests'[r].status = status
    /\ requests'[r].answer = answer

LEMMA BecomesEffect ==
    ASSUME requests \in Seq(RequestRecords), NEW r \in DOMAIN requests,
           NEW replies \in Seq(Replies),
           NEW status \in {"sending", "sent", "ok", "error", "worker_dropped"},
           NEW answer \in SUBSET SUBSET (1..MaxRequests),
           requests' = [q \in DOMAIN requests |-> requests'[q]],
           \A q \in DOMAIN requests : q # r => requests'[q] = requests[q],
           requests'[r] =
               [op |-> requests[r].op, event |-> requests[r].event,
                route |-> requests[r].route, replies |-> replies, status |-> status,
                earlier |-> requests[r].earlier, answer |-> answer]
    PROVE  Becomes(r, replies, status, answer)
<1> DEFINE q == [op |-> requests[r].op, event |-> requests[r].event,
                 route |-> requests[r].route, replies |-> replies, status |-> status,
                 earlier |-> requests[r].earlier, answer |-> answer]
<1>1. r \in 1..Len(requests) /\ requests[r] \in RequestRecords
    BY RequestFields
<1>2. q \in RequestRecords
    BY <1>1 DEF RequestRecords, Replies
<1>3. /\ q.op = requests[r].op /\ q.event = requests[r].event
      /\ q.route = requests[r].route /\ q.earlier = requests[r].earlier
      /\ q.replies = replies /\ q.status = status /\ q.answer = answer
    OBVIOUS
<1>4. requests'[r] = q
    OBVIOUS
<1> HIDE DEF q
<1>5. DOMAIN requests = 1..Len(requests) /\ Len(requests) \in Nat
      /\ \A j \in DOMAIN requests : requests[j] \in RequestRecords
    BY LenProperties, ElementOfSeq
<1>6. DOMAIN requests' = 1..Len(requests)
      /\ \A j \in 1..Len(requests) : requests'[j] \in RequestRecords
    BY <1>2, <1>4, <1>5
<1>7. requests' \in [1..Len(requests) -> RequestRecords]
    BY <1>5, <1>6
<1>8. requests' \in Seq(RequestRecords) /\ Len(requests') = Len(requests)
    BY <1>5, <1>7, IsASeq
<1>9. QED BY <1>3, <1>4, <1>5, <1>6, <1>8 DEF Becomes

LEMMA SendEffect ==
    ASSUME TypeOK, NEW c \in Clients, call[c] \in DOMAIN requests, Send(c)
    PROVE  LET r == call[c]
               part == Len(requests[r].replies) + 1
               w == requests[r].route[part].worker
               last == part = Len(requests[r].route)
           IN  /\ Becomes(r, Append(requests[r].replies, "pending"),
                          IF last THEN "sent" ELSE requests[r].status, requests[r].answer)
               /\ call' = [call EXCEPT ![c] = IF last THEN 0 ELSE r]
               /\ inbound' = [inbound EXCEPT ![w] = Append(inbound[w], Part(r, part))]
               /\ UNCHANGED <<is_running, thread, history_by_id, owner>>
               /\ thread[w] # "exited" /\ Len(inbound[w]) < InboundCapacity
<1> DEFINE r == call[c]
           part == Len(requests[r].replies) + 1
           last == part = Len(requests[r].route)
           replies == Append(requests[r].replies, "pending")
           status == IF last THEN "sent" ELSE requests[r].status
           answer == requests[r].answer
<1>1. requests \in Seq(RequestRecords)
    BY DEF TypeOK
<1>2. /\ replies \in Seq(Replies) /\ answer \in SUBSET SUBSET (1..MaxRequests)
      /\ status \in {"sending", "sent", "ok", "error", "worker_dropped"}
    <2>1. "pending" \in Replies
        BY DEF Replies
    <2>2. QED BY <1>1, <2>1, RequestFields, AppendProperties
<1>3. requests' = [requests EXCEPT ![r].replies = replies, ![r].status = status]
    BY DEF Send
<1>4. requests[r] \in RequestRecords
    BY <1>1, RequestFields
<1>5. /\ requests' = [q \in DOMAIN requests |-> requests'[q]]
      /\ \A q \in DOMAIN requests : q # r => requests'[q] = requests[q]
      /\ requests'[r] =
            [op |-> requests[r].op, event |-> requests[r].event,
             route |-> requests[r].route, replies |-> replies, status |-> status,
             earlier |-> requests[r].earlier, answer |-> answer]
    BY <1>3, <1>4 DEF RequestRecords
<1>6. Becomes(r, replies, status, answer)
    <2> HIDE DEF r, replies, status, answer
    <2>1. QED BY <1>1, <1>2, <1>5, BecomesEffect DEF r
<1>7. QED BY <1>6 DEF Send, Part

LEMMA StatusEffect ==
    ASSUME requests \in Seq(RequestRecords), NEW r \in DOMAIN requests,
           NEW status \in {"sending", "sent", "ok", "error", "worker_dropped"}
    PROVE  requests' = [requests EXCEPT ![r].status = status]
             => Becomes(r, requests[r].replies, status, requests[r].answer)
<1>1. requests[r] \in RequestRecords /\ requests[r].replies \in Seq(Replies)
      /\ requests[r].answer \in SUBSET SUBSET (1..MaxRequests)
    BY RequestFields
<1>2. ASSUME requests' = [requests EXCEPT ![r].status = status]
      PROVE  /\ requests' = [q \in DOMAIN requests |-> requests'[q]]
             /\ \A q \in DOMAIN requests : q # r => requests'[q] = requests[q]
             /\ requests'[r] =
                   [op |-> requests[r].op, event |-> requests[r].event,
                    route |-> requests[r].route, replies |-> requests[r].replies,
                    status |-> status, earlier |-> requests[r].earlier,
                    answer |-> requests[r].answer]
    BY <1>1, <1>2 DEF RequestRecords
<1>3. PICK replies, answer : replies = requests[r].replies /\ answer = requests[r].answer
    OBVIOUS
<1>4. /\ requests' = [q \in DOMAIN requests |-> requests'[q]]
      /\ \A q \in DOMAIN requests : q # r => requests'[q] = requests[q]
      /\ requests'[r] =
            [op |-> requests[r].op, event |-> requests[r].event,
             route |-> requests[r].route, replies |-> replies, status |-> status,
             earlier |-> requests[r].earlier, answer |-> answer]
      => Becomes(r, replies, status, answer)
    BY <1>1, <1>3, BecomesEffect
<1>5. QED BY <1>2, <1>3, <1>4

LEMMA AnswerEffect ==
    ASSUME requests \in Seq(RequestRecords), NEW m, m.request \in DOMAIN requests,
           m.part \in DOMAIN requests[m.request].replies,
           NEW answer \in SUBSET SUBSET (1..MaxRequests),
           requests' = Answer(m, answer, requests)
    PROVE  Becomes(m.request,
                   [requests[m.request].replies EXCEPT ![m.part] = "done"],
                   requests[m.request].status, answer)
<1> DEFINE r == m.request
           replies == [requests[r].replies EXCEPT ![m.part] = "done"]
<1>1. requests[r] \in RequestRecords /\ requests[r].replies \in Seq(Replies)
      /\ requests[r].status \in {"sending", "sent", "ok", "error", "worker_dropped"}
    BY RequestFields
<1>2. replies \in Seq(Replies)
    <2>1. "done" \in Replies /\ m.part \in 1..Len(requests[r].replies)
        BY RequestFields DEF Replies
    <2>2. QED BY <1>1, <2>1, ExceptSeq
<1>3. /\ requests' = [q \in DOMAIN requests |-> requests'[q]]
      /\ \A q \in DOMAIN requests : q # r => requests'[q] = requests[q]
      /\ requests'[r] =
            [op |-> requests[r].op, event |-> requests[r].event,
             route |-> requests[r].route, replies |-> replies,
             status |-> requests[r].status,
             earlier |-> requests[r].earlier, answer |-> answer]
    BY <1>1 DEF Answer, RequestRecords
<1> HIDE DEF replies
<1>4. Becomes(r, replies, requests[r].status, answer)
    BY <1>1, <1>2, <1>3, BecomesEffect
<1>5. QED BY <1>4 DEF replies

LEMMA BeginEffect ==
    ASSUME TypeOK, Len(requests) <= MaxRequests, NEW c \in Clients,
           NEW op \in {"event", "snapshot", "query", "advance"},
           NEW event \in SUBSET EventLanes, NEW route \in Seq(RouteParts),
           Begin(c, op, event, route)
    PROVE  /\ requests' \in Seq(RequestRecords)
           /\ Len(requests') = Len(requests) + 1 /\ Len(requests') <= MaxRequests
           /\ DOMAIN requests' = DOMAIN requests \cup {Len(requests) + 1}
           /\ Len(requests) + 1 \notin DOMAIN requests
           /\ \A q \in DOMAIN requests : requests'[q] = requests[q]
           /\ requests'[Len(requests) + 1] =
                [op |-> op, event |-> event, route |-> route, replies |-> <<>>,
                 status |-> "sending", earlier |-> Earlier(op, route), answer |-> {}]
<1> DEFINE q == [op |-> op, event |-> event, route |-> route, replies |-> <<>>,
                 status |-> "sending", earlier |-> Earlier(op, route), answer |-> {}]
<1>1. requests \in Seq(RequestRecords) /\ Len(requests) \in Nat
      /\ DOMAIN requests = 1..Len(requests) /\ MaxRequests \in Nat
    BY LenProperties, ContimeAssumption DEF TypeOK
<1>2. Earlier(op, route) \in SUBSET (1..MaxRequests)
    BY <1>1 DEF Earlier
<1>3. q \in RequestRecords
    <2>1. <<>> \in Seq(Replies)
        OBVIOUS
    <2> HIDE DEF Earlier
    <2>2. QED BY <1>2, <2>1 DEF RequestRecords, Replies, RouteParts
<1>4. requests' = Append(requests, q) /\ Len(requests) < MaxRequests
    BY DEF Begin
<1> HIDE DEF q
<1>5. /\ requests' \in Seq(RequestRecords) /\ Len(requests') = Len(requests) + 1
      /\ \A j \in 1..Len(requests) : requests'[j] = requests[j]
      /\ requests'[Len(requests) + 1] = q
    BY <1>1, <1>3, <1>4, AppendProperties
<1>6. DOMAIN requests' = 1..(Len(requests) + 1)
    BY <1>5, LenProperties
<1>7. QED BY <1>1, <1>4, <1>5, <1>6 DEF q

(***************************************************************************)
(* The replies to the messages in M are lost, everything else stays.       *)
(***************************************************************************)
Loses(M, before, after) ==
    /\ after \in Seq(RequestRecords) /\ Len(after) = Len(before)
    /\ DOMAIN after = DOMAIN before
    /\ \A r \in DOMAIN before :
          /\ after[r].op = before[r].op /\ after[r].event = before[r].event
          /\ after[r].route = before[r].route
          /\ after[r].earlier = before[r].earlier
          /\ after[r].status = before[r].status /\ after[r].answer = before[r].answer
          /\ Len(after[r].replies) = Len(before[r].replies)
          /\ DOMAIN after[r].replies = DOMAIN before[r].replies
          /\ \A i \in DOMAIN before[r].replies :
                after[r].replies[i] =
                  IF Part(r, i) \in M THEN "lost" ELSE before[r].replies[i]

LEMMA LoseEffect ==
    ASSUME NEW reqs \in Seq(RequestRecords), NEW M
    PROVE  Loses(M, reqs, Lose(M, reqs))
<1> DEFINE after == Lose(M, reqs)
           lost(r) == [i \in DOMAIN reqs[r].replies |->
                          IF Part(r, i) \in M THEN "lost" ELSE reqs[r].replies[i]]
<1>1. Len(reqs) \in Nat /\ DOMAIN reqs = 1..Len(reqs)
      /\ \A r \in DOMAIN reqs : reqs[r] \in RequestRecords
    BY LenProperties, ElementOfSeq
<1>2. ASSUME NEW r \in DOMAIN reqs
      PROVE  after[r] = [op |-> reqs[r].op, event |-> reqs[r].event,
                         route |-> reqs[r].route, replies |-> lost(r),
                         status |-> reqs[r].status, earlier |-> reqs[r].earlier,
                         answer |-> reqs[r].answer]
    BY <1>1 DEF Lose, RequestRecords, Part
<1>3. ASSUME NEW r \in DOMAIN reqs
      PROVE  /\ lost(r) \in Seq(Replies) /\ Len(lost(r)) = Len(reqs[r].replies)
             /\ DOMAIN lost(r) = DOMAIN reqs[r].replies
    <2>1. reqs[r].replies \in Seq(Replies)
        BY <1>1 DEF RequestRecords, Replies
    <2>2. Len(reqs[r].replies) \in Nat /\ DOMAIN reqs[r].replies = 1..Len(reqs[r].replies)
          /\ \A i \in 1..Len(reqs[r].replies) : reqs[r].replies[i] \in Replies
        BY <2>1, LenProperties, ElementOfSeq
    <2>3. lost(r) \in [1..Len(reqs[r].replies) -> Replies]
        BY <2>2 DEF Replies
    <2>4. QED BY <2>2, <2>3, IsASeq
<1>4. \A r \in DOMAIN reqs : after[r] \in RequestRecords
    <2> SUFFICES ASSUME NEW r \in DOMAIN reqs PROVE after[r] \in RequestRecords
        OBVIOUS
    <2>1. PICK replies \in Seq(Replies) : replies = lost(r)
        BY <1>3
    <2>2. after[r] = [op |-> reqs[r].op, event |-> reqs[r].event,
                      route |-> reqs[r].route, replies |-> replies,
                      status |-> reqs[r].status, earlier |-> reqs[r].earlier,
                      answer |-> reqs[r].answer]
        BY <1>2, <2>1
    <2>3. reqs[r] \in RequestRecords
        BY <1>1
    <2> HIDE DEF lost, after
    <2>4. QED BY <2>2, <2>3 DEF RequestRecords, Replies
<1>5. after \in [1..Len(reqs) -> RequestRecords] /\ DOMAIN after = DOMAIN reqs
    BY <1>1, <1>4 DEF Lose
<1>6. after \in Seq(RequestRecords) /\ Len(after) = Len(reqs)
    <2> HIDE DEF after
    <2>1. QED BY <1>1, <1>5, IsASeq
<1>7. ASSUME NEW r \in DOMAIN reqs
      PROVE  \A i \in DOMAIN reqs[r].replies :
                lost(r)[i] = IF Part(r, i) \in M THEN "lost" ELSE reqs[r].replies[i]
    OBVIOUS
<1>8. ASSUME NEW r \in DOMAIN reqs
      PROVE  /\ after[r].op = reqs[r].op /\ after[r].event = reqs[r].event
             /\ after[r].route = reqs[r].route /\ after[r].earlier = reqs[r].earlier
             /\ after[r].status = reqs[r].status /\ after[r].answer = reqs[r].answer
             /\ after[r].replies = lost(r)
    <2>1. PICK replies : replies = lost(r)
        OBVIOUS
    <2>2. after[r] = [op |-> reqs[r].op, event |-> reqs[r].event,
                      route |-> reqs[r].route, replies |-> replies,
                      status |-> reqs[r].status, earlier |-> reqs[r].earlier,
                      answer |-> reqs[r].answer]
        BY <1>2, <2>1
    <2> HIDE DEF after, lost
    <2>3. QED BY <2>1, <2>2
<1> HIDE DEF after, lost
<1>9. Loses(M, reqs, after)
    BY <1>3, <1>5, <1>6, <1>7, <1>8 DEF Loses
<1>10. QED BY <1>9 DEF after

-----------------------------------------------------------------------------
(***************************************************************************)
(* The steps keep the invariant.  What a request asks for never changes.   *)
(***************************************************************************)
Keeps(q) ==
    /\ q \in DOMAIN requests'
    /\ requests'[q].op = requests[q].op /\ requests'[q].event = requests[q].event
    /\ requests'[q].route = requests[q].route
    /\ requests'[q].earlier = requests[q].earlier

LEMMA KeepsParts ==
    ASSUME NEW q, Keeps(q)
    PROVE  /\ IsUpdate(q)' = IsUpdate(q) /\ Targets(q)' = Targets(q)
           /\ WellRouted(requests[q]) => WellRouted(requests[q])'
           /\ \A i : WorkerOf(q, i)' = WorkerOf(q, i)
<1>1. IsUpdate(q)' = IsUpdate(q)
    BY DEF Keeps, IsUpdate
<1>2. Targets(q)' = Targets(q)
    BY Zenon DEF Keeps, Targets
<1>3. WellRouted(requests[q]) => WellRouted(requests[q])'
    BY Zenon DEF Keeps, WellRouted
<1>4. \A i : WorkerOf(q, i)' = WorkerOf(q, i)
    BY DEF Keeps, WorkerOf
<1>5. QED BY <1>1, <1>2, <1>3, <1>4

LEMMA AccountedType ==
    ASSUME RequestsAccounted
    PROVE  /\ TypeOK /\ requests \in Seq(RequestRecords)
           /\ DOMAIN inbound = Workers
           /\ \A w \in Workers :
                 /\ inbound[w] \in Seq([request : 0..MaxRequests, part : Nat])
                 /\ Len(inbound[w]) \in Nat
                 /\ DOMAIN inbound[w] = 1..Len(inbound[w])
           /\ \A r \in DOMAIN requests : \A i \in DOMAIN requests[r].replies :
                 i \in DOMAIN requests[r].route /\ WorkerOf(r, i) \in Workers
<1>1. TypeOK /\ requests \in Seq(RequestRecords)
    BY DEF RequestsAccounted, TypeOK
<1>2. DOMAIN inbound = Workers
      /\ \A w \in Workers : inbound[w] \in Seq([request : 0..MaxRequests, part : Nat])
    BY <1>1 DEF TypeOK
<1>3. \A w \in Workers : Len(inbound[w]) \in Nat /\ DOMAIN inbound[w] = 1..Len(inbound[w])
    BY <1>2, LenProperties
<1>4. ASSUME NEW r \in DOMAIN requests, NEW i \in DOMAIN requests[r].replies
      PROVE  i \in DOMAIN requests[r].route /\ WorkerOf(r, i) \in Workers
    <2>1. Len(requests[r].replies) <= Len(requests[r].route)
        BY DEF RequestsAccounted, SentInFull
    <2>2. QED BY <1>1, <2>1, RequestFields
<1>5. QED BY <1>1, <1>2, <1>3, <1>4

(***************************************************************************)
(* A call fails, or a wait ends: only the status of a request changes.     *)
(***************************************************************************)
LEMMA StatusAccounted ==
    ASSUME RequestsAccounted, TypeOK', NEW r \in DOMAIN requests,
           NEW status \in {"ok", "error", "worker_dropped"},
           Becomes(r, requests[r].replies, status, requests[r].answer),
           UNCHANGED <<inbound, thread, history_by_id>>,
           \A c \in Clients : call'[c] # 0 => call'[c] = call[c] /\ call'[c] # r,
           status = "error" => requests[r].status = "sending",
           status \in {"ok", "worker_dropped"} => requests[r].status = "sent",
           status = "ok" => \A i \in DOMAIN requests[r].replies :
                              requests[r].replies[i] = "done",
           status \in {"error", "worker_dropped"}
             => \E i \in DOMAIN requests[r].route : ~Running(WorkerOf(r, i))
    PROVE  RequestsAccounted'
<1>1. /\ DOMAIN requests' = DOMAIN requests /\ Len(requests') = Len(requests)
      /\ \A q \in DOMAIN requests : q # r => requests'[q] = requests[q]
      /\ requests'[r].replies = requests[r].replies /\ requests'[r].status = status
      /\ requests'[r].answer = requests[r].answer
    BY DEF Becomes
<1>2. \A q \in DOMAIN requests : Keeps(q)
    BY <1>1 DEF Becomes, Keeps
<1>3. \A q \in DOMAIN requests :
         /\ IsUpdate(q)' = IsUpdate(q) /\ Targets(q)' = Targets(q)
         /\ WellRouted(requests[q]) => WellRouted(requests[q])'
         /\ \A i : WorkerOf(q, i)' = WorkerOf(q, i)
    BY <1>2, KeepsParts
<1>4. \A q \in DOMAIN requests :
         /\ requests'[q].op = requests[q].op
         /\ requests'[q].route = requests[q].route
         /\ requests'[q].earlier = requests[q].earlier
         /\ requests'[q].replies = requests[q].replies
         /\ requests'[q].answer = requests[q].answer
    BY <1>1, <1>2 DEF Keeps
<1>5. \A w : Running(w)' = Running(w)
    BY DEF Running
<1>6. \A q \in DOMAIN requests : Sent(q) => Sent(q)'
    BY <1>1 DEF Sent
<1>7. /\ inbound' = inbound /\ history_by_id' = history_by_id
      /\ \A w \in Workers : \A j \in DOMAIN inbound[w] :
             inbound[w][j] # Shutdown => inbound[w][j].request \in DOMAIN requests
    BY DEF RequestsAccounted, QueuedOnce
<1>8. \A q \in DOMAIN requests : SentInFull(q)'
    BY <1>1, <1>3, <1>4 DEF RequestsAccounted, SentInFull, Sent
<1>9. \A q \in DOMAIN requests : EarlierIsSent(q)'
    BY <1>1, <1>3, <1>4, <1>6 DEF RequestsAccounted, EarlierIsSent
<1>10. \A q \in DOMAIN requests : FailedIsReal(q)'
    BY <1>1, <1>3, <1>4, <1>5 DEF RequestsAccounted, FailedIsReal
<1>11. CallsAreOwn'
    BY <1>1 DEF RequestsAccounted, CallsAreOwn
<1>12. QueuedOnce'
    BY <1>1, <1>3, <1>4, <1>7 DEF RequestsAccounted, QueuedOnce
<1>13. EarlierIsAhead'
    BY <1>3, <1>4, <1>7, <1>9, <1>1 DEF RequestsAccounted, EarlierIsAhead, EarlierIsSent
<1>14. ASSUME NEW q \in DOMAIN requests, NEW i \in DOMAIN requests[q].replies
      PROVE  PendingIsQueued(q, i)' /\ LostIsReal(q, i)' /\ DoneIsInEffect(q, i)'
    <2>1. PendingIsQueued(q, i) /\ LostIsReal(q, i) /\ DoneIsInEffect(q, i)
        BY DEF RequestsAccounted
    <2>2. PendingIsQueued(q, i)'
        BY <1>3, <1>4, <1>7, <2>1 DEF PendingIsQueued
    <2>3. LostIsReal(q, i)'
        BY <1>3, <1>4, <1>5, <2>1 DEF LostIsReal
    <2>4. \A e \in requests[q].earlier : e \in DOMAIN requests
        BY DEF RequestsAccounted, EarlierIsSent
    <2>5. DoneIsInEffect(q, i)'
        BY <1>3, <1>4, <1>5, <1>7, <2>1, <2>4 DEF DoneIsInEffect, Shows, Advances
    <2>6. QED BY <2>2, <2>3, <2>5
<1>15. HistoriesKeepTheirType'
    BY <1>7 DEF RequestsAccounted, HistoriesKeepTheirType
<1>16. QED BY <1>1, <1>4, <1>8, <1>9, <1>10, <1>11, <1>12, <1>13, <1>14, <1>15
           DEF RequestsAccounted

(***************************************************************************)
(* A thread goes on to receive, the drop begins or goes on: the requests   *)
(* stay, and a channel gets at most a Shutdown.                            *)
(***************************************************************************)
LEMMA FrameAccounted ==
    ASSUME RequestsAccounted, TypeOK',
           UNCHANGED <<requests, call, history_by_id>>,
           \A w \in Workers : Running(w)' = Running(w),
           \A w \in Workers :
              /\ DOMAIN inbound[w] \subseteq DOMAIN inbound'[w]
              /\ \A j \in DOMAIN inbound[w] : inbound'[w][j] = inbound[w][j]
              /\ \A j \in DOMAIN inbound'[w] :
                    j \in DOMAIN inbound[w] \/ inbound'[w][j] = Shutdown
    PROVE  RequestsAccounted'
<1>1. /\ requests' = requests /\ history_by_id' = history_by_id /\ call' = call
      /\ \A q \in DOMAIN requests : Keeps(q)
    BY DEF Keeps
<1>2. \A q \in DOMAIN requests :
         /\ IsUpdate(q)' = IsUpdate(q) /\ Targets(q)' = Targets(q)
         /\ WellRouted(requests[q]) => WellRouted(requests[q])'
         /\ \A i : WorkerOf(q, i)' = WorkerOf(q, i)
    BY <1>1, KeepsParts
<1>3. \A w \in Workers : \A j \in DOMAIN inbound[w] :
         inbound[w][j] # Shutdown => inbound[w][j].request \in DOMAIN requests
    BY DEF RequestsAccounted, QueuedOnce
<1>4. \A q \in DOMAIN requests : SentInFull(q)'
    BY <1>1, <1>2 DEF RequestsAccounted, SentInFull, Sent
<1>5. \A q \in DOMAIN requests : EarlierIsSent(q)'
    BY <1>1, <1>2 DEF RequestsAccounted, EarlierIsSent, Sent
<1>6. \A q \in DOMAIN requests : \A i \in DOMAIN requests[q].route :
         WorkerOf(q, i) \in Workers
    BY AccountedType, RequestFields
<1>7. \A q \in DOMAIN requests : FailedIsReal(q)'
    BY <1>1, <1>2, <1>6 DEF RequestsAccounted, FailedIsReal
<1>8. CallsAreOwn'
    BY <1>1 DEF RequestsAccounted, CallsAreOwn
<1>9. QueuedOnce'
    BY <1>1, <1>2, <1>3 DEF RequestsAccounted, QueuedOnce
<1>10. EarlierIsAhead'
    <2> SUFFICES ASSUME NEW w \in Workers, NEW j \in DOMAIN inbound'[w],
                        inbound'[w][j] # Shutdown,
                        NEW e \in requests[inbound'[w][j].request].earlier,
                        NEW i \in DOMAIN requests[e].replies,
                        requests[e].replies[i] = "pending", WorkerOf(e, i)' = w
                 PROVE  \E k \in 1..(j - 1) : inbound'[w][k] = Part(e, i)
        BY <1>1 DEF EarlierIsAhead, Part
    <2>1. j \in DOMAIN inbound[w] /\ inbound'[w][j] = inbound[w][j]
        OBVIOUS
    <2>2. inbound[w][j].request \in DOMAIN requests
        BY <1>3, <2>1
    <2>3. e \in DOMAIN requests
        BY <2>1, <2>2 DEF RequestsAccounted, EarlierIsSent
    <2>4. WorkerOf(e, i) = w
        BY <1>2, <2>3
    <2>5. PICK k \in 1..(j - 1) : inbound[w][k] = Part(e, i)
        BY <2>1, <2>4 DEF RequestsAccounted, EarlierIsAhead
    <2>6. k \in DOMAIN inbound[w]
        BY <2>1, <2>5, AccountedType
    <2>7. QED BY <2>5, <2>6
<1>11. ASSUME NEW q \in DOMAIN requests, NEW i \in DOMAIN requests[q].replies
       PROVE  PendingIsQueued(q, i)' /\ LostIsReal(q, i)' /\ DoneIsInEffect(q, i)'
    <2>1. /\ PendingIsQueued(q, i) /\ LostIsReal(q, i) /\ DoneIsInEffect(q, i)
          /\ WorkerOf(q, i) \in Workers
        BY AccountedType DEF RequestsAccounted
    <2>2. PendingIsQueued(q, i)'
        BY <1>1, <1>2, <2>1 DEF PendingIsQueued, Part
    <2>3. LostIsReal(q, i)'
        BY <1>1, <1>2, <2>1 DEF LostIsReal
    <2>4. \A e \in requests[q].earlier : e \in DOMAIN requests
        BY DEF RequestsAccounted, EarlierIsSent
    <2>5. DoneIsInEffect(q, i)'
        BY <1>1, <1>2, <2>1, <2>4 DEF DoneIsInEffect, Shows, Advances
    <2>6. QED BY <2>2, <2>3, <2>5
<1>12. HistoriesKeepTheirType'
    BY <1>1 DEF RequestsAccounted, HistoriesKeepTheirType
<1>13. QED BY <1>1, <1>4, <1>5, <1>7, <1>8, <1>9, <1>10, <1>11, <1>12
           DEF RequestsAccounted

(***************************************************************************)
(* A new request has no parts yet.                                         *)
(***************************************************************************)
LEMMA BeginAccounted ==
    ASSUME RequestsAccounted, TypeOK', NEW c \in Clients,
           NEW op \in {"event", "snapshot", "query", "advance"},
           NEW event \in SUBSET EventLanes, NEW route \in Seq(RouteParts),
           Begin(c, op, event, route),
           WellRouted([op |-> op, event |-> event, route |-> route, replies |-> <<>>,
                       status |-> "sending", earlier |-> Earlier(op, route),
                       answer |-> {}]),
           Len(route) \in Nat \ {0}
    PROVE  RequestsAccounted'
<1> DEFINE request == [op |-> op, event |-> event, route |-> route, replies |-> <<>>,
                       status |-> "sending", earlier |-> Earlier(op, route),
                       answer |-> {}]
<1>0. PICK new, q0 : new = Len(requests) + 1 /\ q0 = request
    OBVIOUS
<1>1. /\ DOMAIN requests' = DOMAIN requests \cup {new} /\ new \notin DOMAIN requests
      /\ new # 0 /\ Len(requests') <= MaxRequests
      /\ \A q \in DOMAIN requests : requests'[q] = requests[q]
      /\ requests'[new] = q0
    <2>1. TypeOK /\ Len(requests) <= MaxRequests /\ Len(requests) \in Nat
        BY AccountedType, LenProperties DEF RequestsAccounted
    <2>2. /\ DOMAIN requests' = DOMAIN requests \cup {Len(requests) + 1}
          /\ Len(requests) + 1 \notin DOMAIN requests /\ Len(requests') <= MaxRequests
          /\ \A q \in DOMAIN requests : requests'[q] = requests[q]
          /\ requests'[Len(requests) + 1] = request
        BY <2>1, BeginEffect
    <2> HIDE DEF request
    <2>3. QED BY <1>0, <2>1, <2>2
<1>2. /\ inbound' = inbound /\ history_by_id' = history_by_id /\ thread' = thread
      /\ call' = [call EXCEPT ![c] = new]
    BY <1>0 DEF Begin
<1>3. /\ q0.op = op /\ q0.route = route /\ q0.replies = <<>> /\ q0.status = "sending"
      /\ q0.earlier = Earlier(op, route) /\ Len(q0.replies) = 0 /\ DOMAIN q0.replies = {}
      /\ WellRouted(q0)
    BY <1>0
<1>4. \A e \in Earlier(op, route) :
         /\ e \in DOMAIN requests /\ IsUpdate(e) /\ Sent(e)
         /\ op = "query" => route[1].id \in Targets(e)
    BY DEF Earlier, IsUpdate
<1> HIDE DEF request
<1>5. \A q \in DOMAIN requests : Keeps(q) /\ requests'[q] = requests[q]
    BY <1>1 DEF Keeps
<1>6. \A q \in DOMAIN requests :
         /\ IsUpdate(q)' = IsUpdate(q) /\ Targets(q)' = Targets(q)
         /\ WellRouted(requests[q]) => WellRouted(requests[q])'
         /\ \A i : WorkerOf(q, i)' = WorkerOf(q, i)
    BY <1>5, KeepsParts
<1>7. \A q \in DOMAIN requests : Sent(q)' = Sent(q)
    BY <1>5 DEF Sent
<1>8. \A w : Running(w)' = Running(w)
    BY <1>2 DEF Running
<1>9. \A w \in Workers : \A j \in DOMAIN inbound[w] :
         inbound[w][j] # Shutdown => inbound[w][j].request \in DOMAIN requests
    BY DEF RequestsAccounted, QueuedOnce
<1>10. ASSUME NEW q \in DOMAIN requests
       PROVE  SentInFull(q)' /\ EarlierIsSent(q)' /\ FailedIsReal(q)'
    <2>1. SentInFull(q)'
        BY <1>5, <1>6, <1>7 DEF RequestsAccounted, SentInFull
    <2>2. EarlierIsSent(q)'
        BY <1>1, <1>5, <1>6, <1>7 DEF RequestsAccounted, EarlierIsSent
    <2>3. FailedIsReal(q)'
        BY <1>5, <1>6, <1>8 DEF RequestsAccounted, FailedIsReal
    <2>4. QED BY <2>1, <2>2, <2>3
<1>11. SentInFull(new)' /\ EarlierIsSent(new)' /\ FailedIsReal(new)'
    <2>1. WellRouted(requests[new])'
        BY <1>1, <1>3 DEF WellRouted
    <2>2. SentInFull(new)'
        BY <1>1, <1>3, <2>1 DEF SentInFull, Sent
    <2>3. EarlierIsSent(new)'
        BY <1>1, <1>3, <1>4, <1>6, <1>7 DEF EarlierIsSent
    <2>4. QED BY <1>1, <1>3, <2>2, <2>3 DEF FailedIsReal
<1>12. CallsAreOwn'
    <2> SUFFICES ASSUME NEW d \in Clients, call'[d] # 0
                 PROVE  /\ call'[d] \in DOMAIN requests'
                        /\ requests'[call'[d]].status = "sending"
                        /\ \A b \in Clients : call'[b] = call'[d] => b = d
        BY DEF CallsAreOwn
    <2>1. call \in [Clients -> 0..MaxRequests] /\ CallsAreOwn
        BY AccountedType DEF TypeOK, RequestsAccounted
    <2>2. \A b \in Clients : call'[b] = IF b = c THEN new ELSE call[b]
        BY <1>2, <2>1
    <2>3. \A b \in Clients : call[b] # new
        BY <1>1, <2>1 DEF CallsAreOwn
    <2>4. CASE d = c
        BY <1>1, <1>3, <2>2, <2>3, <2>4
    <2>5. CASE d # c
        BY <1>1, <1>5, <2>1, <2>2, <2>3, <2>5 DEF CallsAreOwn
    <2>6. QED BY <2>4, <2>5
<1>13. QueuedOnce'
    BY <1>1, <1>2, <1>5, <1>6, <1>9 DEF RequestsAccounted, QueuedOnce
<1>14. EarlierIsAhead'
    BY <1>2, <1>5, <1>6, <1>9 DEF RequestsAccounted, EarlierIsAhead, EarlierIsSent
<1>15. ASSUME NEW q \in DOMAIN requests, NEW i \in DOMAIN requests[q].replies
       PROVE  PendingIsQueued(q, i)' /\ LostIsReal(q, i)' /\ DoneIsInEffect(q, i)'
    <2>1. PendingIsQueued(q, i) /\ LostIsReal(q, i) /\ DoneIsInEffect(q, i)
        BY DEF RequestsAccounted
    <2>2. PendingIsQueued(q, i)'
        BY <1>2, <1>5, <1>6, <2>1 DEF PendingIsQueued
    <2>3. LostIsReal(q, i)'
        BY <1>5, <1>6, <1>8, <2>1 DEF LostIsReal
    <2>4. \A e \in requests[q].earlier : e \in DOMAIN requests
        BY DEF RequestsAccounted, EarlierIsSent
    <2>5. DoneIsInEffect(q, i)'
        BY <1>2, <1>5, <1>6, <1>8, <2>1, <2>4 DEF DoneIsInEffect, Shows, Advances
    <2>6. QED BY <2>2, <2>3, <2>5
<1>16. HistoriesKeepTheirType'
    BY <1>2 DEF RequestsAccounted, HistoriesKeepTheirType
<1>17. \A q \in DOMAIN requests' :
          /\ SentInFull(q)' /\ EarlierIsSent(q)' /\ FailedIsReal(q)'
          /\ \A i \in DOMAIN requests'[q].replies :
                PendingIsQueued(q, i)' /\ LostIsReal(q, i)' /\ DoneIsInEffect(q, i)'
    BY <1>1, <1>3, <1>5, <1>10, <1>11, <1>15
<1>18. QED BY <1>1, <1>12, <1>13, <1>14, <1>16, <1>17 DEF RequestsAccounted

LEMMA Appended ==
    ASSUME NEW S, NEW s \in Seq(S), NEW x \in S, NEW t, t = Append(s, x)
    PROVE  /\ Len(s) \in Nat /\ DOMAIN s = 1..Len(s)
           /\ DOMAIN t = 1..(Len(s) + 1) /\ t[Len(s) + 1] = x
           /\ \A j \in DOMAIN s : j \in DOMAIN t /\ t[j] = s[j]
                                  /\ j \in 1..((Len(s) + 1) - 1) /\ j # Len(s) + 1
           /\ \A j \in DOMAIN t : j \in DOMAIN s \/ j = Len(s) + 1
<1>1. Len(s) \in Nat /\ DOMAIN s = 1..Len(s)
    BY LenProperties
<1>2. /\ t \in Seq(S) /\ Len(t) = Len(s) + 1 /\ t[Len(s) + 1] = x
      /\ \A j \in 1..Len(s) : t[j] = s[j]
    BY AppendProperties
<1>3. DOMAIN t = 1..(Len(s) + 1)
    BY <1>2, LenProperties
<1>4. QED BY <1>1, <1>2, <1>3

(***************************************************************************)
(* A part that is sent is pending, and the last in its channel.  Nobody    *)
(* began after its request: that is still being sent.                      *)
(***************************************************************************)
LEMMA SendAccounted ==
    ASSUME RequestsAccounted, TypeOK', NEW c \in Clients, Send(c)
    PROVE  RequestsAccounted'
<1>1. PICK r, n, part, w, st, end :
         /\ r = call[c] /\ n = Len(requests[r].replies) /\ part = n + 1
         /\ w = requests[r].route[part].worker
         /\ st = IF part = Len(requests[r].route) THEN "sent" ELSE requests[r].status
         /\ end = Len(inbound[w]) + 1
    OBVIOUS
<1>2. /\ TypeOK /\ CallsAreOwn /\ r # 0 /\ r \in DOMAIN requests
      /\ requests[r].status = "sending"
    BY <1>1, AccountedType DEF RequestsAccounted, CallsAreOwn, Send
<1>3. /\ n \in Nat /\ DOMAIN requests[r].replies = 1..n
      /\ requests[r].replies \in Seq(Replies)
      /\ Len(requests[r].route) \in Nat /\ n < Len(requests[r].route)
      /\ part \in DOMAIN requests[r].route /\ WorkerOf(r, part) = w /\ w \in Workers
    <2>1. n < Len(requests[r].route)
        BY <1>1, <1>2 DEF RequestsAccounted, SentInFull
    <2>2. QED BY <1>1, <1>2, <2>1, RequestFields DEF TypeOK, WorkerOf
<1>4. /\ Becomes(r, Append(requests[r].replies, "pending"), st, requests[r].answer)
      /\ call' = [call EXCEPT ![c] = IF part = Len(requests[r].route) THEN 0 ELSE r]
      /\ inbound' = [inbound EXCEPT ![w] = Append(inbound[w], Part(r, part))]
      /\ thread' = thread /\ history_by_id' = history_by_id
    BY <1>1, <1>2, SendEffect
<1>5. /\ DOMAIN requests' = DOMAIN requests /\ Len(requests') = Len(requests)
      /\ \A q \in DOMAIN requests : q # r => requests'[q] = requests[q]
      /\ requests'[r].status = st /\ requests'[r].answer = requests[r].answer
      /\ requests'[r].replies = Append(requests[r].replies, "pending")
    BY <1>4 DEF Becomes
<1>6. \A q \in DOMAIN requests : Keeps(q)
    BY <1>4, <1>5 DEF Becomes, Keeps
<1>7. \A q \in DOMAIN requests :
         /\ IsUpdate(q)' = IsUpdate(q) /\ Targets(q)' = Targets(q)
         /\ WellRouted(requests[q]) => WellRouted(requests[q])'
         /\ \A i : WorkerOf(q, i)' = WorkerOf(q, i)
    BY <1>6, KeepsParts
<1>8. \A q \in DOMAIN requests :
         /\ requests'[q].op = requests[q].op
         /\ requests'[q].route = requests[q].route
         /\ requests'[q].earlier = requests[q].earlier
         /\ requests'[q].answer = requests[q].answer
    BY <1>5, <1>6 DEF Keeps
<1>9. /\ Len(requests'[r].replies) = part /\ DOMAIN requests'[r].replies = 1..part
      /\ requests'[r].replies[part] = "pending"
      /\ \A i \in 1..n : requests'[r].replies[i] = requests[r].replies[i]
    <2>1. "pending" \in Replies
        BY DEF Replies
    <2>2. QED BY <1>1, <1>3, <1>5, <2>1, AppendProperties, LenProperties
<1>10. ASSUME NEW q \in DOMAIN requests
       PROVE  /\ \A i \in DOMAIN requests[q].replies :
                    i \in DOMAIN requests'[q].replies
                    /\ requests'[q].replies[i] = requests[q].replies[i]
              /\ \A i \in DOMAIN requests'[q].replies :
                    i \in DOMAIN requests[q].replies \/ (q = r /\ i = part)
    <2>1. CASE q = r
        <3>1. 1..part = 1..n \cup {part}
            BY <1>1, <1>3
        <3>2. QED BY <1>3, <1>9, <2>1, <3>1
    <2>2. CASE q # r
        BY <1>5, <2>2
    <2>3. QED BY <2>1, <2>2
<1>11. /\ inbound'[w] = Append(inbound[w], Part(r, part))
       /\ \A v \in Workers : v # w => inbound'[v] = inbound[v]
       /\ inbound[w] \in Seq([request : 0..MaxRequests, part : Nat])
       /\ Part(r, part) \in [request : 0..MaxRequests, part : Nat]
    <2>1. inbound \in [Workers -> Seq([request : 0..MaxRequests, part : Nat])]
        BY <1>2 DEF TypeOK
    <2>2. r \in 0..MaxRequests /\ part \in Nat
        BY <1>1, <1>2, <1>3 DEF TypeOK
    <2>3. QED BY <1>3, <1>4, <2>1, <2>2 DEF Part
<1>12. /\ \A v \in Workers :
             /\ \A j \in DOMAIN inbound[v] :
                   j \in DOMAIN inbound'[v] /\ inbound'[v][j] = inbound[v][j]
             /\ \A j \in DOMAIN inbound'[v] : j \in DOMAIN inbound[v] \/ (v = w /\ j = end)
       /\ end \in DOMAIN inbound'[w] /\ inbound'[w][end] = Part(r, part)
       /\ \A k \in DOMAIN inbound[w] : k \in 1..(end - 1) /\ k # end
    <2>1. PICK S, s, x, t : /\ S = [request : 0..MaxRequests, part : Nat]
                            /\ s = inbound[w] /\ x = Part(r, part) /\ t = inbound'[w]
        OBVIOUS
    <2>2. s \in Seq(S) /\ x \in S /\ t = Append(s, x) /\ end = Len(s) + 1
        BY <1>1, <1>11, <2>1
    <2>3. /\ Len(s) \in Nat
          /\ DOMAIN t = 1..(Len(s) + 1) /\ t[Len(s) + 1] = x
          /\ \A j \in DOMAIN s : j \in DOMAIN t /\ t[j] = s[j]
                                 /\ j \in 1..((Len(s) + 1) - 1) /\ j # Len(s) + 1
          /\ \A j \in DOMAIN t : j \in DOMAIN s \/ j = Len(s) + 1
        BY <2>2, Appended
    <2>4. /\ DOMAIN t = 1..end /\ t[end] = x /\ end \in 1..end
          /\ \A j \in DOMAIN s : j \in DOMAIN t /\ t[j] = s[j]
                                 /\ j \in 1..(end - 1) /\ j # end
          /\ \A j \in DOMAIN t : j \in DOMAIN s \/ j = end
        BY <2>2, <2>3
    <2>5. QED BY <1>11, <2>1, <2>4
<1>13. part \in Nat /\ part \notin DOMAIN requests[r].replies /\ Part(r, part) # Shutdown
       /\ Part(r, part).request = r /\ Part(r, part).part = part
    BY <1>1, <1>2, <1>3 DEF Part, Shutdown
<1>14. \A v \in Workers : \A j \in DOMAIN inbound[v] : inbound[v][j] # Shutdown
          => /\ inbound[v][j].request \in DOMAIN requests
             /\ inbound[v][j].part \in DOMAIN requests[inbound[v][j].request].replies
             /\ inbound[v][j] # Part(r, part)
    BY <1>13 DEF RequestsAccounted, QueuedOnce
<1>15. \A q \in DOMAIN requests :
          /\ Sent(q) => Sent(q)'
          /\ \A e \in requests[q].earlier : e \in DOMAIN requests /\ e # r
    <2>1. \A q \in DOMAIN requests : Sent(q) => q # r
        BY <1>2 DEF Sent
    <2>2. \A q \in DOMAIN requests : Sent(q) => Sent(q)'
        BY <1>5, <2>1 DEF Sent
    <2>3. QED BY <2>1, <2>2 DEF RequestsAccounted, EarlierIsSent
<1>16. \A v : Running(v)' = Running(v)
    BY <1>4 DEF Running
<1>17. ASSUME NEW q \in DOMAIN requests
       PROVE  SentInFull(q)' /\ EarlierIsSent(q)' /\ FailedIsReal(q)'
    <2>1. CASE q = r
        <3>1. SentInFull(q) /\ st \in {"sending", "sent"}
            BY <1>1, <1>2 DEF RequestsAccounted
        <3>2. st = "sent" <=> part = Len(requests[r].route)
            BY <1>1, <1>2
        <3>3. SentInFull(q)'
            <4>1. WellRouted(requests[q])'
                BY <1>7, <3>1 DEF SentInFull
            <4>2. part <= Len(requests[r].route)
                  /\ (part # Len(requests[r].route) => part < Len(requests[r].route))
                BY <1>1, <1>3
            <4>3. /\ Len(requests'[q].replies) = part /\ requests'[q].status = st
                  /\ Len(requests'[q].route) = Len(requests[r].route)
                BY <1>5, <1>8, <1>9, <2>1
            <4>4. QED BY <3>1, <3>2, <4>1, <4>2, <4>3 DEF SentInFull, Sent
        <3>4. FailedIsReal(q)'
            BY <1>5, <2>1, <3>1 DEF FailedIsReal
        <3>5. EarlierIsSent(q)'
            BY <1>5, <1>7, <1>8, <1>15 DEF RequestsAccounted, EarlierIsSent
        <3>6. QED BY <3>3, <3>4, <3>5
    <2>2. CASE q # r
        <3>1. SentInFull(q)'
            BY <1>5, <1>7, <2>2 DEF RequestsAccounted, SentInFull, Sent
        <3>2. FailedIsReal(q)'
            BY <1>5, <1>7, <1>16, <2>2 DEF RequestsAccounted, FailedIsReal
        <3>3. EarlierIsSent(q)'
            BY <1>5, <1>7, <1>8, <1>15 DEF RequestsAccounted, EarlierIsSent
        <3>4. QED BY <3>1, <3>2, <3>3
    <2>3. QED BY <2>1, <2>2
<1>18. CallsAreOwn'
    <2> SUFFICES ASSUME NEW d \in Clients, call'[d] # 0
                 PROVE  /\ call'[d] \in DOMAIN requests'
                        /\ requests'[call'[d]].status = "sending"
                        /\ \A b \in Clients : call'[b] = call'[d] => b = d
        BY DEF CallsAreOwn
    <2>1. \A b \in Clients :
             call'[b] = IF b = c THEN IF part = Len(requests[r].route) THEN 0 ELSE r
                        ELSE call[b]
        BY <1>2, <1>4 DEF TypeOK
    <2>2. call'[d] = call[d]
        BY <1>1, <2>1
    <2>3. requests'[call[d]].status = "sending"
        BY <1>1, <1>2, <1>5, <2>1, <2>2 DEF CallsAreOwn
    <2>4. QED BY <1>1, <1>2, <1>5, <2>1, <2>2, <2>3 DEF CallsAreOwn
<1>19. QueuedOnce'
    <2> SUFFICES ASSUME NEW v \in Workers, NEW j \in DOMAIN inbound'[v],
                        NEW m, m = inbound'[v][j], m # Shutdown
                 PROVE  /\ m.request \in DOMAIN requests'
                        /\ m.part \in DOMAIN requests'[m.request].replies
                        /\ requests'[m.request].replies[m.part] = "pending"
                        /\ WorkerOf(m.request, m.part)' = v
                        /\ \A k \in DOMAIN inbound'[v] : inbound'[v][k] = m => k = j
        BY Zenon DEF QueuedOnce
    <2>1. CASE j \in DOMAIN inbound[v]
        <3>1. m = inbound[v][j]
            BY <1>12, <2>1
        <3>2. /\ m.request \in DOMAIN requests
              /\ m.part \in DOMAIN requests[m.request].replies
              /\ requests[m.request].replies[m.part] = "pending"
              /\ WorkerOf(m.request, m.part) = v /\ m # Part(r, part)
              /\ \A k \in DOMAIN inbound[v] : inbound[v][k] = m => k = j
            BY <1>14, <2>1, <3>1 DEF RequestsAccounted, QueuedOnce
        <3>3. \A k \in DOMAIN inbound'[v] : inbound'[v][k] = m => k = j
            BY <1>12, <3>2
        <3>4. QED BY <1>5, <1>7, <1>10, <3>2, <3>3
    <2>2. CASE v = w /\ j = end
        <3>1. m = Part(r, part)
            BY <1>12, <2>2
        <3>2. \A k \in DOMAIN inbound'[v] : inbound'[v][k] = m => k = j
            BY <1>12, <1>13, <1>14, <2>2, <3>1
        <3>3. part \in 1..part
            BY <1>1, <1>3
        <3>4. QED BY <1>2, <1>3, <1>5, <1>7, <1>9, <1>13, <2>2, <3>1, <3>2, <3>3
    <2>3. QED BY <1>12, <2>1, <2>2
<1>20. EarlierIsAhead'
    <2> SUFFICES ASSUME NEW v \in Workers, NEW j \in DOMAIN inbound'[v],
                        inbound'[v][j] # Shutdown,
                        NEW e \in requests'[inbound'[v][j].request].earlier,
                        NEW i \in DOMAIN requests'[e].replies,
                        requests'[e].replies[i] = "pending", WorkerOf(e, i)' = v
                 PROVE  \E k \in 1..(j - 1) : inbound'[v][k] = Part(e, i)
        BY DEF EarlierIsAhead, Part
    <2>1. CASE j \in DOMAIN inbound[v]
        <3>1. inbound'[v][j] = inbound[v][j] /\ inbound[v][j].request \in DOMAIN requests
            BY <1>12, <1>14, <2>1
        <3>2. e \in requests[inbound[v][j].request].earlier /\ e \in DOMAIN requests /\ e # r
            BY <1>8, <1>15, <3>1
        <3>3. i \in DOMAIN requests[e].replies /\ requests[e].replies[i] = "pending"
              /\ WorkerOf(e, i) = v
            BY <1>5, <1>7, <3>2
        <3>4. PICK k \in 1..(j - 1) : inbound[v][k] = Part(e, i)
            BY <2>1, <3>1, <3>2, <3>3 DEF RequestsAccounted, EarlierIsAhead
        <3>5. k \in DOMAIN inbound[v]
            BY <2>1, <3>4, AccountedType
        <3>6. QED BY <1>12, <3>4, <3>5
    <2>2. CASE v = w /\ j = end
        <3>1. e \in requests[r].earlier /\ e \in DOMAIN requests /\ e # r
            BY <1>2, <1>8, <1>12, <1>13, <1>15, <2>2
        <3>2. i \in DOMAIN requests[e].replies /\ requests[e].replies[i] = "pending"
              /\ WorkerOf(e, i) = v
            BY <1>5, <1>7, <3>1
        <3>3. PICK k \in DOMAIN inbound[v] : inbound[v][k] = Part(e, i)
            BY <3>1, <3>2 DEF RequestsAccounted, PendingIsQueued
        <3>4. QED BY <1>12, <2>2, <3>3
    <2>3. QED BY <1>12, <2>1, <2>2
<1>21. ASSUME NEW q \in DOMAIN requests, NEW i \in DOMAIN requests'[q].replies
       PROVE  PendingIsQueued(q, i)' /\ LostIsReal(q, i)' /\ DoneIsInEffect(q, i)'
    <2>1. CASE i \in DOMAIN requests[q].replies
        <3>1. /\ PendingIsQueued(q, i) /\ LostIsReal(q, i) /\ DoneIsInEffect(q, i)
              /\ WorkerOf(q, i) \in Workers
              /\ requests'[q].replies[i] = requests[q].replies[i]
            BY <1>10, <2>1, AccountedType DEF RequestsAccounted
        <3>2. PendingIsQueued(q, i)'
            BY <1>7, <1>12, <3>1 DEF PendingIsQueued, Part
        <3>3. LostIsReal(q, i)'
            BY <1>7, <1>16, <3>1 DEF LostIsReal
        <3>4. DoneIsInEffect(q, i)'
            BY <1>4, <1>7, <1>8, <1>15, <1>16, <3>1 DEF DoneIsInEffect, Shows, Advances
        <3>5. QED BY <3>2, <3>3, <3>4
    <2>2. CASE q = r /\ i = part
        BY <1>3, <1>7, <1>9, <1>12, <2>2
           DEF PendingIsQueued, LostIsReal, DoneIsInEffect, Part
    <2>3. QED BY <1>10, <2>1, <2>2
<1>22. HistoriesKeepTheirType'
    BY <1>4 DEF RequestsAccounted, HistoriesKeepTheirType
<1>23. QED BY <1>5, <1>17, <1>18, <1>19, <1>20, <1>21, <1>22 DEF RequestsAccounted

(***************************************************************************)
(* A thread ends, or is joined: some of its messages leave the channel and *)
(* those in M are lost; what stays keeps its order.                        *)
(***************************************************************************)
Removes(w, M, d) ==
    /\ \A j \in DOMAIN inbound'[w] :
          /\ j + d \in DOMAIN inbound[w] /\ inbound'[w][j] = inbound[w][j + d]
          /\ inbound'[w][j] # Shutdown => inbound'[w][j] \notin M
    /\ \A j \in DOMAIN inbound[w] :
          inbound[w][j] \in M \cup {Shutdown}
             \/ \E k \in DOMAIN inbound'[w] : inbound'[w][k] = inbound[w][j]
    /\ \A m \in M : m # Shutdown => \E j \in DOMAIN inbound[w] : inbound[w][j] = m

LEMMA EndAccounted ==
    ASSUME RequestsAccounted, TypeOK', NEW w \in Workers, NEW M, NEW d \in Nat,
           Loses(M, requests, requests'), Removes(w, M, d), call' = call,
           \A v \in Workers : v # w => inbound'[v] = inbound[v],
           ~Running(w)', \A v \in Workers : v # w => Running(v)' = Running(v),
           \A v \in Workers : v # w => history_by_id'[v] = history_by_id[v],
           \A id \in DOMAIN history_by_id'[w] :
              id \in DOMAIN history_by_id[w]
              /\ history_by_id'[w][id] = history_by_id[w][id]
    PROVE  RequestsAccounted'
<1>1. /\ DOMAIN requests' = DOMAIN requests /\ Len(requests') = Len(requests)
      /\ \A q \in DOMAIN requests :
            /\ requests'[q].op = requests[q].op /\ requests'[q].route = requests[q].route
            /\ requests'[q].earlier = requests[q].earlier
            /\ requests'[q].status = requests[q].status
            /\ requests'[q].answer = requests[q].answer
            /\ Len(requests'[q].replies) = Len(requests[q].replies)
            /\ DOMAIN requests'[q].replies = DOMAIN requests[q].replies
            /\ \A i \in DOMAIN requests[q].replies :
                  requests'[q].replies[i] =
                     IF Part(q, i) \in M THEN "lost" ELSE requests[q].replies[i]
    BY DEF Loses
<1>2. \A q \in DOMAIN requests : Keeps(q)
    BY <1>1 DEF Loses, Keeps
<1>3. \A q \in DOMAIN requests :
         /\ IsUpdate(q)' = IsUpdate(q) /\ Targets(q)' = Targets(q)
         /\ WellRouted(requests[q]) => WellRouted(requests[q])'
         /\ \A i : WorkerOf(q, i)' = WorkerOf(q, i)
    BY <1>2, KeepsParts
<1>4. \A q \in DOMAIN requests : \A i \in DOMAIN requests[q].replies :
         Part(q, i) \in M => requests[q].replies[i] = "pending" /\ WorkerOf(q, i) = w
    <2> SUFFICES ASSUME NEW q \in DOMAIN requests, NEW i \in DOMAIN requests[q].replies,
                        Part(q, i) \in M
                 PROVE  requests[q].replies[i] = "pending" /\ WorkerOf(q, i) = w
        OBVIOUS
    <2>1. Part(q, i).request = q /\ Part(q, i).part = i /\ Part(q, i) # Shutdown
        BY AccountedType, RequestFields DEF Part, Shutdown
    <2>2. PICK j \in DOMAIN inbound[w] : inbound[w][j] = Part(q, i)
        BY <2>1 DEF Removes
    <2>3. QED BY <2>1, <2>2 DEF RequestsAccounted, QueuedOnce
<1>5. \A q \in DOMAIN requests : Sent(q)' = Sent(q)
    BY <1>1 DEF Sent
<1>6. \A v \in Workers : Running(v)' => Running(v) /\ v # w
    OBVIOUS
<1>7. ASSUME NEW q \in DOMAIN requests
      PROVE  SentInFull(q)' /\ EarlierIsSent(q)' /\ FailedIsReal(q)'
    <2>1. \A i \in DOMAIN requests[q].replies :
             requests[q].replies[i] = "done" => requests'[q].replies[i] = "done"
        BY <1>1, <1>4
    <2>2. SentInFull(q)'
        BY <1>1, <1>3, <1>5, <2>1 DEF RequestsAccounted, SentInFull
    <2>3. EarlierIsSent(q)'
        BY <1>1, <1>3, <1>5 DEF RequestsAccounted, EarlierIsSent
    <2>4. \A i \in DOMAIN requests[q].route : WorkerOf(q, i) \in Workers
        BY AccountedType, RequestFields
    <2>5. FailedIsReal(q)'
        BY <1>1, <1>3, <1>6, <2>4 DEF RequestsAccounted, FailedIsReal
    <2>6. QED BY <2>2, <2>3, <2>5
<1>8. CallsAreOwn'
    BY <1>1 DEF RequestsAccounted, CallsAreOwn
<1>9. ASSUME NEW v \in Workers, NEW j \in DOMAIN inbound'[v]
      PROVE  \E k \in DOMAIN inbound[v] :
                /\ inbound[v][k] = inbound'[v][j]
                /\ inbound'[v][j] # Shutdown => inbound'[v][j] \notin M
    <2>1. CASE v = w
        BY <2>1 DEF Removes
    <2>2. CASE v # w
        <3>1. inbound'[v] = inbound[v]
            BY <2>2
        <3>2. ASSUME inbound[v][j] # Shutdown, inbound[v][j] \in M PROVE FALSE
            <4>1. PICK k \in DOMAIN inbound[w] : inbound[w][k] = inbound[v][j]
                BY <3>2 DEF Removes
            <4>2. QED BY <2>2, <3>1, <3>2, <4>1 DEF RequestsAccounted, QueuedOnce
        <3>3. QED BY <3>1, <3>2
    <2>3. QED BY <2>1, <2>2
<1>10. \A q \in DOMAIN requests : \A i \in DOMAIN requests[q].replies :
          /\ requests[q].replies[i] = "pending" /\ Part(q, i) \notin M
                => requests'[q].replies[i] = "pending"
          /\ requests'[q].replies[i] = "pending"
                => requests[q].replies[i] = "pending" /\ Part(q, i) \notin M
    BY <1>1
<1>11. ASSUME NEW v \in Workers, NEW j \in DOMAIN inbound'[v],
              NEW k \in DOMAIN inbound'[v], inbound'[v][j] = inbound'[v][k],
              inbound'[v][j] # Shutdown
       PROVE  j = k
    <2>1. CASE v = w
        <3>1. /\ j + d \in DOMAIN inbound[w] /\ k + d \in DOMAIN inbound[w]
              /\ inbound[w][j + d] = inbound[w][k + d] /\ inbound[w][j + d] # Shutdown
            BY <1>11, <2>1 DEF Removes
        <3>2. j + d = k + d
            BY <3>1 DEF RequestsAccounted, QueuedOnce
        <3>3. j \in Nat /\ k \in Nat
            <4>1. inbound' \in [Workers -> Seq([request : 0..MaxRequests, part : Nat])]
                BY DEF TypeOK
            <4>2. QED BY <4>1, LenProperties
        <3>4. QED BY <3>2, <3>3
    <2>2. CASE v # w
        <3>1. inbound'[v] = inbound[v]
            BY <2>2
        <3>2. QED BY <1>11, <3>1 DEF RequestsAccounted, QueuedOnce
    <2>3. QED BY <2>1, <2>2
<1>12. QueuedOnce'
    <2> SUFFICES ASSUME NEW v \in Workers, NEW j \in DOMAIN inbound'[v],
                        NEW m, m = inbound'[v][j], m # Shutdown
                 PROVE  /\ m.request \in DOMAIN requests'
                        /\ m.part \in DOMAIN requests'[m.request].replies
                        /\ requests'[m.request].replies[m.part] = "pending"
                        /\ WorkerOf(m.request, m.part)' = v
                        /\ \A k \in DOMAIN inbound'[v] : inbound'[v][k] = m => k = j
        BY Zenon DEF QueuedOnce
    <2>1. PICK k \in DOMAIN inbound[v] : inbound[v][k] = m /\ m \notin M
        BY <1>9
    <2>2. /\ m.request \in DOMAIN requests
          /\ m.part \in DOMAIN requests[m.request].replies
          /\ requests[m.request].replies[m.part] = "pending"
          /\ WorkerOf(m.request, m.part) = v
        BY <2>1 DEF RequestsAccounted, QueuedOnce
    <2>3. m = Part(m.request, m.part)
        <3>1. inbound[v] \in Seq([request : 0..MaxRequests, part : Nat])
            BY AccountedType
        <3>2. m \in [request : 0..MaxRequests, part : Nat]
            <4>1. k \in 1..Len(inbound[v])
                BY AccountedType
            <4>2. inbound[v][k] \in [request : 0..MaxRequests, part : Nat]
                BY <3>1, <4>1, ElementOfSeq
            <4>3. QED BY <2>1, <4>2
        <3>3. QED BY <3>2 DEF Part
    <2>4. QED BY <1>1, <1>3, <1>10, <1>11, <2>1, <2>2, <2>3
<1>13. EarlierIsAhead'
    <2> SUFFICES ASSUME NEW v \in Workers, NEW j \in DOMAIN inbound'[v],
                        inbound'[v][j] # Shutdown,
                        NEW e \in requests'[inbound'[v][j].request].earlier,
                        NEW i \in DOMAIN requests'[e].replies,
                        requests'[e].replies[i] = "pending", WorkerOf(e, i)' = v
                 PROVE  \E k \in 1..(j - 1) : inbound'[v][k] = Part(e, i)
        BY DEF EarlierIsAhead, Part
    <2>1. inbound'[v][j].request \in DOMAIN requests
        BY <1>9 DEF RequestsAccounted, QueuedOnce
    <2>2. e \in requests[inbound'[v][j].request].earlier /\ e \in DOMAIN requests
        BY <1>1, <2>1 DEF RequestsAccounted, EarlierIsSent
    <2>3. /\ i \in DOMAIN requests[e].replies /\ requests[e].replies[i] = "pending"
          /\ WorkerOf(e, i) = v /\ Part(e, i) \notin M
        BY <1>1, <1>3, <1>10, <2>2
    <2>4. CASE v # w
        <3>1. inbound'[v] = inbound[v]
            BY <2>4
        <3>2. QED BY <2>2, <2>3, <3>1 DEF RequestsAccounted, EarlierIsAhead
    <2>5. CASE v = w
        <3>1. /\ j + d \in DOMAIN inbound[w] /\ inbound[w][j + d] = inbound'[v][j]
            BY <2>5 DEF Removes
        <3>2. PICK k \in 1..((j + d) - 1) : inbound[w][k] = Part(e, i)
            BY <2>2, <2>3, <2>5, <3>1 DEF RequestsAccounted, EarlierIsAhead
        <3>3. Part(e, i) # Shutdown /\ e # 0
            BY <2>2, AccountedType, RequestFields DEF Part, Shutdown
        <3>4. k \in DOMAIN inbound[w] /\ j + d \in Nat
            <4>1. PICK end, jd : end = Len(inbound[w]) /\ jd = j + d
                OBVIOUS
            <4>2. end \in Nat /\ DOMAIN inbound[w] = 1..end
                BY <4>1, AccountedType
            <4>3. jd \in 1..end /\ k \in 1..(jd - 1)
                BY <3>1, <3>2, <4>1, <4>2
            <4>4. QED BY <4>1, <4>2, <4>3
        <3>5. PICK l \in DOMAIN inbound'[w] : inbound'[w][l] = Part(e, i)
            BY <2>3, <3>2, <3>3, <3>4 DEF Removes
        <3>6. l + d \in DOMAIN inbound[w] /\ inbound[w][l + d] = Part(e, i)
            BY <3>5 DEF Removes
        <3>7. l + d = k
            BY <3>2, <3>3, <3>4, <3>6 DEF RequestsAccounted, QueuedOnce
        <3>8. /\ j \in Nat /\ l \in Nat /\ l >= 1
            <4>1. inbound' \in [Workers -> Seq([request : 0..MaxRequests, part : Nat])]
                BY DEF TypeOK
            <4>2. QED BY <2>5, <4>1, LenProperties
        <3>9. l \in 1..(j - 1)
            BY <3>2, <3>7, <3>8
        <3>10. QED BY <2>5, <3>5, <3>9
    <2>6. QED BY <2>4, <2>5
<1>14. ASSUME NEW q \in DOMAIN requests, NEW i \in DOMAIN requests[q].replies
       PROVE  PendingIsQueued(q, i)' /\ LostIsReal(q, i)' /\ DoneIsInEffect(q, i)'
    <2>1. /\ PendingIsQueued(q, i) /\ LostIsReal(q, i) /\ DoneIsInEffect(q, i)
          /\ WorkerOf(q, i) \in Workers /\ Part(q, i) # Shutdown
        BY AccountedType, RequestFields DEF RequestsAccounted, Part, Shutdown
    <2>2. PendingIsQueued(q, i)'
        <3>1. SUFFICES ASSUME requests'[q].replies[i] = "pending"
                       PROVE  \E k \in DOMAIN inbound'[WorkerOf(q, i)] :
                                 inbound'[WorkerOf(q, i)][k] = Part(q, i)
            BY <1>3 DEF PendingIsQueued, Part
        <3>2. Part(q, i) \notin M
              /\ \E k \in DOMAIN inbound[WorkerOf(q, i)] :
                    inbound[WorkerOf(q, i)][k] = Part(q, i)
            BY <1>10, <2>1, <3>1 DEF PendingIsQueued
        <3>3. CASE WorkerOf(q, i) = w
            BY <2>1, <3>2, <3>3 DEF Removes
        <3>4. CASE WorkerOf(q, i) # w
            BY <2>1, <3>2, <3>4
        <3>5. QED BY <3>3, <3>4
    <2>3. LostIsReal(q, i)'
        BY <1>1, <1>3, <1>4, <1>6, <2>1 DEF LostIsReal
    <2>4. \A e \in requests[q].earlier : e \in DOMAIN requests
        BY DEF RequestsAccounted, EarlierIsSent
    <2>5. requests'[q].replies[i] = "done" => requests[q].replies[i] = "done"
        BY <1>1
    <2>6. Running(WorkerOf(q, i))'
            => history_by_id'[WorkerOf(q, i)] = history_by_id[WorkerOf(q, i)]
               /\ Running(WorkerOf(q, i))
        <3>1. PICK v : v = WorkerOf(q, i)
            OBVIOUS
        <3>2. v \in Workers /\ WorkerOf(q, i)' = v
            BY <1>3, <2>1, <3>1
        <3>3. Running(WorkerOf(q, i))' => Running(v)'
            BY <3>2 DEF Running
        <3>4. Running(v)' => Running(v) /\ history_by_id'[v] = history_by_id[v]
            BY <1>6, <3>2
        <3>5. QED BY <3>1, <3>2, <3>3, <3>4
    <2>7. DoneIsInEffect(q, i)'
        BY <1>1, <1>3, <2>1, <2>4, <2>5, <2>6 DEF DoneIsInEffect, Shows, Advances
    <2>8. QED BY <2>2, <2>3, <2>7
<1>15. HistoriesKeepTheirType'
    BY DEF RequestsAccounted, HistoriesKeepTheirType
<1>16. QED BY <1>1, <1>7, <1>8, <1>12, <1>13, <1>14, <1>15 DEF RequestsAccounted

LEMMA LosesNothing ==
    ASSUME NEW reqs \in Seq(RequestRecords)
    PROVE  Loses({}, reqs, reqs)
BY DEF Loses

LEMMA LosesBoth ==
    ASSUME NEW M, NEW N, NEW a, NEW b, NEW c, Loses(M, a, b), Loses(N, b, c)
    PROVE  Loses(M \cup N, a, c)
<1>1. c \in Seq(RequestRecords) /\ Len(c) = Len(a) /\ DOMAIN c = DOMAIN a
      /\ DOMAIN b = DOMAIN a
    BY DEF Loses
<1>2. ASSUME NEW r \in DOMAIN a
      PROVE  /\ c[r].op = a[r].op /\ c[r].event = a[r].event /\ c[r].route = a[r].route
             /\ c[r].earlier = a[r].earlier /\ c[r].status = a[r].status
             /\ c[r].answer = a[r].answer
             /\ Len(c[r].replies) = Len(a[r].replies)
             /\ DOMAIN c[r].replies = DOMAIN a[r].replies
             /\ \A i \in DOMAIN a[r].replies :
                   c[r].replies[i] =
                      IF Part(r, i) \in M \cup N THEN "lost" ELSE a[r].replies[i]
    BY <1>1 DEF Loses
<1>3. QED BY <1>1, <1>2 DEF Loses

Messages == [request : 0..MaxRequests, part : Nat]

LEMMA Taken ==
    ASSUME NEW S, NEW s \in Seq(S), s # <<>>
    PROVE  /\ Len(s) \in Nat /\ DOMAIN s = 1..Len(s) /\ 1 \in DOMAIN s
           /\ Head(s) = s[1] /\ Head(s) \in S
           /\ Tail(s) \in Seq(S) /\ Len(Tail(s)) = Len(s) - 1
           /\ \A j \in DOMAIN Tail(s) : j \in Nat /\ j >= 1 /\ j + 1 \in DOMAIN s
                                        /\ Tail(s)[j] = s[j + 1]
           /\ \A j \in DOMAIN s : \/ j = 1
                                  \/ j - 1 \in DOMAIN Tail(s) /\ Tail(s)[j - 1] = s[j]
<1>1. Len(s) \in Nat /\ DOMAIN s = 1..Len(s)
    BY LenProperties
<1>2. Len(s) # 0
    BY EmptySeq
<1>3. /\ Head(s) = s[1] /\ Head(s) \in S
      /\ Tail(s) \in Seq(S) /\ Len(Tail(s)) = Len(s) - 1
      /\ \A j \in 1..Len(Tail(s)) : Tail(s)[j] = s[j + 1]
    BY HeadTailProperties
<1>4. DOMAIN Tail(s) = 1..(Len(s) - 1)
    BY <1>3, LenProperties
<1>5. QED BY <1>1, <1>2, <1>3, <1>4

\* What is left in the channel of a thread that ends is in its old order, and
\* what is not there any more is lost.
LEMMA ExitAccounted ==
    ASSUME RequestsAccounted, NEW w \in Workers, NEW M, NEW d \in Nat, NEW reqs, NEW rest,
           Loses(M, requests, reqs), rest \in Seq(Messages), Len(rest) <= InboundCapacity,
           \A j \in DOMAIN rest :
              /\ j + d \in DOMAIN inbound[w] /\ rest[j] = inbound[w][j + d]
              /\ rest[j] # Shutdown => rest[j] \notin M,
           \A j \in DOMAIN inbound[w] :
              inbound[w][j] \in M \cup {Shutdown}
                 \/ \E k \in DOMAIN rest : rest[k] = inbound[w][j],
           \A m \in M : m # Shutdown => \E j \in DOMAIN inbound[w] : inbound[w][j] = m,
           Exit(w, rest, reqs)
    PROVE  RequestsAccounted'
<1>1. TypeOK /\ reqs \in Seq(RequestRecords)
    BY AccountedType DEF Loses
<1>2. /\ thread' = [thread EXCEPT ![w] = "exited"]
      /\ history_by_id' = [history_by_id EXCEPT ![w] = [id \in {} |-> {}]]
      /\ call' = call /\ is_running' = is_running /\ owner' = owner
    BY DEF Exit
<1>3. /\ \A v \in Workers : v # w => Running(v)' = Running(v)
      /\ ~Running(w)'
      /\ \A v \in Workers : v # w => history_by_id'[v] = history_by_id[v]
      /\ DOMAIN history_by_id' = Workers
      /\ DOMAIN history_by_id'[w] = {}
    BY <1>1, <1>2 DEF TypeOK, Running
<1>4. ASSUME NEW q, q \in Seq(Messages), Len(q) <= InboundCapacity,
             inbound' = [inbound EXCEPT ![w] = q], requests' \in Seq(RequestRecords)
      PROVE  TypeOK'
    <2>1. /\ \A v \in Workers : Len(inbound'[v]) <= InboundCapacity
          /\ inbound' \in [Workers -> Seq(Messages)]
        BY <1>1, <1>4 DEF TypeOK, Messages
    <2>2. \A v \in Workers : history_by_id'[v] \in [DOMAIN history_by_id'[v] -> Histories]
        BY <1>1, <1>2, <1>3 DEF TypeOK
    <2>3. /\ thread' \in [Workers -> {"checking", "receiving", "exited"}]
          /\ call' \in [Clients -> 0..MaxRequests]
          /\ is_running' \in [Workers -> BOOLEAN]
          /\ owner' \in [step : {"alive", "stop", "shutdown", "join", "gone"},
                         worker : Workers]
        BY <1>1, <1>2 DEF TypeOK
    <2>4. QED BY <1>3, <1>4, <2>1, <2>2, <2>3 DEF TypeOK, Messages
<1>5. \A v \in Workers : v # w => inbound'[v] = inbound[v]
    BY <1>1 DEF Exit, TypeOK
<1>6. CASE requests' = reqs /\ inbound' = [inbound EXCEPT ![w] = rest]
    <2>1. inbound'[w] = rest
        BY <1>1, <1>6 DEF TypeOK
    <2>2. Removes(w, M, d)
        BY <2>1 DEF Removes
    <2>3. TypeOK'
        BY <1>1, <1>4, <1>6
    <2>4. Loses(M, requests, requests')
        BY <1>6
    <2>5. QED BY <1>2, <1>3, <1>5, <2>2, <2>3, <2>4, EndAccounted
<1>7. CASE /\ requests' = Lose(Elements(rest), reqs)
           /\ inbound' = [inbound EXCEPT ![w] = <<>>]
    <2>1. PICK none, all : none = <<>> /\ all = M \cup Elements(rest)
        OBVIOUS
    <2>2. none \in Seq(Messages) /\ Len(none) <= InboundCapacity /\ DOMAIN none = {}
        BY <2>1, ContimeAssumption
    <2>3. inbound'[w] = none /\ inbound' = [inbound EXCEPT ![w] = none]
        BY <1>1, <1>7, <2>1 DEF TypeOK
    <2>4. Loses(Elements(rest), reqs, requests')
        BY <1>1, <1>7, LoseEffect
    <2>5. Loses(all, requests, requests')
        <3>1. PICK a, b, c, N : a = requests /\ b = reqs /\ c = requests'
                                /\ N = Elements(rest)
            OBVIOUS
        <3>2. Loses(M, a, b) /\ Loses(N, b, c)
            BY <2>4, <3>1
        <3>3. QED BY <2>1, <3>1, <3>2, LosesBoth
    <2>6. TypeOK'
        BY <1>4, <2>2, <2>3, <2>5 DEF Loses
    <2>7. Removes(w, all, d)
        BY <2>1, <2>2, <2>3 DEF Removes, Elements
    <2>8. QED BY <1>2, <1>3, <1>5, <2>5, <2>6, <2>7, EndAccounted
<1>8. QED BY <1>6, <1>7 DEF Exit

LEMMA StopAccounted ==
    ASSUME RequestsAccounted, NEW w \in Workers, Stop(w)
    PROVE  RequestsAccounted'
<1>1. PICK reqs, rest, M, d : reqs = requests /\ rest = inbound[w] /\ M = {} /\ d = 0
    OBVIOUS
<1>2. /\ reqs \in Seq(RequestRecords) /\ rest \in Seq(Messages)
      /\ Len(rest) <= InboundCapacity
    BY <1>1, AccountedType DEF TypeOK, Messages
<1>3. Loses(M, requests, reqs) /\ Exit(w, rest, reqs) /\ d \in Nat
    BY <1>1, <1>2, LosesNothing DEF Stop
<1>4. /\ \A j \in DOMAIN rest :
            /\ j + d \in DOMAIN inbound[w] /\ rest[j] = inbound[w][j + d]
            /\ rest[j] # Shutdown => rest[j] \notin M
      /\ \A j \in DOMAIN inbound[w] :
            inbound[w][j] \in M \cup {Shutdown}
              \/ \E k \in DOMAIN rest : rest[k] = inbound[w][j]
      /\ \A m \in M : m # Shutdown => \E j \in DOMAIN inbound[w] : inbound[w][j] = m
    BY <1>1, AccountedType
<1>5. QED BY <1>2, <1>3, <1>4, ExitAccounted

\* What a thread takes from its channel, and what it leaves there.
LEMMA HeadIsTaken ==
    ASSUME RequestsAccounted, NEW w \in Workers, inbound[w] # <<>>, NEW m, m = Head(inbound[w])
    PROVE  /\ 1 \in DOMAIN inbound[w] /\ inbound[w][1] = m /\ m \in Messages
           /\ Tail(inbound[w]) \in Seq(Messages)
           /\ Len(Tail(inbound[w])) <= InboundCapacity
           /\ \A j \in DOMAIN Tail(inbound[w]) :
                 /\ j \in Nat /\ j >= 1 /\ j + 1 \in DOMAIN inbound[w]
                 /\ Tail(inbound[w])[j] = inbound[w][j + 1]
                 /\ m # Shutdown => Tail(inbound[w])[j] # m
           /\ \A j \in DOMAIN inbound[w] :
                 \/ j = 1 /\ inbound[w][j] = m
                 \/ /\ j - 1 \in DOMAIN Tail(inbound[w])
                    /\ Tail(inbound[w])[j - 1] = inbound[w][j]
<1>1. PICK s : s = inbound[w]
    OBVIOUS
<1>2. s \in Seq(Messages) /\ s # <<>> /\ Len(s) <= InboundCapacity /\ m = Head(s)
    BY <1>1, AccountedType DEF TypeOK, Messages
<1>3. /\ Len(s) \in Nat /\ DOMAIN s = 1..Len(s) /\ 1 \in DOMAIN s
      /\ Head(s) = s[1] /\ Head(s) \in Messages
      /\ Tail(s) \in Seq(Messages) /\ Len(Tail(s)) = Len(s) - 1
      /\ \A j \in DOMAIN Tail(s) : j \in Nat /\ j >= 1 /\ j + 1 \in DOMAIN s
                                   /\ Tail(s)[j] = s[j + 1]
      /\ \A j \in DOMAIN s : \/ j = 1
                             \/ j - 1 \in DOMAIN Tail(s) /\ Tail(s)[j - 1] = s[j]
    BY <1>2, Taken
<1>4. \A j \in DOMAIN s : s[j] = m /\ m # Shutdown => j = 1
    BY <1>1, <1>2, <1>3 DEF RequestsAccounted, QueuedOnce
<1>5. ASSUME NEW j \in DOMAIN Tail(s), m # Shutdown PROVE Tail(s)[j] # m
    <2>1. j \in Nat /\ j >= 1 /\ j + 1 \in DOMAIN s /\ Tail(s)[j] = s[j + 1]
        BY <1>3
    <2>2. j + 1 # 1
        BY <2>1
    <2>3. QED BY <1>4, <1>5, <2>1, <2>2
<1>6. Len(Tail(s)) <= InboundCapacity
    BY <1>2, <1>3, ContimeAssumption
<1>7. QED BY <1>1, <1>2, <1>3, <1>5, <1>6

LEMMA ReceiveShutdownAccounted ==
    ASSUME RequestsAccounted, NEW w \in Workers, ReceiveShutdown(w)
    PROVE  RequestsAccounted'
<1>1. PICK reqs, rest, m, M, d :
         /\ reqs = requests /\ rest = Tail(inbound[w]) /\ m = Head(inbound[w])
         /\ M = {} /\ d = 1
    OBVIOUS
<1>2. Loses(M, requests, reqs) /\ Exit(w, rest, reqs) /\ m = Shutdown
      /\ inbound[w] # <<>> /\ d \in Nat
    BY <1>1, AccountedType, LosesNothing DEF ReceiveShutdown
<1>3. /\ rest \in Seq(Messages) /\ Len(rest) <= InboundCapacity
      /\ \A j \in DOMAIN rest : j + 1 \in DOMAIN inbound[w] /\ rest[j] = inbound[w][j + 1]
      /\ \A j \in DOMAIN inbound[w] :
            \/ inbound[w][j] = Shutdown
            \/ j - 1 \in DOMAIN rest /\ rest[j - 1] = inbound[w][j]
    BY <1>1, <1>2, HeadIsTaken
<1>4. /\ \A j \in DOMAIN rest :
            /\ j + d \in DOMAIN inbound[w] /\ rest[j] = inbound[w][j + d]
            /\ rest[j] # Shutdown => rest[j] \notin M
      /\ \A j \in DOMAIN inbound[w] :
            inbound[w][j] \in M \cup {Shutdown}
              \/ \E k \in DOMAIN rest : rest[k] = inbound[w][j]
      /\ \A k \in M : k # Shutdown => \E j \in DOMAIN inbound[w] : inbound[w][j] = k
    BY <1>1, <1>3
<1>5. QED BY <1>2, <1>3, <1>4, ExitAccounted

LEMMA PanicAccounted ==
    ASSUME RequestsAccounted, NEW w \in Workers, Panic(w)
    PROVE  RequestsAccounted'
<1>1. PICK m : m = Head(inbound[w])
    OBVIOUS
<1>2. PICK reqs, rest, M, d :
         /\ reqs = Lose(M, requests) /\ rest = Tail(inbound[w]) /\ M = {m} /\ d = 1
    OBVIOUS
<1>3. Loses(M, requests, reqs) /\ Exit(w, rest, reqs) /\ m # Shutdown
      /\ inbound[w] # <<>> /\ d \in Nat
    <2>1. requests \in Seq(RequestRecords)
        BY AccountedType
    <2>2. Exit(w, rest, reqs) /\ m # Shutdown /\ inbound[w] # <<>>
        BY <1>1, <1>2 DEF Panic
    <2>3. QED BY <1>2, <2>1, <2>2, LoseEffect
<1>4. /\ rest \in Seq(Messages) /\ Len(rest) <= InboundCapacity
      /\ 1 \in DOMAIN inbound[w] /\ inbound[w][1] = m
      /\ \A j \in DOMAIN rest : /\ j + 1 \in DOMAIN inbound[w]
                                /\ rest[j] = inbound[w][j + 1] /\ rest[j] # m
      /\ \A j \in DOMAIN inbound[w] :
            \/ inbound[w][j] = m
            \/ j - 1 \in DOMAIN rest /\ rest[j - 1] = inbound[w][j]
    BY <1>1, <1>2, <1>3, HeadIsTaken
<1>5. /\ \A j \in DOMAIN rest :
            /\ j + d \in DOMAIN inbound[w] /\ rest[j] = inbound[w][j + d]
            /\ rest[j] # Shutdown => rest[j] \notin M
      /\ \A j \in DOMAIN inbound[w] :
            inbound[w][j] \in M \cup {Shutdown}
              \/ \E k \in DOMAIN rest : rest[k] = inbound[w][j]
      /\ \A k \in M : k # Shutdown => \E j \in DOMAIN inbound[w] : inbound[w][j] = k
    BY <1>2, <1>4
<1>6. QED BY <1>3, <1>4, <1>5, ExitAccounted

LEMMA JoinAccounted ==
    ASSUME RequestsAccounted, Join
    PROVE  RequestsAccounted'
<1>1. PICK w, M, none, d :
         w = owner.worker /\ M = Elements(inbound[w]) /\ none = <<>> /\ d = 0
    OBVIOUS
<1>2. /\ TypeOK /\ w \in Workers /\ DOMAIN inbound = Workers /\ d \in Nat
      /\ none \in Seq(Messages) /\ Len(none) = 0 /\ DOMAIN none = {}
    <2>1. TypeOK /\ DOMAIN inbound = Workers
        BY AccountedType
    <2>2. w \in Workers
        BY <1>1, <2>1 DEF TypeOK
    <2>3. QED BY <1>1, <2>1, <2>2
<1>3. /\ requests' = Lose(M, requests) /\ inbound' = [inbound EXCEPT ![w] = none]
      /\ UNCHANGED <<call, is_running, thread, history_by_id>> /\ thread[w] = "exited"
    BY <1>1 DEF Join
<1>4. Loses(M, requests, requests')
    BY <1>2, <1>3, LoseEffect DEF TypeOK
<1>5. inbound'[w] = none /\ \A v \in Workers : v # w => inbound'[v] = inbound[v]
    BY <1>2, <1>3
<1>6. Removes(w, M, d)
    BY <1>1, <1>2, <1>5 DEF Removes, Elements
<1>7. TypeOK'
    <2>1. /\ \A v \in Workers : Len(inbound'[v]) <= InboundCapacity
          /\ inbound' \in [Workers -> Seq(Messages)]
        <3>1. /\ \A v \in Workers : Len(inbound[v]) <= InboundCapacity
              /\ inbound \in [Workers -> Seq(Messages)]
            BY <1>2 DEF TypeOK, Messages
        <3>2. 0 <= InboundCapacity
            BY ContimeAssumption
        <3>3. QED BY <1>2, <1>3, <1>5, <3>1, <3>2
    <2>2. owner' \in [step : {"alive", "stop", "shutdown", "join", "gone"},
                      worker : Workers]
        <3>1. w \in 1..WorkerCount /\ WorkerCount \in Nat
            BY <1>2, ContimeAssumption DEF Workers
        <3>2. w < WorkerCount => w + 1 \in Workers
            BY <3>1 DEF Workers
        <3>3. QED BY <1>1, <1>2, <3>2 DEF Join
    <2>3. QED BY <1>2, <1>3, <1>4, <2>1, <2>2 DEF TypeOK, Loses, Messages
<1>8. /\ ~Running(w)' /\ \A v \in Workers : Running(v)' = Running(v)
    BY <1>3 DEF Running
<1>9. QED BY <1>2, <1>3, <1>4, <1>5, <1>6, <1>7, <1>8, EndAccounted

-----------------------------------------------------------------------------
(***************************************************************************)
(* What a worker does to its histories.                                    *)
(***************************************************************************)
\* No history goes, and none forgets a request or an advance.
Extends(H, A) ==
    /\ A \in [DOMAIN A -> Histories]
    /\ \A id \in DOMAIN H : /\ id \in DOMAIN A
                            /\ H[id].applied \subseteq A[id].applied
                            /\ H[id].advances \subseteq A[id].advances

LEMMA AppliedEffect ==
    ASSUME NEW r \in 1..MaxRequests, NEW m \in RouteParts,
           NEW H, H \in [DOMAIN H -> Histories], NEW A, A = Applied(r, m, H)
    PROVE  /\ Extends(H, A) /\ m.id \in DOMAIN A
           /\ \A id \in DOMAIN A : \A t \in A[id].types :
                 \/ id \in DOMAIN H /\ t \in H[id].types
                 \/ id = m.id /\ t \in m.initial
<1>1. PICK h : h = HistoryOf(m.id, m.initial, H)
    OBVIOUS
<1>2. /\ h \in Histories
      /\ m.id \in DOMAIN H => h = H[m.id]
      /\ m.id \notin DOMAIN H => h.types = m.initial
    BY <1>1 DEF HistoryOf, NewHistory, Histories, RouteParts
<1>3. PICK g : g = IF requests[r].op = "snapshot"
                   THEN [h EXCEPT !.applied = @ \cup {r}, !.types = @ \cup m.initial]
                   ELSE WithEvent(r, requests[r].event, h)
    OBVIOUS
<1>4. A = Insert(m.id, g, H)
    BY <1>1, <1>3 DEF Applied
<1>5. /\ g \in Histories
      /\ h.applied \subseteq g.applied /\ h.advances \subseteq g.advances
      /\ \A t \in g.types : t \in h.types \/ t \in m.initial
    BY <1>2, <1>3 DEF WithEvent, Histories, RouteParts
<1>6. /\ DOMAIN A = DOMAIN H \cup {m.id}
      /\ A[m.id] = g /\ \A id \in DOMAIN H : id # m.id => A[id] = H[id]
      /\ A = [id \in DOMAIN A |-> A[id]]
    BY <1>4 DEF Insert
<1>7. \A id \in DOMAIN A : A[id] \in Histories
    BY <1>5, <1>6
<1>8. Extends(H, A)
    BY <1>2, <1>5, <1>6, <1>7 DEF Extends
<1>9. ASSUME NEW id \in DOMAIN A, NEW t \in A[id].types
      PROVE  \/ id \in DOMAIN H /\ t \in H[id].types
             \/ id = m.id /\ t \in m.initial
    BY <1>2, <1>5, <1>6
<1>10. QED BY <1>6, <1>8, <1>9

\* The states of a history for one type show the event or the snapshot.
LEMMA AppliedShows ==
    ASSUME NEW r, NEW m \in RouteParts, NEW type,
           NEW H, H \in [DOMAIN H -> Histories], NEW A, A = Applied(r, m, H),
           m.initial = {type},
           m.id \in DOMAIN H => \A t \in H[m.id].types : t = type,
           requests[r].op \in {"event", "snapshot"},
           requests[r].op = "event"
              => \A e \in requests[r].event : applies_to(e.variant, type)
    PROVE  r \in A[m.id].applied
<1>1. PICK h : h = HistoryOf(m.id, m.initial, H)
    OBVIOUS
<1>2. h \in Histories /\ \A t \in h.types : t = type
    BY <1>1 DEF HistoryOf, NewHistory, Histories, RouteParts
<1>3. PICK g : g = IF requests[r].op = "snapshot"
                   THEN [h EXCEPT !.applied = @ \cup {r}, !.types = @ \cup m.initial]
                   ELSE WithEvent(r, requests[r].event, h)
    OBVIOUS
<1>4. A[m.id] = g
    BY <1>1, <1>3 DEF Applied, Insert
<1>5. CASE requests[r].op = "snapshot"
    BY <1>2, <1>3, <1>4, <1>5 DEF Histories
<1>6. CASE requests[r].op = "event"
    BY <1>2, <1>3, <1>4, <1>6 DEF WithEvent, Histories
<1>7. QED BY <1>5, <1>6

LEMMA AdvancedEffect ==
    ASSUME NEW r \in 1..MaxRequests, NEW H, H \in [DOMAIN H -> Histories],
           NEW A, A = Advanced(r, H)
    PROVE  /\ Extends(H, A) /\ DOMAIN A = DOMAIN H
           /\ \A id \in DOMAIN A : A[id].types = H[id].types /\ r \in A[id].advances
<1>1. DOMAIN A = DOMAIN H /\ A = [id \in DOMAIN A |-> A[id]]
      /\ \A id \in DOMAIN H : A[id] = [H[id] EXCEPT !.advances = @ \cup {r}]
    BY DEF Advanced
<1>2. ASSUME NEW id \in DOMAIN H
      PROVE  /\ A[id] \in Histories /\ A[id].types = H[id].types /\ r \in A[id].advances
             /\ H[id].applied \subseteq A[id].applied
             /\ H[id].advances \subseteq A[id].advances
    <2>1. H[id] \in Histories
        OBVIOUS
    <2>2. QED BY <1>1, <2>1 DEF Histories
<1>3. QED BY <1>1, <1>2 DEF Extends

\* When a part is first in its channel, the updates sent to that worker before
\* its request began are in effect there.
LEMMA EarlierInEffect ==
    ASSUME RequestsAccounted, NEW w \in Workers, Running(w), 1 \in DOMAIN inbound[w],
           inbound[w][1] # Shutdown, NEW r, r = inbound[w][1].request,
           NEW e \in requests[r].earlier, NEW id \in Targets(e), WorkerIndex[id] = w
    PROVE  Shows(w, id, e)
<1>1. r \in DOMAIN requests /\ EarlierIsSent(r)
    BY DEF RequestsAccounted, QueuedOnce
<1>2. e \in DOMAIN requests /\ IsUpdate(e) /\ Sent(e) /\ SentInFull(e)
    BY <1>1 DEF EarlierIsSent, RequestsAccounted
<1>3. PICK i \in DOMAIN requests[e].route :
         requests[e].route[i].id = id /\ WorkerOf(e, i) = w
    BY <1>2, TargetRouted DEF SentInFull
<1>4. i \in DOMAIN requests[e].replies /\ requests[e].replies[i] \in Replies
    <2>1. Len(requests[e].replies) = Len(requests[e].route)
        BY <1>2 DEF SentInFull
    <2>2. QED BY <1>2, <2>1, AccountedType, RequestFields
<1>5. requests[e].replies[i] # "pending"
    <2> SUFFICES ASSUME requests[e].replies[i] = "pending" PROVE FALSE
        OBVIOUS
    <2>1. \E k \in 1..(1 - 1) : inbound[w][k] = Part(e, i)
        BY <1>3, <1>4 DEF RequestsAccounted, EarlierIsAhead
    <2>2. QED BY <2>1
<1>6. requests[e].replies[i] # "lost"
    BY <1>2, <1>3, <1>4 DEF RequestsAccounted, LostIsReal
<1>7. requests[e].replies[i] = "done" /\ DoneIsInEffect(e, i)
    BY <1>2, <1>4, <1>5, <1>6 DEF Replies, RequestsAccounted
<1>8. QED BY <1>2, <1>3, <1>7 DEF DoneIsInEffect

(***************************************************************************)
(* A worker answers the message m: its reply is done.                      *)
(***************************************************************************)
LEMMA MessageType ==
    ASSUME RequestsAccounted, NEW w \in Workers, inbound[w] # <<>>,
           NEW m, m = Head(inbound[w]), m # Shutdown
    PROVE  /\ 1 \in DOMAIN inbound[w] /\ inbound[w][1] = m /\ m \in Messages
           /\ m = Part(m.request, m.part)
           /\ m.request \in DOMAIN requests /\ m.request \in 1..MaxRequests
           /\ m.part \in DOMAIN requests[m.request].replies
           /\ m.part \in DOMAIN requests[m.request].route
           /\ requests[m.request].replies[m.part] = "pending"
           /\ WorkerOf(m.request, m.part) = w
           /\ requests[m.request].route[m.part] \in RouteParts
           /\ WellRouted(requests[m.request])
<1>1. 1 \in DOMAIN inbound[w] /\ inbound[w][1] = m /\ m \in Messages
    BY HeadIsTaken
<1>2. /\ m.request \in DOMAIN requests
      /\ m.part \in DOMAIN requests[m.request].replies
      /\ requests[m.request].replies[m.part] = "pending"
      /\ WorkerOf(m.request, m.part) = w
    BY <1>1 DEF RequestsAccounted, QueuedOnce
<1>3. m.part \in DOMAIN requests[m.request].route
    BY <1>2, AccountedType
<1>4. m.request \in 1..MaxRequests
    <2>1. Len(requests) <= MaxRequests /\ m.request \in 1..Len(requests)
          /\ Len(requests) \in Nat
        BY <1>2, AccountedType, RequestFields, LenProperties DEF RequestsAccounted
    <2>2. QED BY <2>1, ContimeAssumption
<1>5. requests[m.request].route[m.part] \in RouteParts
    <2>1. requests[m.request].route \in Seq(RouteParts)
        BY <1>2, AccountedType, RequestFields
    <2>2. QED BY <1>3, <2>1, ElementOfSeq, LenProperties
<1>6. WellRouted(requests[m.request])
    BY <1>2 DEF RequestsAccounted, SentInFull
<1>7. m = Part(m.request, m.part)
    BY <1>1 DEF Messages, Part
<1>8. QED BY <1>1, <1>2, <1>3, <1>4, <1>5, <1>6, <1>7

\* What holds after Receive(w) has answered m with answer.
Answers(w, m, answer) ==
    LET r == m.request
        id == requests[r].route[m.part].id
    IN  /\ Becomes(r, [requests[r].replies EXCEPT ![m.part] = "done"],
                   requests[r].status, answer)
        /\ DOMAIN history_by_id' = Workers
        /\ \A v \in Workers : v # w => history_by_id'[v] = history_by_id[v]
        /\ Extends(history_by_id[w], history_by_id'[w])
        /\ \A i \in DOMAIN history_by_id'[w] : \A t \in history_by_id'[w][i].types :
              [type |-> t, id |-> i] \in States
        /\ IsUpdate(r) => id \in DOMAIN history_by_id'[w]
                          /\ (IdsNotShared => r \in history_by_id'[w][id].applied)
        /\ requests[r].op = "advance"
              => \A i \in DOMAIN history_by_id'[w] : r \in history_by_id'[w][i].advances
        /\ requests[r].op = "query"
              => answer = IF id \in DOMAIN history_by_id[w]
                          THEN {history_by_id[w][id].applied} ELSE {}

\* Where ids are not shared, an update shows in the history of each of its parts.
LEMMA UpdateShows ==
    ASSUME NEW r \in 1..MaxRequests, WellRouted(requests[r]), IsUpdate(r),
           NEW i \in DOMAIN requests[r].route, NEW p \in RouteParts,
           p = requests[r].route[i],
           NEW H, H \in [DOMAIN H -> Histories],
           \A id \in DOMAIN H : \A t \in H[id].types : [type |-> t, id |-> id] \in States,
           NEW A, A = Applied(r, p, H)
    PROVE  /\ Extends(H, A) /\ p.id \in DOMAIN A
           /\ IdsNotShared => r \in A[p.id].applied
           /\ \A id \in DOMAIN A : \A t \in A[id].types : [type |-> t, id |-> id] \in States
<1>1. PICK s \in States :
         /\ p.id = s.id /\ p.initial = {s.type}
         /\ requests[r].op = "event"
               => \A e \in requests[r].event : applies_to(e.variant, s.type)
    <2>1. PICK q : q = requests[r]
        OBVIOUS
    <2>2. WellRouted(q) /\ q.op \in {"event", "snapshot"} /\ i \in DOMAIN q.route
        BY <2>1 DEF IsUpdate
    <2>3. PICK s \in States :
             /\ q.route[i].id = s.id /\ q.route[i].initial = {s.type}
             /\ q.op = "event" => \A e \in q.event : applies_to(e.variant, s.type)
        BY <2>2, UpdateRoute
    <2>4. QED BY <2>1, <2>3
<1>2. /\ Extends(H, A) /\ p.id \in DOMAIN A
      /\ \A id \in DOMAIN A : \A t \in A[id].types :
            \/ id \in DOMAIN H /\ t \in H[id].types
            \/ id = p.id /\ t \in p.initial
    BY AppliedEffect
<1>3. ASSUME IdsNotShared, p.id \in DOMAIN H, NEW t \in H[p.id].types
      PROVE  t = s.type
    <2>1. PICK u \in States : u = [type |-> t, id |-> p.id]
        BY <1>3
    <2>2. QED BY <1>1, <1>3, <2>1 DEF IdsNotShared
<1>4. ASSUME IdsNotShared PROVE r \in A[p.id].applied
    <2>1. PICK type : type = s.type
        OBVIOUS
    <2>2. /\ p.initial = {type}
          /\ p.id \in DOMAIN H => \A t \in H[p.id].types : t = type
          /\ requests[r].op \in {"event", "snapshot"}
          /\ requests[r].op = "event"
                => \A e \in requests[r].event : applies_to(e.variant, type)
        BY <1>1, <1>3, <1>4, <2>1 DEF IsUpdate
    <2>3. QED BY <2>2, AppliedShows
<1>5. ASSUME NEW id \in DOMAIN A, NEW t \in A[id].types
      PROVE  [type |-> t, id |-> id] \in States
    <2>1. CASE id \in DOMAIN H /\ t \in H[id].types
        BY <2>1
    <2>2. CASE id = p.id /\ t \in p.initial
        <3>1. t = s.type /\ id = s.id
            BY <1>1, <2>2
        <3>2. QED BY <3>1, StateType
    <2>3. QED BY <1>2, <2>1, <2>2
<1>6. QED BY <1>2, <1>4, <1>5

LEMMA AdvanceEffect ==
    ASSUME RequestsAccounted, NEW w \in Workers, inbound[w] # <<>>,
           NEW m, m = Head(inbound[w]), m # Shutdown,
           NEW r, r = m.request, requests[r].op = "advance",
           history_by_id' = [history_by_id EXCEPT ![w] = Advanced(r, history_by_id[w])],
           requests' = Answer(m, {}, requests)
    PROVE  Answers(w, m, {})
<1>1. PICK H, A : H = history_by_id[w] /\ A = Advanced(r, H)
    OBVIOUS
<1>2. /\ r \in DOMAIN requests /\ r \in 1..MaxRequests
      /\ m.part \in DOMAIN requests[r].replies
    BY MessageType
<1>3. TypeOK /\ H \in [DOMAIN H -> Histories]
    BY <1>1, AccountedType DEF TypeOK
<1>4. \A id \in DOMAIN H : \A t \in H[id].types : [type |-> t, id |-> id] \in States
    BY <1>1 DEF RequestsAccounted, HistoriesKeepTheirType
<1>5. /\ Extends(H, A) /\ DOMAIN A = DOMAIN H
      /\ \A id \in DOMAIN A : A[id].types = H[id].types /\ r \in A[id].advances
    BY <1>1, <1>2, <1>3, AdvancedEffect
<1>6. Becomes(r, [requests[r].replies EXCEPT ![m.part] = "done"], requests[r].status, {})
    BY <1>2, <1>3, AnswerEffect DEF TypeOK
<1>7. /\ DOMAIN history_by_id' = Workers /\ history_by_id'[w] = A
      /\ \A v \in Workers : v # w => history_by_id'[v] = history_by_id[v]
    BY <1>1, <1>3 DEF TypeOK
<1>8. ~IsUpdate(r) /\ requests[r].op # "query"
    BY DEF IsUpdate
<1>9. QED BY <1>1, <1>4, <1>5, <1>6, <1>7, <1>8 DEF Answers

LEMMA QueryEffect ==
    ASSUME RequestsAccounted, NEW w \in Workers, inbound[w] # <<>>,
           NEW m, m = Head(inbound[w]), m # Shutdown,
           NEW r, r = m.request, requests[r].op = "query",
           NEW id, id = requests[r].route[m.part].id,
           NEW answer, answer = IF id \in DOMAIN history_by_id[w]
                                THEN {history_by_id[w][id].applied} ELSE {},
           history_by_id' = history_by_id, requests' = Answer(m, answer, requests)
    PROVE  Answers(w, m, answer) /\ answer \in SUBSET SUBSET (1..MaxRequests)
<1>1. r \in DOMAIN requests /\ m.part \in DOMAIN requests[r].replies
    BY MessageType
<1>2. TypeOK /\ history_by_id[w] \in [DOMAIN history_by_id[w] -> Histories]
    BY AccountedType DEF TypeOK
<1>3. \A i \in DOMAIN history_by_id[w] : \A t \in history_by_id[w][i].types :
         [type |-> t, id |-> i] \in States
    BY DEF RequestsAccounted, HistoriesKeepTheirType
<1>4. answer \in SUBSET SUBSET (1..MaxRequests)
    <2>1. CASE id \in DOMAIN history_by_id[w]
        <3>1. history_by_id[w][id] \in Histories
            BY <1>2, <2>1
        <3>2. QED BY <2>1, <3>1 DEF Histories
    <2>2. CASE id \notin DOMAIN history_by_id[w]
        BY <2>2
    <2>3. QED BY <2>1, <2>2
<1>5. Becomes(r, [requests[r].replies EXCEPT ![m.part] = "done"], requests[r].status, answer)
    BY <1>1, <1>2, <1>4, AnswerEffect DEF TypeOK
<1>6. Extends(history_by_id[w], history_by_id'[w]) /\ DOMAIN history_by_id' = Workers
    BY <1>2 DEF Extends, TypeOK
<1>7. ~IsUpdate(r) /\ requests[r].op # "advance"
    BY DEF IsUpdate
<1>8. QED BY <1>3, <1>4, <1>5, <1>6, <1>7 DEF Answers

LEMMA ReceiveEffect ==
    ASSUME RequestsAccounted, NEW w \in Workers, Receive(w),
           NEW m, m = Head(inbound[w])
    PROVE  \E answer \in SUBSET SUBSET (1..MaxRequests) : Answers(w, m, answer)
<1>1. PICK r, id, answer :
         /\ r = m.request /\ id = requests[r].route[m.part].id
         /\ answer = IF id \in DOMAIN history_by_id[w]
                     THEN {history_by_id[w][id].applied} ELSE {}
    OBVIOUS
<1>2. m # Shutdown /\ inbound[w] # <<>>
    BY DEF Receive
<1>3. requests[r].op \in {"event", "snapshot", "query", "advance"}
    BY <1>1, <1>2, MessageType, AccountedType, RequestFields
<1>4. CASE requests[r].op \in {"event", "snapshot"}
    <2>1. PICK p, H, A : /\ p = requests[r].route[m.part] /\ H = history_by_id[w]
                         /\ A = Applied(r, p, H)
        OBVIOUS
    <2>2. /\ history_by_id' = [history_by_id EXCEPT ![w] = A]
          /\ requests' = Answer(m, {}, requests)
        BY <1>1, <1>4, <2>1 DEF Receive
    <2>3. /\ DOMAIN history_by_id' = Workers /\ history_by_id'[w] = A
          /\ \A v \in Workers : v # w => history_by_id'[v] = history_by_id[v]
        BY <2>2, AccountedType DEF TypeOK
    <2>4. /\ r \in 1..MaxRequests /\ WellRouted(requests[r]) /\ IsUpdate(r)
          /\ m.part \in DOMAIN requests[r].route /\ p \in RouteParts
          /\ r \in DOMAIN requests /\ m.part \in DOMAIN requests[r].replies
        BY <1>1, <1>2, <1>4, <2>1, MessageType DEF IsUpdate
    <2>5. H \in [DOMAIN H -> Histories]
          /\ \A i \in DOMAIN H : \A t \in H[i].types : [type |-> t, id |-> i] \in States
        BY <2>1, AccountedType DEF TypeOK, RequestsAccounted, HistoriesKeepTheirType
    <2>6. /\ Extends(H, A) /\ p.id \in DOMAIN A
          /\ IdsNotShared => r \in A[p.id].applied
          /\ \A i \in DOMAIN A : \A t \in A[i].types : [type |-> t, id |-> i] \in States
        BY <2>1, <2>4, <2>5, UpdateShows
    <2>7. Becomes(r, [requests[r].replies EXCEPT ![m.part] = "done"],
                  requests[r].status, {})
        BY <1>1, <2>2, <2>4, AccountedType, AnswerEffect
    <2>8. Answers(w, m, {})
        BY <1>1, <1>4, <2>1, <2>3, <2>6, <2>7 DEF Answers
    <2>9. QED BY <2>8
<1>5. CASE requests[r].op = "advance"
    <2>1. /\ history_by_id' = [history_by_id EXCEPT ![w] = Advanced(r, history_by_id[w])]
          /\ requests' = Answer(m, {}, requests)
        BY <1>1, <1>5 DEF Receive
    <2>2. QED BY <1>1, <1>2, <1>5, <2>1, AdvanceEffect
<1>6. CASE requests[r].op = "query"
    <2>1. history_by_id' = history_by_id /\ requests' = Answer(m, answer, requests)
        BY <1>1, <1>6 DEF Receive
    <2>2. QED BY <1>1, <1>2, <1>6, <2>1, QueryEffect
<1>7. QED BY <1>3, <1>4, <1>5, <1>6

LEMMA ReceiveType ==
    ASSUME TypeOK, NEW w \in Workers, NEW rest \in Seq(Messages),
           Len(rest) <= InboundCapacity, inbound' = [inbound EXCEPT ![w] = rest],
           thread' = [thread EXCEPT ![w] = "checking"],
           UNCHANGED <<call, is_running, owner>>,
           requests' \in Seq(RequestRecords), DOMAIN history_by_id' = Workers,
           \A v \in Workers : v # w => history_by_id'[v] = history_by_id[v],
           history_by_id'[w] \in [DOMAIN history_by_id'[w] -> Histories]
    PROVE  TypeOK'
<1>1. \A v \in Workers : Len(inbound'[v]) <= InboundCapacity
    BY DEF TypeOK
<1>2. inbound' \in [Workers -> Seq(Messages)]
    BY DEF TypeOK, Messages
<1>3. thread' \in [Workers -> {"checking", "receiving", "exited"}]
    BY DEF TypeOK
<1>4. \A v \in Workers : history_by_id'[v] \in [DOMAIN history_by_id'[v] -> Histories]
    BY DEF TypeOK
<1>5. QED BY <1>1, <1>2, <1>3, <1>4 DEF TypeOK, Messages

\* The part that is answered leaves the channel; nothing it follows is pending.
LEMMA ReceiveAccounted ==
    ASSUME RequestsAccounted, NEW w \in Workers, Receive(w)
    PROVE  RequestsAccounted'
<1>1. PICK m, rest : m = Head(inbound[w]) /\ rest = Tail(inbound[w])
    OBVIOUS
<1>2. PICK r, part, replies : /\ r = m.request /\ part = m.part
                              /\ replies = [requests[r].replies EXCEPT ![part] = "done"]
    OBVIOUS
<1>3. /\ m # Shutdown /\ inbound[w] # <<>> /\ inbound' = [inbound EXCEPT ![w] = rest]
      /\ thread' = [thread EXCEPT ![w] = "checking"] /\ thread[w] = "receiving"
      /\ UNCHANGED <<call, is_running, owner>>
    BY <1>1 DEF Receive
<1>4. PICK answer \in SUBSET SUBSET (1..MaxRequests) : Answers(w, m, answer)
    BY <1>1, ReceiveEffect
<1>5. PICK H, A : H = history_by_id[w] /\ A = history_by_id'[w]
    OBVIOUS
<1>6. /\ 1 \in DOMAIN inbound[w] /\ inbound[w][1] = m /\ m = Part(r, part)
      /\ r \in DOMAIN requests /\ part \in DOMAIN requests[r].replies
      /\ part \in DOMAIN requests[r].route
      /\ requests[r].replies[part] = "pending" /\ WorkerOf(r, part) = w
      /\ WellRouted(requests[r])
    BY <1>1, <1>2, <1>3, MessageType
<1>7. /\ rest \in Seq(Messages) /\ Len(rest) <= InboundCapacity
      /\ \A j \in DOMAIN rest : /\ j \in Nat /\ j >= 1 /\ j + 1 \in DOMAIN inbound[w]
                                /\ rest[j] = inbound[w][j + 1] /\ rest[j] # m
      /\ \A j \in DOMAIN inbound[w] :
            \/ j = 1 /\ inbound[w][j] = m
            \/ j - 1 \in DOMAIN rest /\ rest[j - 1] = inbound[w][j]
    BY <1>1, <1>3, HeadIsTaken
<1>8. /\ Becomes(r, replies, requests[r].status, answer) /\ DOMAIN history_by_id' = Workers
      /\ \A v \in Workers : v # w => history_by_id'[v] = history_by_id[v]
      /\ Extends(H, A)
      /\ \A id \in DOMAIN A : \A t \in A[id].types : [type |-> t, id |-> id] \in States
      /\ IsUpdate(r) => requests[r].route[part].id \in DOMAIN A
                        /\ (IdsNotShared => r \in A[requests[r].route[part].id].applied)
      /\ requests[r].op = "advance" => \A id \in DOMAIN A : r \in A[id].advances
      /\ requests[r].op = "query"
            => answer = IF requests[r].route[part].id \in DOMAIN H
                        THEN {H[requests[r].route[part].id].applied} ELSE {}
    BY <1>2, <1>4, <1>5 DEF Answers
<1>9. /\ DOMAIN requests' = DOMAIN requests /\ Len(requests') = Len(requests)
      /\ \A q \in DOMAIN requests : q # r => requests'[q] = requests[q]
      /\ requests'[r].status = requests[r].status /\ requests'[r].answer = answer
      /\ requests'[r].replies = replies
    BY <1>8 DEF Becomes
<1>10. \A q \in DOMAIN requests : Keeps(q)
    BY <1>8, <1>9 DEF Becomes, Keeps
<1>11. \A q \in DOMAIN requests :
          /\ IsUpdate(q)' = IsUpdate(q) /\ Targets(q)' = Targets(q)
          /\ WellRouted(requests[q]) => WellRouted(requests[q])'
          /\ \A i : WorkerOf(q, i)' = WorkerOf(q, i)
    BY <1>10, KeepsParts
<1>12. \A q \in DOMAIN requests :
          /\ requests'[q].op = requests[q].op
          /\ requests'[q].route = requests[q].route
          /\ requests'[q].earlier = requests[q].earlier
          /\ requests'[q].status = requests[q].status
    BY <1>9, <1>10 DEF Keeps
<1>13. /\ DOMAIN replies = DOMAIN requests[r].replies
       /\ Len(replies) = Len(requests[r].replies)
       /\ \A i \in DOMAIN replies :
             replies[i] = IF i = part THEN "done" ELSE requests[r].replies[i]
    <2>1. requests[r].replies \in Seq(Replies) /\ part \in 1..Len(requests[r].replies)
        BY <1>6, AccountedType, RequestFields
    <2>2. "done" \in Replies
        BY DEF Replies
    <2>3. QED BY <1>2, <2>1, <2>2, ExceptSeq, LenProperties
<1>14. ASSUME NEW q \in DOMAIN requests
       PROVE  /\ DOMAIN requests'[q].replies = DOMAIN requests[q].replies
              /\ Len(requests'[q].replies) = Len(requests[q].replies)
              /\ \A i \in DOMAIN requests[q].replies :
                    requests'[q].replies[i] = IF q = r /\ i = part THEN "done"
                                              ELSE requests[q].replies[i]
    BY <1>9, <1>13
<1>15. \A v : Running(v)' = Running(v)
    <2>1. TypeOK
        BY AccountedType
    <2>2. QED BY <1>3, <2>1 DEF Running, TypeOK
<1>16. TypeOK'
    BY <1>3, <1>5, <1>7, <1>8, ReceiveType, AccountedType DEF Becomes, Extends
<1>17. \A q \in DOMAIN requests : Sent(q)' = Sent(q)
    BY <1>12 DEF Sent
<1>18. ASSUME NEW q \in DOMAIN requests
       PROVE  SentInFull(q)' /\ EarlierIsSent(q)' /\ FailedIsReal(q)'
    <2>1. SentInFull(q)'
        BY <1>11, <1>12, <1>14, <1>17 DEF RequestsAccounted, SentInFull
    <2>2. EarlierIsSent(q)'
        BY <1>9, <1>11, <1>12, <1>17 DEF RequestsAccounted, EarlierIsSent
    <2>3. FailedIsReal(q)'
        BY <1>11, <1>12, <1>15 DEF RequestsAccounted, FailedIsReal
    <2>4. QED BY <2>1, <2>2, <2>3
<1>19. CallsAreOwn'
    BY <1>3, <1>9, <1>12 DEF RequestsAccounted, CallsAreOwn
<1>20. inbound'[w] = rest /\ \A v \in Workers : v # w => inbound'[v] = inbound[v]
    BY <1>3, AccountedType
<1>21. ASSUME NEW v \in Workers, NEW j \in DOMAIN inbound'[v], inbound'[v][j] # Shutdown
       PROVE  \E k \in DOMAIN inbound[v] :
                 /\ inbound[v][k] = inbound'[v][j] /\ inbound'[v][j] # m
                 /\ IF v = w THEN k = j + 1 ELSE k = j
    <2>1. CASE v = w
        BY <1>7, <1>20, <2>1
    <2>2. CASE v # w
        <3>1. inbound'[v] = inbound[v]
            BY <1>20, <2>2
        <3>2. ASSUME inbound[v][j] = m PROVE FALSE
            BY <1>2, <1>3, <1>6, <2>2, <3>1, <3>2 DEF RequestsAccounted, QueuedOnce
        <3>3. QED BY <2>2, <3>1, <3>2
    <2>3. QED BY <2>1, <2>2
<1>22. \A v \in Workers : \A j \in DOMAIN inbound'[v] : j \in Nat
    BY <1>16, LenProperties DEF TypeOK
<1>23. ASSUME NEW v \in Workers, NEW j \in DOMAIN inbound'[v],
              NEW k \in DOMAIN inbound'[v], inbound'[v][j] = inbound'[v][k],
              inbound'[v][j] # Shutdown
       PROVE  j = k
    <2>1. PICK jj \in DOMAIN inbound[v] :
             inbound[v][jj] = inbound'[v][j] /\ IF v = w THEN jj = j + 1 ELSE jj = j
        BY <1>21, <1>23
    <2>2. PICK kk \in DOMAIN inbound[v] :
             inbound[v][kk] = inbound'[v][k] /\ IF v = w THEN kk = k + 1 ELSE kk = k
        BY <1>21, <1>23
    <2>3. jj = kk
        BY <1>23, <2>1, <2>2 DEF RequestsAccounted, QueuedOnce
    <2>4. j \in Nat /\ k \in Nat
        BY <1>22
    <2>5. QED BY <2>1, <2>2, <2>3, <2>4
<1>24. QueuedOnce'
    <2> SUFFICES ASSUME NEW v \in Workers, NEW j \in DOMAIN inbound'[v],
                        NEW n, n = inbound'[v][j], n # Shutdown
                 PROVE  /\ n.request \in DOMAIN requests'
                        /\ n.part \in DOMAIN requests'[n.request].replies
                        /\ requests'[n.request].replies[n.part] = "pending"
                        /\ WorkerOf(n.request, n.part)' = v
                        /\ \A k \in DOMAIN inbound'[v] : inbound'[v][k] = n => k = j
        BY Zenon DEF QueuedOnce
    <2>1. PICK k \in DOMAIN inbound[v] : inbound[v][k] = n /\ n # m
        BY <1>21
    <2>2. /\ n.request \in DOMAIN requests
          /\ n.part \in DOMAIN requests[n.request].replies
          /\ requests[n.request].replies[n.part] = "pending"
          /\ WorkerOf(n.request, n.part) = v
        BY <2>1 DEF RequestsAccounted, QueuedOnce
    <2>3. n = Part(n.request, n.part)
        <3>1. inbound[v] \in Seq(Messages) /\ k \in 1..Len(inbound[v])
            BY AccountedType DEF Messages
        <3>2. n \in Messages
            BY <2>1, <3>1, ElementOfSeq
        <3>3. QED BY <3>2 DEF Part, Messages
    <2>4. ~(n.request = r /\ n.part = part)
        BY <1>6, <2>1, <2>3
    <2>5. QED BY <1>9, <1>11, <1>14, <1>23, <2>2, <2>4
<1>25. EarlierIsAhead'
    <2> SUFFICES ASSUME NEW v \in Workers, NEW j \in DOMAIN inbound'[v],
                        inbound'[v][j] # Shutdown,
                        NEW e \in requests'[inbound'[v][j].request].earlier,
                        NEW i \in DOMAIN requests'[e].replies,
                        requests'[e].replies[i] = "pending", WorkerOf(e, i)' = v
                 PROVE  \E k \in 1..(j - 1) : inbound'[v][k] = Part(e, i)
        BY DEF EarlierIsAhead, Part
    <2>1. PICK jj \in DOMAIN inbound[v] :
             inbound[v][jj] = inbound'[v][j] /\ IF v = w THEN jj = j + 1 ELSE jj = j
        BY <1>21
    <2>2. inbound[v][jj].request \in DOMAIN requests
        BY <2>1 DEF RequestsAccounted, QueuedOnce
    <2>3. e \in requests[inbound[v][jj].request].earlier /\ e \in DOMAIN requests
        BY <1>12, <2>1, <2>2 DEF RequestsAccounted, EarlierIsSent
    <2>4. /\ i \in DOMAIN requests[e].replies /\ requests[e].replies[i] = "pending"
          /\ WorkerOf(e, i) = v /\ ~(e = r /\ i = part)
        BY <1>11, <1>14, <2>3
    <2>5. PICK k \in 1..(jj - 1) : inbound[v][k] = Part(e, i)
        BY <2>1, <2>3, <2>4 DEF RequestsAccounted, EarlierIsAhead
    <2>6. Part(e, i) # m
        BY <1>6, <2>4 DEF Part
    <2>7. CASE v # w
        BY <1>20, <2>1, <2>5, <2>7
    <2>8. CASE v = w
        <3>1. jj = j + 1 /\ j \in Nat
            BY <1>22, <2>1, <2>8
        <3>2. k \in DOMAIN inbound[w]
            <4>1. PICK end : end = Len(inbound[w])
                OBVIOUS
            <4>2. end \in Nat /\ DOMAIN inbound[w] = 1..end
                BY <4>1, AccountedType
            <4>3. QED BY <2>1, <2>5, <2>8, <3>1, <4>2
        <3>3. k - 1 \in DOMAIN rest /\ rest[k - 1] = Part(e, i)
            BY <1>7, <2>5, <2>6, <2>8, <3>2
        <3>4. k - 1 >= 1
            BY <1>7, <3>3
        <3>5. k - 1 \in 1..(j - 1)
            BY <2>5, <3>1, <3>4
        <3>6. QED BY <1>20, <2>8, <3>3, <3>5
    <2>9. QED BY <2>7, <2>8
<1>26. \A id \in DOMAIN H : \A q :
          /\ Shows(w, id, q) => Shows(w, id, q)'
          /\ Advances(w, id, q) => Advances(w, id, q)'
    BY <1>5, <1>8 DEF Extends, Shows, Advances
<1>27. \A e \in requests[r].earlier : \A id \in Targets(e) :
          WorkerIndex[id] = w => Shows(w, id, e)
    BY <1>2, <1>3, <1>6, EarlierInEffect DEF Running
<1>28. DoneIsInEffect(r, part)'
    <2>0. PICK target : target = requests[r].route[part].id
        OBVIOUS
    <2>1. IsUpdate(r) => Shows(w, target, r)'
        BY <1>5, <1>8, <2>0 DEF Shows
    <2>2. ASSUME requests[r].op = "advance", NEW e \in requests[r].earlier,
                 NEW id \in Targets(e), WorkerIndex[id] = w
          PROVE  Advances(w, id, r)'
        <3>1. id \in DOMAIN H
            BY <1>5, <1>27, <2>2 DEF Shows
        <3>2. id \in DOMAIN A
            BY <1>8, <3>1 DEF Extends
        <3>3. QED BY <1>5, <1>8, <2>2, <3>2 DEF Advances
    <2>3. ASSUME requests[r].op = "query", IdsNotShared
          PROVE  requests[r].earlier \subseteq UNION answer
        <3>1. PICK id \in QueryIds : requests[r].route = <<Message(WorkerIndex[id], id, {})>>
            BY <1>6, <2>3 DEF WellRouted
        <3>2. part = 1 /\ requests[r].route[1].id = id /\ WorkerIndex[id] = w
            <4>1. PICK x : x = Message(WorkerIndex[id], id, {})
                OBVIOUS
            <4>2. requests[r].route = <<x>> /\ x.worker = WorkerIndex[id] /\ x.id = id
                BY <3>1, <4>1 DEF Message
            <4>3. DOMAIN requests[r].route = {1} /\ requests[r].route[1] = x
                BY <4>2
            <4>4. QED BY <1>6, <4>2, <4>3 DEF WorkerOf
        <3>3. ASSUME NEW e \in requests[r].earlier PROVE e \in UNION answer
            <4>1. id \in Targets(e)
                BY <1>6, <2>3, <3>2 DEF RequestsAccounted, EarlierIsSent
            <4>2. id \in DOMAIN H /\ e \in H[id].applied
                BY <1>5, <1>27, <2>3, <3>2, <4>1 DEF Shows
            <4>3. QED BY <1>8, <2>3, <3>2, <4>2
        <3>4. QED BY <3>3
    <2>4. \A e \in requests[r].earlier : e \in DOMAIN requests
        BY <1>6 DEF RequestsAccounted, EarlierIsSent
    <2>5. WorkerOf(r, part)' = w
        BY <1>6, <1>11
    <2>6. requests'[r].route[part].id = target
        BY <1>6, <1>12, <2>0
    <2>7. QED BY <1>6, <1>9, <1>11, <1>12, <2>6, <2>1, <2>2, <2>3, <2>4, <2>5 DEF DoneIsInEffect
<1>29. ASSUME NEW q \in DOMAIN requests, NEW i \in DOMAIN requests[q].replies,
              ~(q = r /\ i = part)
       PROVE  DoneIsInEffect(q, i)'
    <2>1. PICK v : v = WorkerOf(q, i)
        OBVIOUS
    <2>2. v \in Workers /\ WorkerOf(q, i)' = v /\ DoneIsInEffect(q, i)
          /\ requests'[q].replies[i] = requests[q].replies[i]
        BY <1>11, <1>14, <1>29, <2>1, AccountedType DEF RequestsAccounted
    <2>3. \A id : \A u : /\ Shows(v, id, u) => Shows(v, id, u)'
                         /\ Advances(v, id, u) => Advances(v, id, u)'
        <3>1. CASE v = w
            BY <1>5, <1>26, <3>1 DEF Shows, Advances
        <3>2. CASE v # w
            BY <1>8, <2>2, <3>2 DEF Shows, Advances
        <3>3. QED BY <3>1, <3>2
    <2>4. ASSUME requests[q].op = "query" PROVE requests'[q].answer = requests[q].answer
        <3>1. CASE q = r
            <4>1. PICK id \in QueryIds :
                     requests[q].route = <<Message(WorkerIndex[id], id, {})>>
                BY <1>6, <2>4, <3>1 DEF WellRouted
            <4>2. PICK x : x = Message(WorkerIndex[id], id, {})
                OBVIOUS
            <4>3. DOMAIN requests[q].route = {1}
                BY <4>1, <4>2
            <4>4. i \in DOMAIN requests[q].route
                BY AccountedType
            <4>5. QED BY <1>6, <1>29, <3>1, <4>3, <4>4
        <3>2. CASE q # r
            BY <1>9, <3>2
        <3>3. QED BY <3>1, <3>2
    <2>5. \A e \in requests[q].earlier : e \in DOMAIN requests
        BY DEF RequestsAccounted, EarlierIsSent
    <2>6. Running(v)' = Running(v)
        BY <1>15
    <2>7. QED BY <1>11, <1>12, <2>1, <2>2, <2>3, <2>4, <2>5, <2>6 DEF DoneIsInEffect
<1>30. ASSUME NEW q \in DOMAIN requests, NEW i \in DOMAIN requests[q].replies
       PROVE  PendingIsQueued(q, i)' /\ LostIsReal(q, i)' /\ DoneIsInEffect(q, i)'
    <2>1. PICK v : v = WorkerOf(q, i)
        OBVIOUS
    <2>2. /\ v \in Workers /\ WorkerOf(q, i)' = v
          /\ PendingIsQueued(q, i) /\ LostIsReal(q, i)
        BY <1>11, <2>1, AccountedType DEF RequestsAccounted
    <2>3. ASSUME requests'[q].replies[i] = "pending"
          PROVE  \E k \in DOMAIN inbound'[v] : inbound'[v][k] = Part(q, i)
        <3>1. requests[q].replies[i] = "pending" /\ ~(q = r /\ i = part)
            BY <1>14, <2>3
        <3>2. PICK k \in DOMAIN inbound[v] : inbound[v][k] = Part(q, i)
            BY <2>1, <2>2, <3>1 DEF PendingIsQueued
        <3>3. Part(q, i) # m
            BY <1>6, <3>1 DEF Part
        <3>4. CASE v = w
            BY <1>7, <1>20, <3>2, <3>3, <3>4
        <3>5. CASE v # w
            BY <1>20, <2>2, <3>2, <3>5
        <3>6. QED BY <3>4, <3>5
    <2>4. PendingIsQueued(q, i)'
        BY <2>2, <2>3 DEF PendingIsQueued, Part
    <2>5. LostIsReal(q, i)'
        <3>1. ASSUME requests'[q].replies[i] = "lost" PROVE ~Running(v)
            BY <1>14, <2>1, <2>2, <3>1 DEF LostIsReal
        <3>2. Running(WorkerOf(q, i))' = Running(v)'
            BY <2>2 DEF Running
        <3>3. Running(v)' = Running(v)
            BY <1>15
        <3>4. QED BY <3>1, <3>2, <3>3 DEF LostIsReal
    <2>6. DoneIsInEffect(q, i)'
        BY <1>28, <1>29
    <2>7. QED BY <2>4, <2>5, <2>6
<1>31. HistoriesKeepTheirType'
    <2>1. \A v \in Workers : v # w =>
             \A id \in DOMAIN history_by_id'[v] : \A t \in history_by_id'[v][id].types :
                [type |-> t, id |-> id] \in States
        BY <1>8 DEF RequestsAccounted, HistoriesKeepTheirType
    <2>2. QED BY <1>5, <1>8, <2>1 DEF HistoriesKeepTheirType
<1>32. \A q \in DOMAIN requests' :
          /\ SentInFull(q)' /\ EarlierIsSent(q)' /\ FailedIsReal(q)'
          /\ \A i \in DOMAIN requests'[q].replies :
                PendingIsQueued(q, i)' /\ LostIsReal(q, i)' /\ DoneIsInEffect(q, i)'
    BY <1>9, <1>14, <1>18, <1>30
<1>33. Len(requests') <= MaxRequests
    BY <1>9 DEF RequestsAccounted
<1>34. QED BY <1>16, <1>19, <1>24, <1>25, <1>31, <1>32, <1>33 DEF RequestsAccounted

-----------------------------------------------------------------------------
(***************************************************************************)
(* The steps of the clients.                                               *)
(***************************************************************************)
LEMMA InitAccounted == Init => RequestsAccounted
<1> SUFFICES ASSUME Init PROVE RequestsAccounted
    OBVIOUS
<1>1. /\ DOMAIN requests = {} /\ Len(requests) = 0 /\ requests \in Seq(RequestRecords)
      /\ \A c \in Clients : call[c] = 0
      /\ \A w \in Workers : inbound[w] = <<>> /\ DOMAIN history_by_id[w] = {}
    BY DEF Init
<1>2. 1 \in Workers /\ 0 \in 0..MaxRequests /\ 0 <= InboundCapacity
    BY ContimeAssumption DEF Workers
<1>3. TypeOK
    <2>1. call \in [Clients -> 0..MaxRequests]
        BY <1>2 DEF Init
    <2>2. \A w \in Workers :
             /\ Len(inbound[w]) <= InboundCapacity
             /\ history_by_id[w] \in [DOMAIN history_by_id[w] -> Histories]
        BY <1>2 DEF Init
    <2>3. inbound \in [Workers -> Seq([request : 0..MaxRequests, part : Nat])]
        BY DEF Init
    <2>4. owner \in [step : {"alive", "stop", "shutdown", "join", "gone"},
                     worker : Workers]
        BY <1>2 DEF Init, Alive
    <2>5. QED BY <1>1, <2>1, <2>2, <2>3, <2>4 DEF TypeOK, Init
<1>4. \A w \in Workers : DOMAIN inbound[w] = {}
    BY <1>1
<1>5. CallsAreOwn /\ QueuedOnce /\ EarlierIsAhead /\ HistoriesKeepTheirType
    BY <1>1, <1>4 DEF CallsAreOwn, QueuedOnce, EarlierIsAhead, HistoriesKeepTheirType
<1>6. 0 <= MaxRequests
    BY ContimeAssumption
<1>7. QED BY <1>1, <1>3, <1>5, <1>6 DEF RequestsAccounted

LEMMA BeginKeeps ==
    ASSUME RequestsAccounted, NEW c \in Clients,
           NEW op \in {"event", "snapshot", "query", "advance"},
           NEW event \in SUBSET EventLanes, NEW route \in Seq(RouteParts),
           Begin(c, op, event, route),
           WellRouted([op |-> op, event |-> event, route |-> route, replies |-> <<>>,
                       status |-> "sending", earlier |-> Earlier(op, route),
                       answer |-> {}]),
           Len(route) \in Nat \ {0}
    PROVE  RequestsAccounted'
<1>1. TypeOK /\ Len(requests) <= MaxRequests
    BY AccountedType DEF RequestsAccounted
<1>2. requests' \in Seq(RequestRecords)
    BY <1>1, BeginEffect
<1>3. Len(requests) + 1 \in 0..MaxRequests
    <2>1. Len(requests) \in Nat /\ Len(requests) < MaxRequests /\ MaxRequests \in Nat
        BY <1>1, LenProperties, ContimeAssumption DEF TypeOK, Begin
    <2>2. QED BY <2>1
<1>4. /\ call' = [call EXCEPT ![c] = Len(requests) + 1]
      /\ UNCHANGED <<inbound, is_running, thread, history_by_id, owner>>
    BY DEF Begin
<1>5. call' \in [Clients -> 0..MaxRequests]
    BY <1>1, <1>3, <1>4 DEF TypeOK
<1>6. TypeOK'
    BY <1>1, <1>2, <1>4, <1>5 DEF TypeOK
<1>7. QED BY <1>6, BeginAccounted

LEMMA IssueKeeps ==
    ASSUME RequestsAccounted, NEW c \in Clients, Issue(c)
    PROVE  RequestsAccounted'
<1> DEFINE new(op, event, route) ==
              [op |-> op, event |-> event, route |-> route, replies |-> <<>>,
               status |-> "sending", earlier |-> Earlier(op, route), answer |-> {}]
<1>1. ASSUME NEW e \in Events, Begin(c, "event", {e}, Route(snapshots(e)))
      PROVE  RequestsAccounted'
    <2>1. PICK op, event, route :
             op = "event" /\ event = {e} /\ route = Route(snapshots(e))
        OBVIOUS
    <2>2. WellRouted(new(op, event, route))
        BY <2>1 DEF WellRouted
    <2>3. new(op, event, route).route = route /\ new(op, event, route).event = event
        OBVIOUS
    <2>4. route \in Seq(RouteParts) /\ Len(route) \in Nat \ {0} /\ event \in SUBSET EventLanes
        BY <2>2, <2>3, RoutedType
    <2>5. QED BY <1>1, <2>1, <2>2, <2>4, BeginKeeps
<1>2. ASSUME NEW s \in Corrections, Begin(c, "snapshot", {}, Route(<<s>>))
      PROVE  RequestsAccounted'
    <2>1. PICK op, event, route : op = "snapshot" /\ event = {} /\ route = Route(<<s>>)
        OBVIOUS
    <2>2. WellRouted(new(op, event, route))
        BY <2>1 DEF WellRouted
    <2>3. new(op, event, route).route = route /\ new(op, event, route).event = event
        OBVIOUS
    <2>4. route \in Seq(RouteParts) /\ Len(route) \in Nat \ {0} /\ event \in SUBSET EventLanes
        BY <2>2, <2>3, RoutedType
    <2>5. QED BY <1>2, <2>1, <2>2, <2>4, BeginKeeps
<1>3. ASSUME NEW id \in QueryIds,
             Begin(c, "query", {}, <<Message(WorkerIndex[id], id, {})>>)
      PROVE  RequestsAccounted'
    <2>1. PICK op, event, route :
             op = "query" /\ event = {} /\ route = <<Message(WorkerIndex[id], id, {})>>
        OBVIOUS
    <2>2. WellRouted(new(op, event, route))
        BY <2>1 DEF WellRouted
    <2>3. new(op, event, route).route = route /\ new(op, event, route).event = event
        OBVIOUS
    <2>4. route \in Seq(RouteParts) /\ Len(route) \in Nat \ {0} /\ event \in SUBSET EventLanes
        BY <2>2, <2>3, RoutedType
    <2>5. QED BY <1>3, <2>1, <2>2, <2>4, BeginKeeps
<1>4. ASSUME Begin(c, "advance", {}, Broadcast)
      PROVE  RequestsAccounted'
    <2>1. PICK op, event, route : op = "advance" /\ event = {} /\ route = Broadcast
        OBVIOUS
    <2>2. WellRouted(new(op, event, route))
        BY <2>1 DEF WellRouted
    <2>3. new(op, event, route).route = route /\ new(op, event, route).event = event
        OBVIOUS
    <2>4. route \in Seq(RouteParts) /\ Len(route) \in Nat \ {0} /\ event \in SUBSET EventLanes
        BY <2>2, <2>3, RoutedType
    <2>5. QED BY <1>4, <2>1, <2>2, <2>4, BeginKeeps
<1>5. QED BY <1>1, <1>2, <1>3, <1>4
          DEF Issue, send_event, send_snapshot, query_at, send_advance

LEMMA SendKeeps ==
    ASSUME RequestsAccounted, NEW c \in Clients, Send(c)
    PROVE  RequestsAccounted'
<1>1. PICK r, part, w, st, last :
         /\ r = call[c] /\ part = Len(requests[r].replies) + 1
         /\ w = requests[r].route[part].worker
         /\ last = (part = Len(requests[r].route))
         /\ st = IF last THEN "sent" ELSE requests[r].status
    OBVIOUS
<1>2. TypeOK /\ r \in DOMAIN requests /\ requests[r].status = "sending"
    BY <1>1, AccountedType DEF RequestsAccounted, CallsAreOwn, Send
<1>3. part \in Nat /\ part \in DOMAIN requests[r].route /\ w \in Workers
    <2>1. /\ Len(requests[r].replies) \in Nat /\ Len(requests[r].route) \in Nat
          /\ DOMAIN requests[r].route = 1..Len(requests[r].route)
          /\ \A i \in DOMAIN requests[r].route : WorkerOf(r, i) \in Workers
        BY <1>2, AccountedType, RequestFields
    <2>2. Len(requests[r].replies) < Len(requests[r].route)
        BY <1>2 DEF RequestsAccounted, SentInFull
    <2>3. part \in Nat /\ part \in DOMAIN requests[r].route
        BY <1>1, <2>1, <2>2
    <2>4. QED BY <1>1, <2>1, <2>3 DEF WorkerOf
<1>4. /\ Becomes(r, Append(requests[r].replies, "pending"), st, requests[r].answer)
      /\ call' = [call EXCEPT ![c] = IF last THEN 0 ELSE r]
      /\ inbound' = [inbound EXCEPT ![w] = Append(inbound[w], Part(r, part))]
      /\ UNCHANGED <<is_running, thread, history_by_id, owner>>
      /\ Len(inbound[w]) < InboundCapacity
    BY <1>1, <1>2, SendEffect
<1>5. Part(r, part) \in Messages /\ r \in 0..MaxRequests /\ 0 \in 0..MaxRequests
    <2>1. r \in 0..MaxRequests /\ 0 \in 0..MaxRequests
        BY <1>1, <1>2, ContimeAssumption DEF TypeOK
    <2>2. QED BY <1>3, <2>1 DEF Part, Messages
<1>6. PICK q : q = Append(inbound[w], Part(r, part))
    OBVIOUS
<1>7. q \in Seq(Messages) /\ Len(q) <= InboundCapacity
    <2>1. PICK s, x : s = inbound[w] /\ x = Part(r, part)
        OBVIOUS
    <2>2. s \in Seq(Messages) /\ x \in Messages /\ q = Append(s, x)
          /\ Len(s) < InboundCapacity /\ Len(s) \in Nat /\ InboundCapacity \in Nat
        BY <1>3, <1>4, <1>5, <1>6, <2>1, AccountedType, ContimeAssumption DEF Messages
    <2>3. q \in Seq(Messages) /\ Len(q) = Len(s) + 1
        BY <2>2, AppendProperties
    <2>4. QED BY <2>2, <2>3
<1>8. TypeOK'
    <2>1. inbound' = [inbound EXCEPT ![w] = q]
        BY <1>4, <1>6
    <2>2. \A v \in Workers : Len(inbound'[v]) <= InboundCapacity
        BY <1>2, <1>7, <2>1 DEF TypeOK
    <2>3. inbound' \in [Workers -> Seq(Messages)]
        BY <1>2, <1>7, <2>1 DEF TypeOK, Messages
    <2>4. call' \in [Clients -> 0..MaxRequests]
        BY <1>2, <1>4, <1>5 DEF TypeOK
    <2>5. requests' \in Seq(RequestRecords)
        BY <1>4 DEF Becomes
    <2>6. QED BY <1>2, <1>4, <2>2, <2>3, <2>4, <2>5 DEF TypeOK, Messages
<1>9. QED BY <1>8, SendAccounted

\* Only the status of request r changes: the call or the wait has ended.
LEMMA StatusKeeps ==
    ASSUME RequestsAccounted, NEW r \in DOMAIN requests,
           NEW status \in {"ok", "error", "worker_dropped"},
           requests' = [requests EXCEPT ![r].status = status],
           UNCHANGED <<inbound, is_running, thread, history_by_id, owner>>,
           call' \in [Clients -> 0..MaxRequests],
           \A c \in Clients : call'[c] # 0 => call'[c] = call[c] /\ call'[c] # r,
           status = "error" => requests[r].status = "sending",
           status \in {"ok", "worker_dropped"} => requests[r].status = "sent",
           status = "ok" => \A i \in DOMAIN requests[r].replies :
                              requests[r].replies[i] = "done",
           status \in {"error", "worker_dropped"}
             => \E i \in DOMAIN requests[r].route : ~Running(WorkerOf(r, i))
    PROVE  RequestsAccounted'
<1>1. Becomes(r, requests[r].replies, status, requests[r].answer)
    <2>1. TypeOK
        BY AccountedType
    <2>2. QED BY <2>1, StatusEffect DEF TypeOK
<1>2. TypeOK'
    <2>1. requests' \in Seq(RequestRecords)
        BY <1>1 DEF Becomes
    <2>2. QED BY <2>1, AccountedType DEF TypeOK
<1>3. QED BY <1>1, <1>2, StatusAccounted

LEMMA SendFailsKeeps ==
    ASSUME RequestsAccounted, NEW c \in Clients, SendFails(c)
    PROVE  RequestsAccounted'
<1>1. PICK r, part : r = call[c] /\ part = Len(requests[r].replies) + 1
    OBVIOUS
<1>2. /\ r # 0 /\ thread[requests[r].route[part].worker] = "exited"
      /\ requests' = [requests EXCEPT ![r].status = "error"]
      /\ call' = [call EXCEPT ![c] = 0]
      /\ UNCHANGED <<inbound, is_running, thread, history_by_id, owner>>
    BY <1>1 DEF SendFails
<1>3. /\ TypeOK /\ r \in DOMAIN requests /\ requests[r].status = "sending"
      /\ \A d \in Clients : call[d] = r => d = c
    BY <1>1, <1>2, AccountedType DEF RequestsAccounted, CallsAreOwn
<1>4. part \in DOMAIN requests[r].route
    <2>1. /\ Len(requests[r].replies) \in Nat /\ Len(requests[r].route) \in Nat
          /\ DOMAIN requests[r].route = 1..Len(requests[r].route)
        BY <1>3, AccountedType, RequestFields
    <2>2. Len(requests[r].replies) < Len(requests[r].route)
        BY <1>3 DEF RequestsAccounted, SentInFull
    <2>3. QED BY <1>1, <2>1, <2>2
<1>5. \E i \in DOMAIN requests[r].route : ~Running(WorkerOf(r, i))
    BY <1>2, <1>4 DEF Running, WorkerOf
<1>6. /\ call' \in [Clients -> 0..MaxRequests]
      /\ \A d \in Clients : call'[d] # 0 => call'[d] = call[d] /\ call'[d] # r
    BY <1>2, <1>3, ContimeAssumption DEF TypeOK
<1>7. QED BY <1>2, <1>3, <1>5, <1>6, StatusKeeps

LEMMA WaitKeeps ==
    ASSUME RequestsAccounted, NEW r, WaitStep(r)
    PROVE  RequestsAccounted'
<1>1. r \in DOMAIN requests /\ requests[r].status = "sent" /\ TypeOK
    BY AccountedType DEF WaitStep, wait_ok, wait_fails
<1>2. \A c \in Clients : call[c] # 0 => call[c] # r
    BY <1>1 DEF RequestsAccounted, CallsAreOwn
<1>3. CASE wait_ok(r)
    <2>1. /\ \A i \in DOMAIN requests[r].replies : requests[r].replies[i] = "done"
          /\ requests' = [requests EXCEPT ![r].status = "ok"]
          /\ UNCHANGED <<call, inbound, is_running, thread, history_by_id, owner>>
        BY <1>3 DEF wait_ok
    <2>2. call' \in [Clients -> 0..MaxRequests]
        BY <1>1, <2>1 DEF TypeOK
    <2>3. QED BY <1>1, <1>2, <2>1, <2>2, StatusKeeps
<1>4. CASE wait_fails(r)
    <2>1. /\ requests' = [requests EXCEPT ![r].status = "worker_dropped"]
          /\ UNCHANGED <<call, inbound, is_running, thread, history_by_id, owner>>
        BY <1>4 DEF wait_fails
    <2>2. PICK i \in DOMAIN requests[r].replies : requests[r].replies[i] = "lost"
        BY <1>4 DEF wait_fails
    <2>3. i \in DOMAIN requests[r].route /\ ~Running(WorkerOf(r, i))
        BY <1>1, <2>2, AccountedType DEF RequestsAccounted, LostIsReal
    <2>4. call' \in [Clients -> 0..MaxRequests]
        BY <1>1, <2>1 DEF TypeOK
    <2>5. QED BY <1>1, <1>2, <2>1, <2>3, <2>4, StatusKeeps
<1>5. QED BY <1>3, <1>4 DEF WaitStep

(***************************************************************************)
(* The steps that leave the requests alone.                                *)
(***************************************************************************)
LEMMA CheckKeeps ==
    ASSUME RequestsAccounted, NEW w \in Workers, Check(w)
    PROVE  RequestsAccounted'
<1>1. TypeOK
    BY AccountedType
<1>2. /\ UNCHANGED <<requests, call, inbound, is_running, history_by_id, owner>>
      /\ thread[w] = "checking" /\ thread' = [thread EXCEPT ![w] = "receiving"]
    BY DEF Check
<1>3. TypeOK'
    BY <1>1, <1>2 DEF TypeOK
<1>4. \A v \in Workers : Running(v)' = Running(v)
    BY <1>1, <1>2 DEF TypeOK, Running
<1>5. QED BY <1>2, <1>3, <1>4, FrameAccounted

LEMMA OwnerKeeps ==
    ASSUME RequestsAccounted, DropBegins \/ ClearFlag
    PROVE  RequestsAccounted'
<1>1. TypeOK
    BY AccountedType
<1>2. UNCHANGED <<requests, call, inbound, thread, history_by_id>>
    BY DEF DropBegins, ClearFlag
<1>3. TypeOK'
    <2>1. is_running' \in [Workers -> BOOLEAN]
        BY <1>1 DEF TypeOK, DropBegins, ClearFlag
    <2>2. owner' \in [step : {"alive", "stop", "shutdown", "join", "gone"},
                      worker : Workers]
        BY <1>1 DEF TypeOK, DropBegins, ClearFlag
    <2>3. QED BY <1>1, <1>2, <2>1, <2>2 DEF TypeOK
<1>4. \A v \in Workers : Running(v)' = Running(v)
    BY <1>2 DEF Running
<1>5. QED BY <1>2, <1>3, <1>4, FrameAccounted

LEMMA SendShutdownKeeps ==
    ASSUME RequestsAccounted, SendShutdown
    PROVE  RequestsAccounted'
<1>1. PICK w, x : w = owner.worker /\ x = Shutdown
    OBVIOUS
<1>2. /\ TypeOK /\ w \in Workers /\ x \in Messages
    <2>1. TypeOK
        BY AccountedType
    <2>2. w \in Workers
        BY <1>1, <2>1 DEF TypeOK
    <2>3. x \in Messages
        BY <1>1, ContimeAssumption DEF Shutdown, Messages
    <2>4. QED BY <2>1, <2>2, <2>3
<1>3. /\ UNCHANGED <<requests, call, is_running, thread, history_by_id>>
      /\ owner' = [owner EXCEPT !.step = "join"]
      /\ \/ inbound' = inbound
         \/ /\ Len(inbound[w]) < InboundCapacity
            /\ inbound' = [inbound EXCEPT ![w] = Append(@, x)]
    BY <1>1 DEF SendShutdown
<1>4. owner' \in [step : {"alive", "stop", "shutdown", "join", "gone"}, worker : Workers]
    BY <1>2, <1>3 DEF TypeOK
<1>5. \A v \in Workers : Running(v)' = Running(v)
    BY <1>3 DEF Running
<1>6. CASE inbound' = inbound
    <2>1. TypeOK'
        BY <1>2, <1>3, <1>4, <1>6 DEF TypeOK
    <2>2. QED BY <1>3, <1>5, <1>6, <2>1, FrameAccounted
<1>7. CASE /\ Len(inbound[w]) < InboundCapacity
           /\ inbound' = [inbound EXCEPT ![w] = Append(@, x)]
    <2>1. PICK s, t : s = inbound[w] /\ t = Append(s, x)
        OBVIOUS
    <2>2. s \in Seq(Messages) /\ Len(s) \in Nat /\ Len(s) < InboundCapacity
          /\ InboundCapacity \in Nat
        BY <1>2, <1>7, <2>1, AccountedType, ContimeAssumption DEF Messages
    <2>3. /\ DOMAIN t = 1..(Len(s) + 1) /\ t[Len(s) + 1] = x
          /\ \A j \in DOMAIN s : j \in DOMAIN t /\ t[j] = s[j]
          /\ \A j \in DOMAIN t : j \in DOMAIN s \/ j = Len(s) + 1
        BY <1>2, <2>1, <2>2, Appended
    <2>4. t \in Seq(Messages) /\ Len(t) = Len(s) + 1
        BY <1>2, <2>1, <2>2, AppendProperties
    <2>5. inbound' = [inbound EXCEPT ![w] = t]
        BY <1>7, <2>1
    <2>6. /\ inbound'[w] = t /\ \A v \in Workers : v # w => inbound'[v] = inbound[v]
          /\ inbound' \in [Workers -> Seq(Messages)]
        BY <1>2, <2>4, <2>5 DEF TypeOK, Messages
    <2>7. \A v \in Workers : Len(inbound'[v]) <= InboundCapacity
        <3>1. Len(t) <= InboundCapacity
            BY <2>2, <2>4
        <3>2. QED BY <1>2, <2>6, <3>1 DEF TypeOK
    <2>8. TypeOK'
        BY <1>2, <1>3, <1>4, <2>6, <2>7 DEF TypeOK, Messages
    <2>9. \A v \in Workers :
             /\ DOMAIN inbound[v] \subseteq DOMAIN inbound'[v]
             /\ \A j \in DOMAIN inbound[v] : inbound'[v][j] = inbound[v][j]
             /\ \A j \in DOMAIN inbound'[v] :
                   j \in DOMAIN inbound[v] \/ inbound'[v][j] = Shutdown
        BY <1>1, <2>1, <2>3, <2>6
    <2>10. QED BY <1>3, <1>5, <2>8, <2>9, FrameAccounted
<1>8. QED BY <1>3, <1>6, <1>7

LEMMA StutterKeeps ==
    ASSUME RequestsAccounted, UNCHANGED vars
    PROVE  RequestsAccounted'
<1>1. UNCHANGED <<requests, call, inbound, is_running, thread, history_by_id, owner>>
    BY DEF vars
<1>2. TypeOK'
    BY <1>1, AccountedType DEF TypeOK
<1>3. \A v \in Workers : Running(v)' = Running(v)
    BY <1>1 DEF Running
<1>4. QED BY <1>1, <1>2, <1>3, FrameAccounted

LEMMA NextAccounted ==
    ASSUME RequestsAccounted, [Next]_vars
    PROVE  RequestsAccounted'
<1>1. ASSUME NEW c \in Clients, Issue(c) \/ ClientStep(c)
      PROVE  RequestsAccounted'
    BY <1>1, IssueKeeps, SendKeeps, SendFailsKeeps DEF ClientStep
<1>2. ASSUME NEW r \in 1..MaxRequests, WaitStep(r)
      PROVE  RequestsAccounted'
    BY <1>2, WaitKeeps
<1>3. ASSUME NEW w \in Workers, WorkerStep(w)
      PROVE  RequestsAccounted'
    BY <1>3, CheckKeeps, StopAccounted, ReceiveShutdownAccounted, ReceiveAccounted,
       PanicAccounted DEF WorkerStep
<1>4. CASE DropBegins
    BY <1>4, OwnerKeeps
<1>5. CASE OwnerStep
    BY <1>5, OwnerKeeps, SendShutdownKeeps, JoinAccounted DEF OwnerStep
<1>6. CASE Over \/ UNCHANGED vars
    BY <1>6, StutterKeeps DEF Over
<1>7. QED BY <1>1, <1>2, <1>3, <1>4, <1>5, <1>6 DEF Next
-----------------------------------------------------------------------------
(***************************************************************************)
(* What the invariant says of the answers the clients get.                 *)
(***************************************************************************)
LEMMA AccountedImpliesApplied ==
    RequestsAccounted /\ IdsNotShared => AcknowledgedIsApplied
<1> SUFFICES ASSUME RequestsAccounted, IdsNotShared, NEW r \in DOMAIN requests,
                    requests[r].status = "ok", IsUpdate(r),
                    NEW id \in Targets(r), Running(WorkerIndex[id])
             PROVE  Shows(WorkerIndex[id], id, r)
    BY DEF AcknowledgedIsApplied, IsUpdate, Shows
<1>1. SentInFull(r)
    BY DEF RequestsAccounted
<1>2. PICK i \in DOMAIN requests[r].route :
         requests[r].route[i].id = id /\ WorkerOf(r, i) = WorkerIndex[id]
    BY <1>1, TargetRouted DEF SentInFull
<1>3. i \in DOMAIN requests[r].replies
    <2>1. Len(requests[r].replies) = Len(requests[r].route)
        BY <1>1 DEF SentInFull, Sent
    <2>2. QED BY <2>1, AccountedType, RequestFields
<1>4. requests[r].replies[i] = "done" /\ DoneIsInEffect(r, i)
    BY <1>1, <1>3 DEF SentInFull, RequestsAccounted
<1>5. QED BY <1>2, <1>4 DEF DoneIsInEffect

LEMMA AccountedImpliesSeen ==
    RequestsAccounted /\ IdsNotShared => QueriesSeeEarlierSends
<1> SUFFICES ASSUME RequestsAccounted, IdsNotShared, NEW r \in DOMAIN requests,
                    requests[r].status = "ok", requests[r].op = "query"
             PROVE  requests[r].earlier \subseteq UNION requests[r].answer
    BY DEF QueriesSeeEarlierSends
<1>1. SentInFull(r)
    BY DEF RequestsAccounted
<1>2. 1 \in DOMAIN requests[r].replies
    <2>1. Len(requests[r].replies) = Len(requests[r].route)
        BY <1>1 DEF SentInFull, Sent
    <2>2. Len(requests[r].route) \in Nat \ {0}
        <3>1. PICK q : q = requests[r]
            OBVIOUS
        <3>2. WellRouted(q)
            BY <1>1, <3>1 DEF SentInFull
        <3>3. QED BY <3>1, <3>2, RoutedType
    <2>3. QED BY <2>1, <2>2, AccountedType, RequestFields
<1>3. requests[r].replies[1] = "done" /\ DoneIsInEffect(r, 1)
    BY <1>1, <1>2 DEF SentInFull, RequestsAccounted
<1>4. QED BY <1>3 DEF DoneIsInEffect

LEMMA AccountedImpliesAdvanced == RequestsAccounted => AcknowledgedAdvanceReachedAll
<1> SUFFICES ASSUME RequestsAccounted, NEW r \in DOMAIN requests,
                    requests[r].status = "ok", requests[r].op = "advance",
                    NEW e \in requests[r].earlier, NEW id \in Targets(e),
                    Running(WorkerIndex[id])
             PROVE  Advances(WorkerIndex[id], id, r)
    BY DEF AcknowledgedAdvanceReachedAll, Advances
<1>1. SentInFull(r) /\ EarlierIsSent(r)
    BY DEF RequestsAccounted
<1>2. WorkerIndex[id] \in Workers
    <2>1. e \in DOMAIN requests /\ IsUpdate(e) /\ SentInFull(e)
        BY <1>1 DEF EarlierIsSent, RequestsAccounted
    <2>2. PICK i \in DOMAIN requests[e].route : WorkerOf(e, i) = WorkerIndex[id]
        BY <2>1, TargetRouted DEF SentInFull
    <2>3. QED BY <2>1, <2>2, AccountedType, RequestFields
<1>3. PICK w : w = WorkerIndex[id]
    OBVIOUS
<1>4. w \in DOMAIN requests[r].replies /\ WorkerOf(r, w) = w
    <2>1. requests[r].route = Broadcast
        BY <1>1 DEF SentInFull, WellRouted
    <2>2. w \in DOMAIN Broadcast /\ Broadcast[w] = Message(w, 0, {})
        BY <1>2, <1>3, BroadcastType
    <2>3. Len(requests[r].replies) = Len(requests[r].route)
        BY <1>1 DEF SentInFull, Sent
    <2>4. DOMAIN requests[r].replies = DOMAIN requests[r].route
        BY <2>3, AccountedType, RequestFields
    <2>5. QED BY <2>1, <2>2, <2>4 DEF WorkerOf, Message
<1>5. requests[r].replies[w] = "done" /\ DoneIsInEffect(r, w)
    BY <1>1, <1>4 DEF SentInFull, RequestsAccounted
<1>6. QED BY <1>3, <1>4, <1>5 DEF DoneIsInEffect

LEMMA AccountedImpliesReal == RequestsAccounted => FailuresAreReal
<1> SUFFICES ASSUME RequestsAccounted, NEW r \in DOMAIN requests,
                    ContimeErrors(r) \cap {"RouterError", "WorkerDropped"} # {}
             PROVE  \E i \in DOMAIN requests[r].route : ~Running(WorkerOf(r, i))
    BY DEF FailuresAreReal, WorkerOf
<1>1. requests[r].status \in {"error", "worker_dropped"}
    BY DEF ContimeErrors, BlockingError, HandleOrError, FromRouterError, FromHandleError
<1>2. QED BY <1>1 DEF RequestsAccounted, FailedIsReal
-----------------------------------------------------------------------------
\* Every part of every request is queued once at its worker, done and in effect
\* there, or lost with the thread, and updates sent before a request are ahead
\* of it (src/router.rs, src/worker.rs).
THEOREM RequestsStayAccounted == Spec => []RequestsAccounted
<1>1. Init => RequestsAccounted
    BY InitAccounted
<1>2. RequestsAccounted /\ [Next]_vars => RequestsAccounted'
    BY NextAccounted
<1>3. QED BY <1>1, <1>2, PTL DEF Spec

\* The state has its type; no inbound channel holds more than its capacity.
THEOREM ContimeTypeCorrect == Spec => []TypeOK
<1>1. RequestsAccounted => TypeOK
    BY DEF RequestsAccounted
<1>2. QED BY <1>1, RequestsStayAccounted, PTL

\* Nobody is told of a failure while every worker of the request still runs.
THEOREM FailuresStayReal == Spec => []FailuresAreReal
BY RequestsStayAccounted, AccountedImpliesReal, PTL

\* An acknowledged advance has reached every history of the updates before it.
THEOREM AdvancesReachEarlierUpdates == Spec => []AcknowledgedAdvanceReachedAll
BY RequestsStayAccounted, AccountedImpliesAdvanced, PTL

\* An update whose handle reported success shows in the states of every history
\* it targets, whatever the other clients send and whichever workers panic.
THEOREM AcknowledgedStaysApplied ==
    ASSUME IdsNotShared PROVE Spec => []AcknowledgedIsApplied
<1>1. RequestsAccounted => AcknowledgedIsApplied
    BY AccountedImpliesApplied
<1>2. QED BY <1>1, RequestsStayAccounted, PTL

\* A query sees all that any client had finished sending for its id before it
\* began: the worker's channel keeps the order of the sends.
THEOREM QueriesAreCurrent ==
    ASSUME IdsNotShared PROVE Spec => []QueriesSeeEarlierSends
<1>1. RequestsAccounted => QueriesSeeEarlierSends
    BY AccountedImpliesSeen
<1>2. QED BY <1>1, RequestsStayAccounted, PTL

-----------------------------------------------------------------------------
(***************************************************************************)
(* Contime implements Store, step by step: sending is invisible, each      *)
(* answer is the instant at which its part takes effect, and a worker that *)
(* ends takes its contents and some of its open parts with it.             *)
(***************************************************************************)
(***************************************************************************)
(* What the mapping makes of a request.                                    *)
(***************************************************************************)
LEMMA FateOf ==
    ASSUME NEW q
    PROVE  /\ DOMAIN Fate(q) = DOMAIN q.route
           /\ Fate(q) = [i \in DOMAIN q.route |-> Fate(q)[i]]
           /\ \A i \in DOMAIN q.route :
                 /\ i \in DOMAIN q.replies /\ q.replies[i] = "pending" => Fate(q)[i] = "open"
                 /\ i \in DOMAIN q.replies /\ q.replies[i] # "pending"
                       => Fate(q)[i] = q.replies[i]
                 /\ i \notin DOMAIN q.replies /\ q.status = "error" => Fate(q)[i] = "lost"
                 /\ i \notin DOMAIN q.replies /\ q.status # "error" => Fate(q)[i] = "open"
BY DEF Fate

LEMMA CallsOf ==
    /\ DOMAIN StoreCalls = DOMAIN requests
    /\ \A r \in DOMAIN requests :
          /\ StoreCalls[r] = StoreCall(requests[r])
          /\ StoreCalls[r].op = requests[r].op
          /\ StoreCalls[r].parts = Places(requests[r].route)
          /\ StoreCalls[r].fate = Fate(requests[r])
          /\ StoreCalls[r].answer = requests[r].answer
          /\ StoreCalls[r].outcome = Reported(requests[r].status)
BY DEF StoreCalls, StoreCall

LEMMA PlaceOf ==
    ASSUME NEW route, NEW i \in DOMAIN route
    PROVE  /\ i \in DOMAIN Places(route)
           /\ Places(route)[i].worker = route[i].worker
           /\ Places(route)[i].id = route[i].id
BY DEF Places

\* What a step that changes one request does to the calls.
LEMMA BecomesCall ==
    ASSUME NEW r \in DOMAIN requests, NEW replies, NEW status, NEW answer,
           Becomes(r, replies, status, answer), NEW fate, fate = Fate(requests[r])'
    PROVE  StoreCalls' = [StoreCalls EXCEPT ![r] =
              [op |-> StoreCalls[r].op, parts |-> StoreCalls[r].parts, fate |-> fate,
               answer |-> answer, outcome |-> Reported(status)]]
<1> DEFINE new == [op |-> StoreCalls[r].op, parts |-> StoreCalls[r].parts, fate |-> fate,
                   answer |-> answer, outcome |-> Reported(status)]
<1>1. DOMAIN requests' = DOMAIN requests
      /\ \A q \in DOMAIN requests : q # r => requests'[q] = requests[q]
    BY DEF Becomes
<1>2. StoreCall(requests[r])' = new
    BY CallsOf DEF Becomes, StoreCall
<1>3. \A q \in DOMAIN requests : q # r => StoreCall(requests[q])' = StoreCall(requests[q])
    BY <1>1 DEF StoreCall, Fate
<1>4. StoreCalls' = [q \in DOMAIN requests |-> StoreCall(requests[q])']
    BY <1>1 DEF StoreCalls
<1> HIDE DEF new
<1>5. StoreCalls' = [StoreCalls EXCEPT ![r] = new]
    BY <1>2, <1>3, <1>4 DEF StoreCalls
<1>6. QED BY <1>5 DEF new

\* Steps that leave replies and results as they are leave the calls.
LEMMA SameCalls ==
    ASSUME requests' = requests
    PROVE  StoreCalls' = StoreCalls
BY DEF StoreCalls, StoreCall, Fate

LEMMA SameContent ==
    ASSUME history_by_id' = history_by_id
    PROVE  StoreContent' = StoreContent
BY DEF StoreContent, Kept

LEMMA SameDown ==
    ASSUME thread' = thread
    PROVE  StoreDown' = StoreDown
BY DEF StoreDown
-----------------------------------------------------------------------------
(***************************************************************************)
(* Clients.                                                                *)
(***************************************************************************)
LEMMA BeginIsCall ==
    ASSUME RequestsAccounted, NEW c \in Clients,
           NEW op \in {"event", "snapshot", "query", "advance"},
           NEW event \in SUBSET EventLanes, NEW route \in Seq(RouteParts),
           Begin(c, op, event, route), Kind(op, route) \in StoreKinds
    PROVE  Promise!Next
<1>0. PICK n : n = Len(requests)
    OBVIOUS
<1> DEFINE kind == Kind(op, route)
           new  == [op |-> kind.op, parts |-> kind.parts,
                    fate |-> [i \in DOMAIN kind.parts |-> "open"],
                    answer |-> {}, outcome |-> "open"]
           q    == [op |-> op, event |-> event, route |-> route, replies |-> <<>>,
                    status |-> "sending", earlier |-> Earlier(op, route), answer |-> {}]
<1>1. /\ TypeOK /\ n \in Nat /\ n <= MaxRequests /\ DOMAIN requests = 1..n
    BY <1>0, AccountedType, LenProperties DEF RequestsAccounted
<1>2. /\ DOMAIN requests' = 1..(n + 1)
      /\ \A r \in 1..n : requests'[r] = requests[r]
      /\ requests'[n + 1] = q
    <2>1. /\ DOMAIN requests' = DOMAIN requests \cup {Len(requests) + 1}
          /\ \A r \in DOMAIN requests : requests'[r] = requests[r]
          /\ requests'[Len(requests) + 1] = q
        BY <1>0, <1>1, BeginEffect
    <2> HIDE DEF q
    <2>2. QED BY <1>0, <1>1, <2>1
<1>3. StoreCall(requests[n + 1])' = new
    <2>1. /\ q.op = op /\ q.route = route /\ q.answer = {} /\ q.status = "sending"
          /\ q.replies = <<>> /\ DOMAIN <<>> = {}
        OBVIOUS
    <2>2. /\ DOMAIN Fate(q) = DOMAIN route
          /\ Fate(q) = [i \in DOMAIN route |-> Fate(q)[i]]
          /\ \A i \in DOMAIN route : Fate(q)[i] = "open"
        BY <2>1, FateOf
    <2>3. Fate(q) = [i \in DOMAIN route |-> "open"]
        BY <2>2
    <2>4. kind.op = op /\ kind.parts = Places(route) /\ DOMAIN Places(route) = DOMAIN route
        BY DEF Kind, Places
    <2>5. StoreCall(q) = new
        BY <2>1, <2>3, <2>4 DEF StoreCall, Reported
    <2> HIDE DEF q, new
    <2>6. QED BY <1>2, <2>5 DEF StoreCall, Fate
<1> HIDE DEF q, new
<1>4. \A r \in 1..n : StoreCall(requests[r])' = StoreCall(requests[r])
    BY <1>2 DEF StoreCall, Fate
<1>5. /\ StoreCalls' = [r \in 1..(n + 1) |-> StoreCall(requests[r])']
      /\ StoreCalls = [r \in 1..n |-> StoreCall(requests[r])]
    BY <1>1, <1>2 DEF StoreCalls
<1>6. StoreCalls' = Append(StoreCalls, new)
    <2>1. PICK S : S = {StoreCall(requests[r]) : r \in 1..n} \cup {new}
        OBVIOUS
    <2>2. StoreCalls \in [1..n -> S] /\ new \in S
        BY <1>5, <2>1
    <2>3. StoreCalls \in Seq(S) /\ Len(StoreCalls) = n
        BY <1>1, <2>2, IsASeq
    <2>4. /\ Append(StoreCalls, new) \in Seq(S)
          /\ Len(Append(StoreCalls, new)) = n + 1
          /\ \A r \in 1..n : Append(StoreCalls, new)[r] = StoreCalls[r]
          /\ Append(StoreCalls, new)[n + 1] = new
        BY <2>2, <2>3, AppendProperties
    <2>5. Append(StoreCalls, new) = [r \in 1..(n + 1) |-> Append(StoreCalls, new)[r]]
        BY <2>4, LenProperties
    <2>6. \A r \in 1..(n + 1) : Append(StoreCalls, new)[r] = StoreCall(requests[r])'
        BY <1>1, <1>3, <1>4, <1>5, <2>4
    <2>7. QED BY <1>5, <2>5, <2>6
<1>7. StoreContent' = StoreContent /\ StoreDown' = StoreDown
    BY SameContent, SameDown DEF Begin
<1>8. Promise!Call(kind)
    BY <1>6, <1>7 DEF Promise!Call, new
<1>9. QED BY <1>8 DEF Promise!Next

LEMMA IssueIsCall ==
    ASSUME RequestsAccounted, NEW c \in Clients, Issue(c)
    PROVE  Promise!Next
<1>1. ASSUME NEW e \in Events, Begin(c, "event", {e}, Route(snapshots(e)))
      PROVE  Promise!Next
    <2>1. PICK op, event, route :
             op = "event" /\ event = {e} /\ route = Route(snapshots(e))
        OBVIOUS
    <2>2. snapshots(e) \in Seq(States)
        BY StatesOfEvent
    <2>3. route \in Seq(RouteParts) /\ event \in SUBSET EventLanes
          /\ Kind(op, route) \in StoreKinds
        BY <2>1, <2>2, RouteType, ContimeAssumption DEF StoreKinds
    <2>4. QED BY <1>1, <2>1, <2>3, BeginIsCall
<1>2. ASSUME NEW s \in Corrections, Begin(c, "snapshot", {}, Route(<<s>>))
      PROVE  Promise!Next
    <2>1. PICK op, event, route : op = "snapshot" /\ event = {} /\ route = Route(<<s>>)
        OBVIOUS
    <2>2. route \in Seq(RouteParts) /\ event \in SUBSET EventLanes
          /\ Kind(op, route) \in StoreKinds
        BY <2>1, CorrectionRoute DEF StoreKinds
    <2>3. QED BY <1>2, <2>1, <2>2, BeginIsCall
<1>3. ASSUME NEW id \in QueryIds,
             Begin(c, "query", {}, <<Message(WorkerIndex[id], id, {})>>)
      PROVE  Promise!Next
    <2>1. PICK op, event, route :
             op = "query" /\ event = {} /\ route = <<Message(WorkerIndex[id], id, {})>>
        OBVIOUS
    <2>2. route \in Seq(RouteParts) /\ event \in SUBSET EventLanes
          /\ Kind(op, route) \in StoreKinds
        BY <2>1, QueryMessageType, SingleRoute DEF StoreKinds
    <2>3. QED BY <1>3, <2>1, <2>2, BeginIsCall
<1>4. ASSUME Begin(c, "advance", {}, Broadcast)
      PROVE  Promise!Next
    <2>1. PICK op, event, route : op = "advance" /\ event = {} /\ route = Broadcast
        OBVIOUS
    <2>2. route \in Seq(RouteParts) /\ event \in SUBSET EventLanes
          /\ Kind(op, route) \in StoreKinds
        BY <2>1, BroadcastType DEF StoreKinds
    <2>3. QED BY <1>4, <2>1, <2>2, BeginIsCall
<1>5. QED BY <1>1, <1>2, <1>3, <1>4
          DEF Issue, send_event, send_snapshot, query_at, send_advance

\* A client inside a call.
LEMMA Calling ==
    ASSUME RequestsAccounted, NEW c \in Clients, call[c] # 0
    PROVE  /\ call[c] \in DOMAIN requests /\ requests[call[c]].status = "sending"
           /\ requests[call[c]].replies \in Seq(Replies)
           /\ Len(requests[call[c]].replies) \in Nat
           /\ DOMAIN requests[call[c]].replies = 1..Len(requests[call[c]].replies)
           /\ Len(requests[call[c]].replies) + 1 \in DOMAIN requests[call[c]].route
<1>1. call[c] \in DOMAIN requests /\ requests[call[c]].status = "sending"
    BY DEF RequestsAccounted, CallsAreOwn
<1>2. Len(requests[call[c]].replies) < Len(requests[call[c]].route)
    BY <1>1 DEF RequestsAccounted, SentInFull
<1>3. QED BY <1>1, <1>2, AccountedType, RequestFields

\* Sending a part is invisible: it was open and still is.
LEMMA SendIsInvisible ==
    ASSUME RequestsAccounted, NEW c \in Clients, Send(c)
    PROVE  UNCHANGED Promise!vars
<1>1. PICK r, part, last, replies, status, answer :
         /\ r = call[c] /\ part = Len(requests[r].replies) + 1
         /\ last = (part = Len(requests[r].route))
         /\ replies = Append(requests[r].replies, "pending")
         /\ status = IF last THEN "sent" ELSE requests[r].status
         /\ answer = requests[r].answer
    OBVIOUS
<1>2. call[c] # 0
    BY DEF Send
<1>3. /\ r \in DOMAIN requests /\ requests[r].status = "sending"
      /\ requests[r].replies \in Seq(Replies)
      /\ part \in Nat /\ DOMAIN requests[r].replies = 1..(part - 1)
      /\ Len(requests[r].replies) = part - 1
      /\ part \in DOMAIN requests[r].route
    BY <1>1, <1>2, Calling
<1>4. Becomes(r, replies, status, answer) /\ thread' = thread
      /\ history_by_id' = history_by_id
    BY <1>1, <1>3, AccountedType, SendEffect
<1>5. /\ DOMAIN replies = 1..part /\ replies[part] = "pending"
      /\ \A i \in 1..(part - 1) : replies[i] = requests[r].replies[i]
    <2>1. "pending" \in Replies
        BY DEF Replies
    <2>2. QED BY <1>1, <1>3, <2>1, AppendProperties, LenProperties
<1>6. PICK q : q = requests'[r]
    OBVIOUS
<1>7. q.route = requests[r].route /\ q.replies = replies /\ q.status = status
    BY <1>4, <1>6 DEF Becomes
<1>8. status # "error" /\ Reported(status) = Reported(requests[r].status)
    BY <1>1, <1>3 DEF Reported
<1>9. Fate(q) = Fate(requests[r])
    <2>1. \A i \in DOMAIN q.route : Fate(q)[i] = Fate(requests[r])[i]
        BY <1>3, <1>5, <1>7, <1>8 DEF Fate
    <2>2. QED BY <1>7, <2>1 DEF Fate
<1>10. Fate(requests[r])' = Fate(requests[r])
    BY <1>6, <1>9 DEF Fate
<1>11. StoreCall(requests[r])' = StoreCall(requests[r])
    BY <1>1, <1>4, <1>8, <1>10 DEF StoreCall, Becomes
<1>12. StoreCalls' = StoreCalls
    BY <1>4, <1>11 DEF StoreCalls, Becomes, StoreCall, Fate
<1>13. QED BY <1>4, <1>12, SameContent, SameDown DEF Promise!vars

\* A call that fails abandons the part it is turned away with and those it has
\* not come to.
LEMMA SendFailsIsAbandon ==
    ASSUME RequestsAccounted, NEW c \in Clients, SendFails(c)
    PROVE  Promise!Next
<1>1. PICK r, next, fate : /\ r = call[c] /\ next = Len(requests[r].replies) + 1
                           /\ fate = Fate(requests[r])'
    OBVIOUS
<1>2. /\ r \in DOMAIN requests /\ requests[r].status = "sending"
      /\ DOMAIN requests[r].replies = 1..(next - 1) /\ next \in Nat
      /\ next \in DOMAIN requests[r].route
    BY <1>1, Calling DEF SendFails
<1>3. /\ requests' = [requests EXCEPT ![r].status = "error"]
      /\ thread[WorkerOf(r, next)] = "exited"
      /\ thread' = thread /\ history_by_id' = history_by_id
    BY <1>1 DEF SendFails, WorkerOf
<1>4. Becomes(r, requests[r].replies, "error", requests[r].answer)
    BY <1>2, <1>3, AccountedType, StatusEffect
<1>5. PICK lost : lost = {i \in DOMAIN requests[r].route : i \notin DOMAIN requests[r].replies}
    OBVIOUS
<1>6. /\ DOMAIN StoreCalls[r].fate = DOMAIN requests[r].route
      /\ \A i \in lost : StoreCalls[r].fate[i] = "open"
    BY <1>2, <1>5, CallsOf, FateOf
<1>7. lost \in SUBSET Promise!Open(r) /\ next \in lost
    BY <1>2, <1>5, <1>6 DEF Promise!Open
<1>8. StoreCalls[r].parts[next].worker \in StoreDown
    <2>1. StoreCalls[r].parts[next].worker = WorkerOf(r, next)
        BY <1>2, CallsOf, PlaceOf DEF WorkerOf
    <2>2. WorkerOf(r, next) \in Workers
        BY <1>2, AccountedType, RequestFields
    <2>3. QED BY <1>3, <2>1, <2>2 DEF StoreDown
<1>9. fate = [i \in DOMAIN StoreCalls[r].fate |->
                 IF i \in lost THEN "lost" ELSE StoreCalls[r].fate[i]]
    <2>1. PICK q : q = requests'[r]
        OBVIOUS
    <2>2. fate = Fate(q)
        BY <1>1, <2>1 DEF Fate
    <2>3. q.route = requests[r].route /\ q.replies = requests[r].replies /\ q.status = "error"
        BY <1>4, <2>1 DEF Becomes
    <2>4. \A i \in DOMAIN requests[r].route :
             Fate(q)[i] = IF i \in lost THEN "lost" ELSE Fate(requests[r])[i]
        BY <1>5, <2>3 DEF Fate
    <2>5. DOMAIN Fate(q) = DOMAIN requests[r].route /\ Fate(q) = [i \in DOMAIN Fate(q) |-> Fate(q)[i]]
        BY <2>3, FateOf
    <2>6. StoreCalls[r].fate = Fate(requests[r])
        BY <1>2, CallsOf
    <2>7. QED BY <1>6, <2>2, <2>4, <2>5, <2>6
<1>10. StoreCalls' = [StoreCalls EXCEPT ![r] =
          [op |-> StoreCalls[r].op, parts |-> StoreCalls[r].parts, fate |-> fate,
           answer |-> requests[r].answer, outcome |-> Reported("error")]]
    BY <1>1, <1>2, <1>4, BecomesCall
<1>11. StoreCalls' = [StoreCalls EXCEPT ![r].outcome = "failed", ![r].fate = fate]
    <2>1. PICK C, op, parts, was, answer, outcome :
             /\ C = StoreCalls /\ op = StoreCalls[r].op /\ parts = StoreCalls[r].parts
             /\ was = StoreCalls[r].fate /\ answer = requests[r].answer
             /\ outcome = StoreCalls[r].outcome
        OBVIOUS
    <2>2. r \in DOMAIN C
          /\ C[r] = [op |-> op, parts |-> parts, fate |-> was, answer |-> answer,
                     outcome |-> outcome]
        BY <1>2, <2>1 DEF StoreCalls, StoreCall
    <2>3. Reported("error") = "failed"
        BY DEF Reported
    <2>4. StoreCalls' = [C EXCEPT ![r] = [op |-> op, parts |-> parts, fate |-> fate,
                                          answer |-> answer, outcome |-> "failed"]]
        BY <1>10, <2>1, <2>3
    <2>5. [C EXCEPT ![r].outcome = "failed", ![r].fate = fate]
             = [C EXCEPT ![r] = [op |-> op, parts |-> parts, fate |-> fate,
                                 answer |-> answer, outcome |-> "failed"]]
        <3> DEFINE old == [op |-> op, parts |-> parts, fate |-> was, answer |-> answer,
                           outcome |-> outcome]
                   set == [old EXCEPT !.outcome = "failed"]
                   new == [op |-> op, parts |-> parts, fate |-> fate,
                           answer |-> answer, outcome |-> "failed"]
        <3>1. set = [op |-> op, parts |-> parts, fate |-> was, answer |-> answer,
                     outcome |-> "failed"]
            OBVIOUS
        <3>2. [set EXCEPT !.fate = fate] = new
            <4> HIDE DEF set
            <4>1. QED BY <3>1
        <3>3. [old EXCEPT !.outcome = "failed", !.fate = fate] = new
            <4> HIDE DEF new
            <4>1. QED BY <3>2
        <3>4. C[r] = old
            BY <2>2
        <3> HIDE DEF old, new
        <3>5. [C EXCEPT ![r].outcome = "failed", ![r].fate = fate] = [C EXCEPT ![r] = new]
            BY <2>2, <3>3, <3>4
        <3>6. QED BY <3>5 DEF new
    <2>6. QED BY <2>1, <2>4, <2>5
<1>12. StoreCalls[r].outcome = "open"
    BY <1>2, CallsOf DEF Reported
<1>13. StoreContent' = StoreContent /\ StoreDown' = StoreDown
    BY <1>3, SameContent, SameDown
<1>14. Promise!Abandon(r)
    <2>1. StoreCalls' = [StoreCalls EXCEPT ![r].outcome = "failed",
                            ![r].fate = [i \in DOMAIN @ |->
                                IF i \in lost THEN "lost" ELSE @[i]]]
        BY <1>9, <1>11
    <2>2. QED BY <1>7, <1>8, <1>12, <1>13, <2>1 DEF Promise!Abandon
<1>15. QED BY <1>2, <1>14, CallsOf DEF Promise!Next

\* The end of a wait changes the outcome of the call and nothing else.
LEMMA OutcomeOnly ==
    ASSUME RequestsAccounted, NEW r \in DOMAIN requests, requests[r].status = "sent",
           NEW status \in {"ok", "worker_dropped"},
           requests' = [requests EXCEPT ![r].status = status]
    PROVE  /\ StoreCalls' = [StoreCalls EXCEPT ![r].outcome = Reported(status)]
           /\ StoreCalls[r].outcome = "open"
<1>1. Becomes(r, requests[r].replies, status, requests[r].answer)
    BY AccountedType, StatusEffect
<1>2. PICK q, fate : q = requests'[r] /\ fate = Fate(requests[r])'
    OBVIOUS
<1>3. q.route = requests[r].route /\ q.replies = requests[r].replies /\ q.status = status
    BY <1>1, <1>2 DEF Becomes
<1>4. fate = Fate(q)
    BY <1>2 DEF Fate
<1>5. fate = StoreCalls[r].fate
    <2>1. \A i \in DOMAIN q.route : Fate(q)[i] = Fate(requests[r])[i]
        BY <1>3 DEF Fate
    <2>2. Fate(q) = Fate(requests[r])
        BY <1>3, <2>1 DEF Fate
    <2>3. QED BY <1>4, <2>2, CallsOf
<1>6. StoreCalls' = [StoreCalls EXCEPT ![r] =
         [op |-> StoreCalls[r].op, parts |-> StoreCalls[r].parts, fate |-> fate,
          answer |-> requests[r].answer, outcome |-> Reported(status)]]
    BY <1>1, <1>2, BecomesCall
<1>7. StoreCalls[r] = [op |-> StoreCalls[r].op, parts |-> StoreCalls[r].parts,
                       fate |-> StoreCalls[r].fate, answer |-> requests[r].answer,
                       outcome |-> StoreCalls[r].outcome]
    BY DEF StoreCalls, StoreCall
<1>8. StoreCalls' = [StoreCalls EXCEPT ![r].outcome = Reported(status)]
    BY <1>5, <1>6, <1>7, CallsOf
<1>9. QED BY <1>8, CallsOf DEF Reported

LEMMA WaitIsReported ==
    ASSUME RequestsAccounted, NEW r \in DOMAIN requests, wait_ok(r) \/ wait_fails(r)
    PROVE  Promise!Next
<1>1. requests[r].status = "sent" /\ thread' = thread /\ history_by_id' = history_by_id
    BY DEF wait_ok, wait_fails
<1>2. StoreContent' = StoreContent /\ StoreDown' = StoreDown
    BY <1>1, SameContent, SameDown
<1>3. DOMAIN requests[r].replies = DOMAIN requests[r].route
    <2>1. Len(requests[r].replies) = Len(requests[r].route)
        BY <1>1 DEF RequestsAccounted, SentInFull, Sent
    <2>2. QED BY <2>1, AccountedType, RequestFields
<1>4. \A i \in DOMAIN requests[r].replies :
         requests[r].replies[i] # "pending" => StoreCalls[r].fate[i] = requests[r].replies[i]
    BY <1>3, CallsOf, FateOf
<1>5. DOMAIN StoreCalls[r].fate = DOMAIN requests[r].replies
    BY <1>3, CallsOf, FateOf
<1>6. CASE wait_ok(r)
    <2>1. \A i \in DOMAIN StoreCalls[r].fate : StoreCalls[r].fate[i] = "done"
        BY <1>4, <1>5, <1>6 DEF wait_ok
    <2>2. StoreCalls' = [StoreCalls EXCEPT ![r].outcome = "ok"] /\ StoreCalls[r].outcome = "open"
        BY <1>1, <1>6, OutcomeOnly DEF wait_ok, Reported
    <2>3. Promise!Succeed(r)
        BY <1>2, <2>1, <2>2 DEF Promise!Succeed
    <2>4. QED BY <2>3, CallsOf DEF Promise!Next
<1>7. CASE wait_fails(r)
    <2>1. \E i \in DOMAIN StoreCalls[r].fate : StoreCalls[r].fate[i] = "lost"
        BY <1>4, <1>5, <1>7 DEF wait_fails
    <2>2. StoreCalls' = [StoreCalls EXCEPT ![r].outcome = "failed"]
          /\ StoreCalls[r].outcome = "open"
        BY <1>1, <1>7, OutcomeOnly DEF wait_fails, Reported
    <2>3. Promise!ReportLoss(r)
        BY <1>2, <2>1, <2>2 DEF Promise!ReportLoss
    <2>4. QED BY <2>3, CallsOf DEF Promise!Next
<1>8. QED BY <1>6, <1>7
-----------------------------------------------------------------------------
(***************************************************************************)
(* Workers that end.                                                       *)
(***************************************************************************)
\* Replies that are lost belong to parts that were open at that worker.
LEMMA LosesIsFailing ==
    ASSUME RequestsAccounted, NEW w \in Workers, NEW M, Loses(M, requests, requests'),
           \A m \in M : m # Shutdown => \E j \in DOMAIN inbound[w] : inbound[w][j] = m
    PROVE  \E kept \in SUBSET Promise!OpenAt(w) :
              StoreCalls' = [r \in DOMAIN StoreCalls |->
                 [StoreCalls[r] EXCEPT !.fate =
                     [i \in DOMAIN @ |->
                         IF <<r, i>> \in Promise!OpenAt(w) \ kept THEN "lost" ELSE @[i]]]]
<1> DEFINE OpenParts == Promise!OpenAt(w)
           kept      == {p \in OpenParts : Part(p[1], p[2]) \notin M}
           lost      == OpenParts \ kept
<1>1. /\ kept = {p \in OpenParts : Part(p[1], p[2]) \notin M}
      /\ lost = OpenParts \ kept
    OBVIOUS
<1>2. OpenParts = Promise!OpenAt(w)
    OBVIOUS
<1> HIDE DEF OpenParts, kept, lost
<1>3. \A r \in DOMAIN requests : \A i \in DOMAIN requests[r].route :
         <<r, i>> \in OpenParts
            <=> StoreCalls[r].fate[i] = "open" /\ WorkerOf(r, i) = w
    <2> SUFFICES ASSUME NEW r \in DOMAIN requests, NEW i \in DOMAIN requests[r].route
                 PROVE  <<r, i>> \in OpenParts
                           <=> StoreCalls[r].fate[i] = "open" /\ WorkerOf(r, i) = w
        OBVIOUS
    <2>1. /\ DOMAIN StoreCalls = DOMAIN requests
          /\ DOMAIN StoreCalls[r].fate = DOMAIN requests[r].route
          /\ StoreCalls[r].parts[i].worker = WorkerOf(r, i)
        BY CallsOf, FateOf, PlaceOf DEF WorkerOf
    <2>2. <<r, i>> \in OpenParts
             <=> i \in Promise!Open(r) /\ StoreCalls[r].parts[i].worker = w
        BY <1>2, <2>1 DEF Promise!OpenAt
    <2>3. QED BY <2>1, <2>2 DEF Promise!Open
<1>4. ASSUME NEW r \in DOMAIN requests, NEW i \in DOMAIN requests[r].route
      PROVE  <<r, i>> \in lost <=> i \in DOMAIN requests[r].replies /\ Part(r, i) \in M
    <2>1. ASSUME Part(r, i) \in M
          PROVE  /\ i \in DOMAIN requests[r].replies
                 /\ requests[r].replies[i] = "pending" /\ WorkerOf(r, i) = w
        <3>1. Part(r, i) # Shutdown
            <4>1. r # 0
                BY AccountedType, RequestFields
            <4>2. QED BY <4>1 DEF Part, Shutdown
        <3>2. PICK j \in DOMAIN inbound[w] : inbound[w][j] = Part(r, i)
            BY <2>1, <3>1
        <3>3. Part(r, i).request = r /\ Part(r, i).part = i
            BY DEF Part
        <3>4. QED BY <3>1, <3>2, <3>3 DEF RequestsAccounted, QueuedOnce
    <2>2. ASSUME Part(r, i) \in M PROVE <<r, i>> \in lost
        <3>1. StoreCalls[r].fate[i] = "open"
            BY <2>1, <2>2, CallsOf, FateOf
        <3>2. <<r, i>> \in OpenParts
            BY <1>3, <2>1, <2>2, <3>1
        <3>3. QED BY <1>1, <2>2, <3>2
    <2>3. ASSUME <<r, i>> \in lost PROVE Part(r, i) \in M
        BY <1>1, <2>3
    <2>4. QED BY <2>1, <2>2, <2>3
<1>5. ASSUME NEW r \in DOMAIN requests
      PROVE  StoreCall(requests[r])' =
                [StoreCalls[r] EXCEPT !.fate =
                    [i \in DOMAIN @ |-> IF <<r, i>> \in lost THEN "lost" ELSE @[i]]]
    <2>1. PICK q, fate : q = requests'[r]
             /\ fate = [i \in DOMAIN requests[r].route |->
                          IF <<r, i>> \in lost THEN "lost" ELSE Fate(requests[r])[i]]
        OBVIOUS
    <2>2. /\ q.op = requests[r].op /\ q.route = requests[r].route
          /\ q.status = requests[r].status /\ q.answer = requests[r].answer
          /\ DOMAIN q.replies = DOMAIN requests[r].replies
          /\ \A i \in DOMAIN requests[r].replies :
                q.replies[i] = IF Part(r, i) \in M THEN "lost" ELSE requests[r].replies[i]
        BY <2>1 DEF Loses
    <2>3. \A i \in DOMAIN requests[r].route : Fate(q)[i] = fate[i]
        <3> SUFFICES ASSUME NEW i \in DOMAIN requests[r].route
                     PROVE  Fate(q)[i] = fate[i]
            OBVIOUS
        <3>1. CASE <<r, i>> \in lost
            <4>1. i \in DOMAIN q.replies /\ q.replies[i] = "lost"
                BY <1>4, <2>2, <3>1
            <4>2. Fate(q)[i] = "lost"
                BY <2>2, <4>1 DEF Fate
            <4>3. QED BY <2>1, <3>1, <4>2
        <3>2. CASE <<r, i>> \notin lost
            <4>1. Fate(q)[i] = Fate(requests[r])[i]
                BY <1>4, <2>2, <3>2 DEF Fate
            <4>2. QED BY <2>1, <3>2, <4>1
        <3>3. QED BY <3>1, <3>2
    <2>4. Fate(q) = fate
        BY <2>1, <2>2, <2>3 DEF Fate
    <2>5. StoreCall(requests[r])' =
             [op |-> requests[r].op, parts |-> Places(requests[r].route), fate |-> fate,
              answer |-> requests[r].answer, outcome |-> Reported(requests[r].status)]
        <3>1. StoreCall(requests[r])' = StoreCall(q)
            BY <2>1 DEF StoreCall, Fate
        <3>2. QED BY <2>2, <2>4, <3>1 DEF StoreCall
    <2>6. StoreCalls[r] =
             [op |-> requests[r].op, parts |-> Places(requests[r].route),
              fate |-> Fate(requests[r]),
              answer |-> requests[r].answer, outcome |-> Reported(requests[r].status)]
        BY DEF StoreCalls, StoreCall
    <2>7. fate = [i \in DOMAIN Fate(requests[r]) |->
                    IF <<r, i>> \in lost THEN "lost" ELSE Fate(requests[r])[i]]
        BY <2>1, FateOf
    <2>8. PICK old, op, parts, was, answer, outcome :
             /\ old = StoreCalls[r] /\ op = requests[r].op
             /\ parts = Places(requests[r].route) /\ was = Fate(requests[r])
             /\ answer = requests[r].answer /\ outcome = Reported(requests[r].status)
        OBVIOUS
    <2>9. old = [op |-> op, parts |-> parts, fate |-> was, answer |-> answer,
                 outcome |-> outcome]
        BY <2>6, <2>8
    <2>10. [old EXCEPT !.fate = fate] = [op |-> op, parts |-> parts, fate |-> fate,
                                         answer |-> answer, outcome |-> outcome]
        BY <2>9
    <2>11. old.fate = was
        BY <2>9
    <2>12. fate = [i \in DOMAIN old.fate |->
                     IF <<r, i>> \in lost THEN "lost" ELSE old.fate[i]]
        BY <2>7, <2>8, <2>11
    <2>13. StoreCall(requests[r])' = [old EXCEPT !.fate = fate]
        BY <2>5, <2>8, <2>10
    <2>14. StoreCall(requests[r])' = [old EXCEPT !.fate =
              [i \in DOMAIN @ |-> IF <<r, i>> \in lost THEN "lost" ELSE @[i]]]
        BY <2>12, <2>13
    <2>15. QED BY <2>8, <2>14
<1>6. StoreCalls' = [r \in DOMAIN StoreCalls |-> StoreCall(requests[r])']
    BY CallsOf DEF Loses, StoreCalls
<1>7. DOMAIN StoreCalls = DOMAIN requests
    BY CallsOf
<1>8. kept \in SUBSET OpenParts
    BY <1>1
<1>9. StoreCalls' = [r \in DOMAIN StoreCalls |->
         [StoreCalls[r] EXCEPT !.fate =
             [i \in DOMAIN @ |-> IF <<r, i>> \in lost THEN "lost" ELSE @[i]]]]
    BY <1>5, <1>6, <1>7
<1>10. QED BY <1>8, <1>9 DEF lost, OpenParts

\* The contents of a worker whose thread has ended are gone, as the rest of
\* the contents stays.
LEMMA FailIsNext ==
    ASSUME RequestsAccounted, NEW w \in Workers, NEW M, Loses(M, requests, requests'),
           \A m \in M : m # Shutdown => \E j \in DOMAIN inbound[w] : inbound[w][j] = m,
           thread' = [thread EXCEPT ![w] = "exited"],
           DOMAIN history_by_id'[w] = {},
           \A v \in Workers : v # w => history_by_id'[v] = history_by_id[v]
    PROVE  Promise!Next
<1>1. StoreDown' = StoreDown \cup {w}
    BY AccountedType DEF StoreDown, TypeOK
<1>2. StoreContent' = [id \in Ids |-> IF WorkerIndex[id] = w THEN {} ELSE StoreContent[id]]
    <2>1. \A id \in Ids : Kept(id)' = IF WorkerIndex[id] = w THEN {} ELSE Kept(id)
        BY ContimeAssumption DEF Kept
    <2>2. QED BY <2>1 DEF StoreContent
<1>3. \E kept \in SUBSET Promise!OpenAt(w) :
         StoreCalls' = [r \in DOMAIN StoreCalls |->
            [StoreCalls[r] EXCEPT !.fate =
                [i \in DOMAIN @ |->
                    IF <<r, i>> \in Promise!OpenAt(w) \ kept THEN "lost" ELSE @[i]]]]
    BY LosesIsFailing
<1>4. Promise!Fail(w)
    BY <1>1, <1>2, <1>3 DEF Promise!Fail
<1>5. QED BY <1>4 DEF Promise!Next

LEMMA ExitIsFail ==
    ASSUME RequestsAccounted, NEW w \in Workers, NEW M, NEW reqs, NEW rest,
           Loses(M, requests, reqs),
           \A m \in M : m # Shutdown => \E j \in DOMAIN inbound[w] : inbound[w][j] = m,
           \A j \in DOMAIN rest : \E k \in DOMAIN inbound[w] : inbound[w][k] = rest[j],
           Exit(w, rest, reqs)
    PROVE  Promise!Next
<1>1. /\ thread' = [thread EXCEPT ![w] = "exited"]
      /\ DOMAIN history_by_id'[w] = {}
      /\ \A v \in Workers : v # w => history_by_id'[v] = history_by_id[v]
    BY AccountedType DEF Exit, TypeOK
<1>2. CASE requests' = reqs
    BY <1>1, <1>2, FailIsNext
<1>3. CASE requests' = Lose(Elements(rest), reqs)
    <2>1. PICK N, all, a, b, c : /\ N = Elements(rest) /\ all = M \cup N
                                 /\ a = requests /\ b = reqs /\ c = requests'
        OBVIOUS
    <2>2. Loses(N, b, c)
        BY <1>3, <2>1, LoseEffect DEF Loses
    <2>3. Loses(all, a, c)
        BY <2>1, <2>2, LosesBoth
    <2>4. \A m \in all : m # Shutdown => \E j \in DOMAIN inbound[w] : inbound[w][j] = m
        BY <2>1 DEF Elements
    <2>5. QED BY <1>1, <2>1, <2>3, <2>4, FailIsNext
<1>4. QED BY <1>2, <1>3 DEF Exit

LEMMA StopIsFail ==
    ASSUME RequestsAccounted, NEW w \in Workers, Stop(w)
    PROVE  Promise!Next
<1>1. PICK reqs, rest, M : reqs = requests /\ rest = inbound[w] /\ M = {}
    OBVIOUS
<1>2. Loses(M, requests, reqs)
    BY <1>1, AccountedType, LosesNothing
<1>3. Exit(w, rest, reqs)
    BY <1>1 DEF Stop
<1>4. QED BY <1>1, <1>2, <1>3, ExitIsFail

LEMMA ReceiveShutdownIsFail ==
    ASSUME RequestsAccounted, NEW w \in Workers, ReceiveShutdown(w)
    PROVE  Promise!Next
<1>1. PICK reqs, rest, M, m :
         reqs = requests /\ rest = Tail(inbound[w]) /\ M = {} /\ m = Head(inbound[w])
    OBVIOUS
<1>2. Loses(M, requests, reqs)
    BY <1>1, AccountedType, LosesNothing
<1>3. Exit(w, rest, reqs) /\ inbound[w] # <<>>
    BY <1>1 DEF ReceiveShutdown
<1>4. \A j \in DOMAIN rest : \E k \in DOMAIN inbound[w] : inbound[w][k] = rest[j]
    BY <1>1, <1>3, HeadIsTaken
<1>5. \A k \in M : k # Shutdown => \E j \in DOMAIN inbound[w] : inbound[w][j] = k
    BY <1>1
<1>6. QED BY <1>2, <1>3, <1>4, <1>5, ExitIsFail

LEMMA PanicIsFail ==
    ASSUME RequestsAccounted, NEW w \in Workers, Panic(w)
    PROVE  Promise!Next
<1>1. PICK m : m = Head(inbound[w])
    OBVIOUS
<1>2. PICK reqs, rest, M : reqs = Lose(M, requests) /\ rest = Tail(inbound[w]) /\ M = {m}
    OBVIOUS
<1>3. Loses(M, requests, reqs)
    BY <1>2, AccountedType, LoseEffect
<1>4. Exit(w, rest, reqs) /\ inbound[w] # <<>>
    BY <1>1, <1>2 DEF Panic
<1>5. /\ 1 \in DOMAIN inbound[w] /\ inbound[w][1] = m
      /\ \A j \in DOMAIN rest : \E k \in DOMAIN inbound[w] : inbound[w][k] = rest[j]
    BY <1>1, <1>2, <1>4, HeadIsTaken
<1>6. \A k \in M : k # Shutdown => \E j \in DOMAIN inbound[w] : inbound[w][j] = k
    BY <1>2, <1>5
<1>7. QED BY <1>3, <1>4, <1>5, <1>6, ExitIsFail

LEMMA JoinIsFail ==
    ASSUME RequestsAccounted, ContentsAccounted, Join
    PROVE  Promise!Next
<1>1. PICK w, M : w = owner.worker /\ M = Elements(inbound[w])
    OBVIOUS
<1>2. w \in Workers
    BY <1>1, AccountedType DEF TypeOK
<1>3. /\ requests' = Lose(M, requests) /\ thread[w] = "exited"
      /\ thread' = thread /\ history_by_id' = history_by_id
    BY <1>1 DEF Join
<1>4. thread' = [thread EXCEPT ![w] = "exited"] /\ DOMAIN history_by_id'[w] = {}
    BY <1>2, <1>3, AccountedType DEF ContentsAccounted, Running, TypeOK
<1>5. Loses(M, requests, requests')
    BY <1>3, AccountedType, LoseEffect
<1>6. \A m \in M : \E j \in DOMAIN inbound[w] : inbound[w][j] = m
    BY <1>1 DEF Elements
<1>7. QED BY <1>2, <1>3, <1>4, <1>5, <1>6, FailIsNext
-----------------------------------------------------------------------------
(***************************************************************************)
(* A worker that answers: the instant at which a part takes effect.        *)
(***************************************************************************)
\* A shows what H does and no request but r besides, in the history for id.
AddsAtMost(H, A, id, r) ==
    /\ DOMAIN A = DOMAIN H \cup {id}
    /\ \A i \in DOMAIN H : i # id => A[i].applied = H[i].applied
    /\ \A q \in A[id].applied : q = r \/ (id \in DOMAIN H /\ q \in H[id].applied)

LEMMA AppliedExactly ==
    ASSUME NEW r \in 1..MaxRequests, NEW m \in RouteParts,
           NEW H, H \in [DOMAIN H -> Histories], NEW A, A = Applied(r, m, H)
    PROVE  AddsAtMost(H, A, m.id, r)
<1>1. PICK h : h = HistoryOf(m.id, m.initial, H)
    OBVIOUS
<1>2. /\ h \in Histories
      /\ h.applied = IF m.id \in DOMAIN H THEN H[m.id].applied ELSE {}
    BY <1>1 DEF HistoryOf, NewHistory, Histories, RouteParts
<1>3. PICK g : g = IF requests[r].op = "snapshot"
                   THEN [h EXCEPT !.applied = @ \cup {r}, !.types = @ \cup m.initial]
                   ELSE WithEvent(r, requests[r].event, h)
    OBVIOUS
<1>4. A = Insert(m.id, g, H)
    BY <1>1, <1>3 DEF Applied
<1>5. g.applied \subseteq h.applied \cup {r}
    BY <1>2, <1>3 DEF WithEvent, Histories
<1>6. QED BY <1>2, <1>4, <1>5 DEF AddsAtMost, Insert

\* What the answer to m does to the histories of the worker w: an update shows
\* in the history of its part, and nothing else changes what a history shows.
Effects(w, r, id) ==
    /\ \A v \in Workers : v # w => history_by_id'[v] = history_by_id[v]
    /\ DOMAIN history_by_id'[w] =
          IF IsUpdate(r) THEN DOMAIN history_by_id[w] \cup {id} ELSE DOMAIN history_by_id[w]
    /\ IsUpdate(r)
          => history_by_id'[w][id].applied =
                (IF id \in DOMAIN history_by_id[w] THEN history_by_id[w][id].applied ELSE {})
                   \cup {r}
    /\ \A i \in DOMAIN history_by_id[w] :
          ~(IsUpdate(r) /\ i = id)
             => history_by_id'[w][i].applied = history_by_id[w][i].applied

LEMMA ReceiveEffects ==
    ASSUME RequestsAccounted, IdsNotShared, NEW w \in Workers, Receive(w),
           NEW m, m = Head(inbound[w])
    PROVE  Effects(w, m.request, requests[m.request].route[m.part].id)
<1>1. PICK r : r = m.request
    OBVIOUS
<1>2. PICK p, id, H, A :
         /\ p = requests[r].route[m.part] /\ id = p.id
         /\ H = history_by_id[w] /\ A = history_by_id'[w]
    OBVIOUS
<1>3. m # Shutdown /\ inbound[w] # <<>>
    BY DEF Receive
<1>4. /\ r \in DOMAIN requests /\ p \in RouteParts
      /\ requests[r].op \in {"event", "snapshot", "query", "advance"}
    BY <1>1, <1>2, <1>3, MessageType, AccountedType, RequestFields
<1>5. H \in [DOMAIN H -> Histories] /\ DOMAIN history_by_id = Workers
    BY <1>1, <1>2, AccountedType DEF TypeOK
<1>6. /\ Extends(H, A) /\ \A v \in Workers : v # w => history_by_id'[v] = history_by_id[v]
      /\ IsUpdate(r) => r \in A[id].applied
    BY <1>1, <1>2, ReceiveEffect DEF Answers
<1>7. CASE IsUpdate(r)
    <2>1. A = Applied(r, p, H)
        BY <1>1, <1>2, <1>5, <1>7 DEF Receive, IsUpdate
    <2>2. PICK B : B = IF p.id \in DOMAIN H THEN H[p.id].applied ELSE {}
        OBVIOUS
    <2>3. /\ DOMAIN A = DOMAIN H \cup {p.id}
          /\ \A i \in DOMAIN H : i # p.id => A[i].applied = H[i].applied
          /\ \A q \in A[p.id].applied :
                q = r \/ (p.id \in DOMAIN H /\ q \in H[p.id].applied)
        <3>1. r \in 1..MaxRequests /\ p \in RouteParts /\ H \in [DOMAIN H -> Histories]
            BY <1>1, <1>2, <1>3, <1>4, <1>5, MessageType
        <3>2. AddsAtMost(H, A, p.id, r)
            BY <2>1, <3>1, AppliedExactly
        <3>3. QED BY <3>2 DEF AddsAtMost
    <2>4. B \subseteq A[p.id].applied
        BY <1>6, <2>2 DEF Extends
    <2>5. A[p.id].applied = B \cup {r}
        <3>1. r \in A[p.id].applied
            BY <1>1, <1>2, <1>6, <1>7
        <3>2. QED BY <2>2, <2>3, <2>4, <3>1
    <2>6. QED BY <1>1, <1>2, <1>6, <1>7, <2>2, <2>3, <2>5 DEF Effects
<1>8. CASE requests[r].op = "advance"
    <2>1. A = Advanced(r, H)
        <3>1. history_by_id' = [history_by_id EXCEPT ![w] = Advanced(r, history_by_id[w])]
            BY <1>1, <1>8 DEF Receive
        <3>2. QED BY <1>1, <1>2, <1>5, <3>1
    <2>2. \A i \in DOMAIN H : H[i] \in Histories
        BY <1>5
    <2>3. DOMAIN A = DOMAIN H /\ \A i \in DOMAIN H : A[i].applied = H[i].applied
        BY <2>1, <2>2 DEF Advanced, Histories
    <2>4. ~IsUpdate(r)
        BY <1>8 DEF IsUpdate
    <2>5. QED BY <1>1, <1>2, <1>6, <2>3, <2>4 DEF Effects
<1>9. CASE requests[r].op = "query"
    <2>1. history_by_id' = history_by_id
        BY <1>1, <1>9 DEF Receive
    <2>2. ~IsUpdate(r)
        BY <1>9 DEF IsUpdate
    <2>3. QED BY <1>1, <1>2, <2>1, <2>2 DEF Effects
<1>10. QED BY <1>4, <1>7, <1>8, <1>9 DEF IsUpdate

\* An update adds itself to the content of its id; the rest stays.
ContentGains(r, id) ==
    StoreContent' = IF requests[r].op \in {"event", "snapshot"}
                    THEN [StoreContent EXCEPT ![id] = @ \cup {r}] ELSE StoreContent

LEMMA ReceiveContent ==
    ASSUME RequestsAccounted, IdsNotShared, NEW w \in Workers, Receive(w),
           NEW m, m = Head(inbound[w])
    PROVE  ContentGains(m.request, requests[m.request].route[m.part].id)
<1>1. PICK r, q, i, id : /\ r = m.request /\ q = requests[r] /\ i = m.part
                         /\ id = q.route[i].id
    OBVIOUS
<1>2. Effects(w, r, id)
    BY <1>1, ReceiveEffects
<1>3. /\ WellRouted(q) /\ i \in DOMAIN q.route /\ q.route[i].worker = w
    BY <1>1, MessageType DEF Receive, WorkerOf
<1>4. CASE IsUpdate(r)
    <2>1. id \in Ids /\ WorkerIndex[id] = w
        <3>1. q.op \in {"event", "snapshot"}
            BY <1>1, <1>4 DEF IsUpdate
        <3>2. PICK s \in States : q.route[i].id = s.id /\ q.route[i].worker = WorkerIndex[s.id]
            BY <1>3, <3>1, UpdateRoute
        <3>3. QED BY <1>1, <1>3, <3>2, StateType
    <2>2. Kept(id)' = Kept(id) \cup {r}
        BY <1>2, <1>4, <2>1 DEF Kept, Effects
    <2>3. ASSUME NEW k \in Ids, k # id PROVE Kept(k)' = Kept(k)
        <3>1. WorkerIndex[k] \in Workers
            BY ContimeAssumption
        <3>2. CASE WorkerIndex[k] # w
            BY <1>2, <3>1, <3>2 DEF Kept, Effects
        <3>3. CASE WorkerIndex[k] = w
            BY <1>2, <1>4, <2>3, <3>3 DEF Kept, Effects
        <3>4. QED BY <3>2, <3>3
    <2>4. StoreContent' = [StoreContent EXCEPT ![id] = @ \cup {r}]
        BY <2>1, <2>2, <2>3 DEF StoreContent
    <2>5. QED BY <1>1, <1>4, <2>4 DEF ContentGains, IsUpdate
<1>5. CASE ~IsUpdate(r)
    <2>1. ASSUME NEW k \in Ids PROVE Kept(k)' = Kept(k)
        <3>1. WorkerIndex[k] \in Workers
            BY ContimeAssumption
        <3>2. CASE WorkerIndex[k] # w
            BY <1>2, <3>1, <3>2 DEF Kept, Effects
        <3>3. CASE WorkerIndex[k] = w
            BY <1>2, <1>5, <3>3 DEF Kept, Effects
        <3>4. QED BY <3>2, <3>3
    <2>2. StoreContent' = StoreContent
        BY <2>1 DEF StoreContent
    <2>3. QED BY <1>1, <1>5, <2>2 DEF ContentGains, IsUpdate
<1>6. QED BY <1>4, <1>5

\* A query is answered with what the store holds for its id: every history
\* there is shows an update, so that only unknown ids are not found.
StoreAnswer(r, id) ==
    IF requests[r].op = "query" /\ StoreContent[id] # {} THEN {StoreContent[id]} ELSE {}

AnswersFromStore(m, answer) ==
    /\ answer = StoreAnswer(m.request, requests[m.request].route[m.part].id)
    /\ answer \in SUBSET SUBSET (1..MaxRequests)
    /\ requests' = Answer(m, answer, requests)

LEMMA ReceiveAnswers ==
    ASSUME RequestsAccounted, ContentsAccounted, IdsNotShared,
           NEW w \in Workers, Receive(w), NEW m, m = Head(inbound[w])
    PROVE  \E answer : AnswersFromStore(m, answer)
<1>1. m # Shutdown /\ inbound[w] # <<>>
    BY DEF Receive
<1>2. PICK r, q, i, id : /\ r = m.request /\ q = requests[r] /\ i = m.part
                         /\ id = requests[r].route[m.part].id
    OBVIOUS
<1>3. PICK answer : answer = StoreAnswer(r, id)
    OBVIOUS
<1>4. /\ WellRouted(q) /\ i \in DOMAIN q.route /\ q.route[i].worker = w
      /\ q.op \in {"event", "snapshot", "query", "advance"}
    BY <1>1, <1>2, MessageType, AccountedType, RequestFields DEF WorkerOf
<1>5. CASE q.op # "query"
    <2>1. answer = {}
        BY <1>2, <1>3, <1>5 DEF StoreAnswer
    <2>2. requests' = Answer(m, {}, requests)
        BY <1>2, <1>4, <1>5 DEF Receive
    <2>3. QED BY <1>2, <1>3, <2>1, <2>2 DEF AnswersFromStore
<1>6. CASE q.op = "query"
    <2>1. PICK asked \in QueryIds : q.route = <<Message(WorkerIndex[asked], asked, {})>>
        BY <1>4, <1>6 DEF WellRouted
    <2>2. q.route[i] = Message(WorkerIndex[asked], asked, {})
        <3>1. PICK x, route : x = Message(WorkerIndex[asked], asked, {}) /\ route = <<x>>
            OBVIOUS
        <3>2. route \in Seq(RouteParts) /\ Len(route) = 1 /\ route[1] = x
            BY <3>1, QueryMessageType, SingleRoute
        <3>3. \A j \in DOMAIN route : j = 1
            BY <3>2, LenProperties
        <3>4. q.route = route
            BY <2>1, <3>1
        <3>5. QED BY <1>4, <3>1, <3>2, <3>3, <3>4
    <2>3. id = asked /\ id \in Ids /\ WorkerIndex[id] = w
        BY <1>2, <1>4, <2>1, <2>2 DEF Message, Ids
    <2>4. StoreContent[id] = IF id \in DOMAIN history_by_id[w]
                             THEN history_by_id[w][id].applied ELSE {}
        BY <2>3 DEF StoreContent, Kept
    <2>5. id \in DOMAIN history_by_id[w]
             => /\ history_by_id[w][id].applied # {}
                /\ history_by_id[w][id].applied \in SUBSET (1..MaxRequests)
        <3>1. history_by_id[w] \in [DOMAIN history_by_id[w] -> Histories]
            BY AccountedType DEF TypeOK
        <3>2. QED BY <3>1 DEF ContentsAccounted, Histories
    <2>6. answer = IF id \in DOMAIN history_by_id[w]
                   THEN {history_by_id[w][id].applied} ELSE {}
        BY <1>2, <1>3, <1>6, <2>4, <2>5 DEF StoreAnswer
    <2>7. requests' = Answer(m, answer, requests)
        BY <1>2, <1>6, <2>6 DEF Receive
    <2>8. QED BY <1>2, <1>3, <2>5, <2>6, <2>7 DEF AnswersFromStore
<1>7. QED BY <1>5, <1>6

LEMMA ReceiveIsEffect ==
    ASSUME RequestsAccounted, ContentsAccounted, IdsNotShared,
           NEW w \in Workers, Receive(w)
    PROVE  Promise!Next
<1>1. PICK m : m = Head(inbound[w])
    OBVIOUS
<1>2. PICK r, i : r = m.request /\ i = m.part
    OBVIOUS
<1>3. PICK id : id = requests[r].route[i].id
    OBVIOUS
<1>4. /\ r \in DOMAIN requests /\ i \in DOMAIN requests[r].replies
      /\ i \in DOMAIN requests[r].route
      /\ requests[r].replies[i] = "pending" /\ WorkerOf(r, i) = w
    BY <1>1, <1>2, MessageType DEF Receive
<1>5. /\ StoreCalls[r].parts[i].id = id /\ StoreCalls[r].parts[i].worker = w
      /\ i \in DOMAIN StoreCalls[r].parts /\ StoreCalls[r].op = requests[r].op
      /\ r \in DOMAIN StoreCalls
    BY <1>3, <1>4, CallsOf, PlaceOf DEF WorkerOf
<1>6. i \in DOMAIN StoreCalls[r].fate /\ StoreCalls[r].fate[i] = "open"
    BY <1>4, CallsOf, FateOf
<1>7. i \in Promise!Open(r)
    BY <1>6 DEF Promise!Open
<1>8. w \notin StoreDown /\ StoreDown' = StoreDown
    BY AccountedType DEF Receive, StoreDown, TypeOK
<1>9. ContentGains(r, id)
    BY <1>1, <1>2, <1>3, ReceiveContent
<1>10. PICK answer : AnswersFromStore(m, answer)
    BY <1>1, ReceiveAnswers
<1>11. /\ answer = StoreAnswer(r, id) /\ answer \in SUBSET SUBSET (1..MaxRequests)
       /\ requests' = Answer(m, answer, requests)
    BY <1>2, <1>3, <1>10 DEF AnswersFromStore
<1>12. PICK replies : replies = [requests[r].replies EXCEPT ![i] = "done"]
    OBVIOUS
<1>13. Becomes(r, replies, requests[r].status, answer)
    BY <1>2, <1>4, <1>11, <1>12, AccountedType, AnswerEffect
<1>14. PICK fate : fate = Fate(requests[r])'
    OBVIOUS
<1>15. fate = [StoreCalls[r].fate EXCEPT ![i] = "done"]
    <2>1. PICK q, before : q = requests'[r] /\ before = requests[r]
        OBVIOUS
    <2>2. fate = Fate(q) /\ StoreCalls[r].fate = Fate(before)
        BY <1>4, <1>14, <2>1, CallsOf DEF Fate
    <2>3. /\ q.route = before.route /\ q.status = before.status
          /\ q.replies = [before.replies EXCEPT ![i] = "done"]
        BY <1>12, <1>13, <2>1 DEF Becomes
    <2>4. \A k \in DOMAIN before.route :
             Fate(q)[k] = IF k = i THEN "done" ELSE Fate(before)[k]
        BY <1>4, <2>1, <2>3 DEF Fate
    <2>5. /\ Fate(q) = [k \in DOMAIN before.route |-> Fate(q)[k]]
          /\ Fate(before) = [k \in DOMAIN before.route |-> Fate(before)[k]]
        BY <2>3, FateOf
    <2>6. Fate(q) = [Fate(before) EXCEPT ![i] = "done"]
        BY <2>4, <2>5
    <2>7. QED BY <2>2, <2>6
<1>16. StoreCalls' = [StoreCalls EXCEPT ![r] =
          [op |-> StoreCalls[r].op, parts |-> StoreCalls[r].parts, fate |-> fate,
           answer |-> answer, outcome |-> Reported(requests[r].status)]]
    BY <1>4, <1>13, <1>14, BecomesCall
<1>17. StoreCalls' = [StoreCalls EXCEPT ![r].fate[i] = "done", ![r].answer = answer]
    <2>1. PICK C, op, parts, was, before, outcome :
             /\ C = StoreCalls /\ op = StoreCalls[r].op /\ parts = StoreCalls[r].parts
             /\ was = StoreCalls[r].fate /\ before = StoreCalls[r].answer
             /\ outcome = StoreCalls[r].outcome
        OBVIOUS
    <2>2. r \in DOMAIN C
          /\ C[r] = [op |-> op, parts |-> parts, fate |-> was, answer |-> before,
                     outcome |-> outcome]
        BY <1>4, <2>1 DEF StoreCalls, StoreCall
    <2>3. StoreCalls' = [C EXCEPT ![r] = [op |-> op, parts |-> parts, fate |-> fate,
                                          answer |-> answer, outcome |-> outcome]]
        BY <1>4, <1>16, <2>1, CallsOf
    <2>4. [C EXCEPT ![r].fate[i] = "done", ![r].answer = answer]
             = [C EXCEPT ![r] = [op |-> op, parts |-> parts, fate |-> fate,
                                 answer |-> answer, outcome |-> outcome]]
        <3> DEFINE old == [op |-> op, parts |-> parts, fate |-> was, answer |-> before,
                           outcome |-> outcome]
                   set == [old EXCEPT !.fate[i] = "done"]
                   new == [op |-> op, parts |-> parts, fate |-> fate,
                           answer |-> answer, outcome |-> outcome]
        <3>1. set = [op |-> op, parts |-> parts, fate |-> fate, answer |-> before,
                     outcome |-> outcome]
            <4>1. fate = [was EXCEPT ![i] = "done"]
                BY <1>15, <2>1
            <4>2. QED BY <4>1
        <3>2. [set EXCEPT !.answer = answer] = new
            <4> HIDE DEF set
            <4>1. QED BY <3>1
        <3>3. [old EXCEPT !.fate[i] = "done", !.answer = answer] = new
            <4> HIDE DEF new
            <4>1. QED BY <3>2
        <3>4. C[r] = old
            BY <2>2
        <3> HIDE DEF old, new
        <3>5. [C EXCEPT ![r].fate[i] = "done", ![r].answer = answer] = [C EXCEPT ![r] = new]
            BY <2>2, <3>3, <3>4
        <3>6. QED BY <3>5 DEF new
    <2>5. QED BY <2>1, <2>3, <2>4
<1>18. Promise!Effect(r, i)
    BY <1>5, <1>7, <1>8, <1>9, <1>11, <1>17
       DEF ContentGains, Promise!Effect, StoreAnswer
<1>19. QED BY <1>5, <1>18 DEF Promise!Next
-----------------------------------------------------------------------------
(***************************************************************************)
(* ContentsAccounted is inductive beside RequestsAccounted.                *)
(***************************************************************************)
LEMMA InitContents == Init => ContentsAccounted
BY DEF Init, ContentsAccounted, Running

LEMMA FrameContents ==
    ASSUME ContentsAccounted, history_by_id' = history_by_id,
           \A w \in Workers : Running(w)' = Running(w)
    PROVE  ContentsAccounted'
BY DEF ContentsAccounted

LEMMA ExitContents ==
    ASSUME RequestsAccounted, ContentsAccounted, NEW w \in Workers,
           NEW rest, NEW reqs, Exit(w, rest, reqs)
    PROVE  ContentsAccounted'
<1>1. /\ DOMAIN history_by_id'[w] = {}
      /\ \A v \in Workers : v # w => /\ history_by_id'[v] = history_by_id[v]
                                     /\ Running(v)' = Running(v)
    BY AccountedType DEF Exit, TypeOK, Running
<1>2. QED BY <1>1 DEF ContentsAccounted

LEMMA ReceiveContents ==
    ASSUME RequestsAccounted, ContentsAccounted, NEW w \in Workers, Receive(w)
    PROVE  ContentsAccounted'
<1>1. PICK m : m = Head(inbound[w])
    OBVIOUS
<1>2. PICK r, id : r = m.request /\ id = requests[m.request].route[m.part].id
    OBVIOUS
<1>3. /\ Running(w) /\ Running(w)'
      /\ \A v \in Workers : v # w => Running(v)' = Running(v)
    BY AccountedType DEF Receive, Running, TypeOK
<1>4. \A v \in Workers : v # w => history_by_id'[v] = history_by_id[v]
    BY <1>1, ReceiveEffect DEF Answers
<1>5. ASSUME IdsNotShared, NEW i \in DOMAIN history_by_id'[w]
      PROVE  history_by_id'[w][i].applied # {}
    <2>1. Effects(w, r, id)
        BY <1>1, <1>2, <1>5, ReceiveEffects
    <2>2. CASE IsUpdate(r) /\ i = id
        BY <2>1, <2>2 DEF Effects
    <2>3. CASE ~(IsUpdate(r) /\ i = id)
        BY <1>5, <2>1, <2>3 DEF Effects, ContentsAccounted
    <2>4. QED BY <2>2, <2>3
<1>6. QED BY <1>3, <1>4, <1>5 DEF ContentsAccounted

LEMMA NextContents ==
    ASSUME RequestsAccounted, ContentsAccounted, [Next]_vars
    PROVE  ContentsAccounted'
<1>1. ASSUME NEW c \in Clients, Issue(c) \/ ClientStep(c)
      PROVE  ContentsAccounted'
    <2>1. history_by_id' = history_by_id /\ thread' = thread
        BY <1>1 DEF Issue, send_event, send_snapshot, query_at, send_advance, Begin,
                    ClientStep, Send, SendFails
    <2>2. QED BY <2>1, FrameContents DEF Running
<1>2. ASSUME NEW r \in 1..MaxRequests, WaitStep(r)
      PROVE  ContentsAccounted'
    BY <1>2, FrameContents DEF WaitStep, wait_ok, wait_fails, Running
<1>3. ASSUME NEW w \in Workers, WorkerStep(w)
      PROVE  ContentsAccounted'
    <2>1. CASE Check(w)
        <3>1. \A v \in Workers : Running(v)' = Running(v)
            BY <2>1, AccountedType DEF Check, Running, TypeOK
        <3>2. QED BY <2>1, <3>1, FrameContents DEF Check
    <2>2. CASE Stop(w)
        BY <2>2, ExitContents DEF Stop
    <2>3. CASE ReceiveShutdown(w)
        BY <2>3, ExitContents DEF ReceiveShutdown
    <2>4. CASE Receive(w)
        BY <2>4, ReceiveContents
    <2>5. CASE Panic(w)
        BY <2>5, ExitContents DEF Panic
    <2>6. QED BY <1>3, <2>1, <2>2, <2>3, <2>4, <2>5 DEF WorkerStep
<1>4. CASE DropBegins \/ OwnerStep \/ Over \/ UNCHANGED vars
    <2>1. history_by_id' = history_by_id /\ thread' = thread
        BY <1>4 DEF DropBegins, OwnerStep, ClearFlag, SendShutdown, Join, Over, vars
    <2>2. QED BY <2>1, FrameContents DEF Running
<1>5. QED BY <1>1, <1>2, <1>3, <1>4 DEF Next
-----------------------------------------------------------------------------
(***************************************************************************)
(* The refinement.                                                         *)
(***************************************************************************)
LEMMA InitIsStoreInit == Init => Promise!Init
<1> SUFFICES ASSUME Init PROVE Promise!Init
    OBVIOUS
<1>1. StoreContent = [id \in Ids |-> {}]
    BY ContimeAssumption DEF Init, StoreContent, Kept
<1>2. StoreCalls = <<>>
    <2>1. DOMAIN requests = {}
        BY DEF Init
    <2>2. StoreCalls \in [1..0 -> {}]
        BY <2>1 DEF StoreCalls
    <2>3. StoreCalls \in Seq({}) /\ Len(StoreCalls) = 0
        BY <2>2, IsASeq
    <2>4. QED BY <2>3, EmptySeq
<1>3. StoreDown = {}
    BY DEF Init, StoreDown
<1>4. QED BY <1>1, <1>2, <1>3 DEF Promise!Init

LEMMA StepIsStoreStep ==
    ASSUME RequestsAccounted, ContentsAccounted, IdsNotShared, [Next]_vars
    PROVE  [Promise!Next]_(Promise!vars)
<1>1. ASSUME NEW c \in Clients, Issue(c) \/ ClientStep(c)
      PROVE  Promise!Next \/ UNCHANGED Promise!vars
    BY <1>1, IssueIsCall, SendIsInvisible, SendFailsIsAbandon DEF ClientStep
<1>2. ASSUME NEW r \in 1..MaxRequests, WaitStep(r)
      PROVE  Promise!Next
    BY <1>2, WaitIsReported DEF WaitStep
<1>3. ASSUME NEW w \in Workers, WorkerStep(w)
      PROVE  Promise!Next \/ UNCHANGED Promise!vars
    <2>1. CASE Check(w)
        <3>1. StoreDown' = StoreDown
            BY <2>1, AccountedType DEF Check, StoreDown, TypeOK
        <3>2. StoreCalls' = StoreCalls /\ StoreContent' = StoreContent
            BY <2>1, SameCalls, SameContent DEF Check
        <3>3. QED BY <3>1, <3>2 DEF Promise!vars
    <2>2. QED BY <1>3, <2>1, StopIsFail, ReceiveShutdownIsFail, ReceiveIsEffect,
                 PanicIsFail DEF WorkerStep
<1>4. CASE DropBegins \/ ClearFlag \/ SendShutdown \/ Over \/ UNCHANGED vars
    <2>1. UNCHANGED <<requests, history_by_id, thread>>
        BY <1>4 DEF DropBegins, ClearFlag, SendShutdown, Over, vars
    <2>2. QED BY <2>1, SameCalls, SameContent, SameDown DEF Promise!vars
<1>5. CASE Join
    BY <1>5, JoinIsFail
<1>6. QED BY <1>1, <1>2, <1>3, <1>4, <1>5 DEF Next, OwnerStep

\* A thread that has ended keeps nothing, and a history exists only with an
\* update in effect (src/worker.rs: Entry::Vacant inserts and applies).
THEOREM ContentsStayAccounted == Spec => []ContentsAccounted
<1>1. RequestsAccounted /\ ContentsAccounted /\ [Next]_vars => ContentsAccounted'
    BY NextContents
<1>2. QED BY <1>1, InitContents, RequestsStayAccounted, PTL DEF Spec

\* The router, the channels, the threads and the drop are together one store:
\* each part of a request takes effect at one instant between call and success
\* or is lost with a worker, and an answer is the content at one instant.
THEOREM ContimeIsStore ==
    ASSUME IdsNotShared PROVE Spec => ImplementsStore
<1>1. Init => Promise!Init
    BY InitIsStoreInit
<1>2. RequestsAccounted /\ ContentsAccounted /\ [Next]_vars
         => [Promise!Next]_(Promise!vars)
    BY StepIsStoreStep
<1>3. QED BY <1>1, <1>2, RequestsStayAccounted, ContentsStayAccounted, PTL
          DEF Spec, ImplementsStore, Promise!Spec
=============================================================================
