------------------------------ MODULE Contime ------------------------------
(***************************************************************************)
(* The router, the worker threads and the handles: src/router.rs,          *)
(* src/worker.rs, src/handle.rs, behind the methods of src/api.rs.         *)
(*                                                                         *)
(* A request is cut into parts, one message per target history (or, for    *)
(* an advance, per worker); each part has a reply channel of its own.  A   *)
(* history is abstracted to the requests that changed it: History models   *)
(* what they do to it.  Lanes says which histories an event is for and     *)
(* whose states it changes.  The memory check of the router is left to     *)
(* MemoryBudget.                                                           *)
(***************************************************************************)
EXTENDS Integers, Sequences, FiniteSets, Lanes

CONSTANTS
  WorkerCount,      \* worker_count
  WorkerIndex,      \* worker_index: the hash of an id picks its worker
  Events,           \* event lanes the clients may send
  Corrections,      \* snapshot lanes they may send
  QueryIds,         \* snapshot ids they may query
  Clients,          \* threads that share the Contime
  InboundCapacity,  \* capacity of a worker's inbound channel, 1000 in the code
  MaxRequests,      \* bound of the model: requests issued in one run
  MayPanic          \* may handling a query panic (History!snapshot_at_panics)?

Workers == 1..WorkerCount

\* The states that the clients' events and corrections bring.
States == Corrections \cup UNION {{snapshots(e)[i] : i \in DOMAIN snapshots(e)} : e \in Events}

Ids == QueryIds \cup {s.id : s \in States}

ASSUME ContimeAssumption ==
    /\ WorkerCount \in Nat \ {0}
    /\ Events \subseteq EventLanes
    /\ Corrections \subseteq SnapshotLanes
    /\ WorkerIndex \in [Ids -> Workers]
    /\ InboundCapacity \in Nat \ {0}
    /\ MaxRequests \in Nat
    /\ MayPanic \in BOOLEAN

VARIABLES
  requests,       \* every request issued so far, with its handle
  call,           \* the request each client is still sending, or 0
  inbound,        \* worker_inbound channel of each worker
  is_running,     \* the flag Drop clears
  thread,         \* where each worker thread is in handle_worker
  history_by_id,  \* the histories each worker thread owns
  owner           \* progress of dropping the Contime

vars == <<requests, call, inbound, is_running, thread, history_by_id, owner>>

Shutdown == [request |-> 0, part |-> 0]
Alive == [step |-> "alive", worker |-> 1]

Init ==
    /\ requests = <<>>
    /\ call = [c \in Clients |-> 0]
    /\ inbound = [w \in Workers |-> <<>>]
    /\ is_running = [w \in Workers |-> TRUE]
    /\ thread = [w \in Workers |-> "checking"]
    /\ history_by_id = [w \in Workers |-> [id \in {} |-> {}]]
    /\ owner = Alive

-----------------------------------------------------------------------------
(***************************************************************************)
(* Client side.                                                            *)
(***************************************************************************)

\* A message without an initial or authoritative snapshot has initial = {}.
Message(w, id, initial) == [worker |-> w, id |-> id, initial |-> initial]

\* One message per state in the list, in its order.
Route(states) ==
    [i \in DOMAIN states |->
        Message(WorkerIndex[states[i].id], states[i].id, {states[i].type})]

\* Mutant: only the first worker is told.
BroadcastToOne == <<Message(1, 0, {})>>

\* send_advance: one message per worker; the id is not used.
Broadcast == [w \in Workers |-> Message(w, 0, {})]

Sent(r) == requests[r].status \in {"sent", "ok", "worker_dropped"}

\* The ids of the histories an event or a snapshot is meant for.
Targets(r) ==
    IF requests[r].op = "snapshot" THEN {requests[r].route[1].id}
    ELSE UNION {{e.ids[TargetTypes[e.variant][i]] : i \in DOMAIN TargetTypes[e.variant]}
                    : e \in requests[r].event}

\* The events and snapshots whose effect a new request must find: those a
\* client has already finished sending, for a query only those for its id.
Earlier(op, route) ==
    {r \in DOMAIN requests : /\ requests[r].op \in {"event", "snapshot"}
                             /\ Sent(r)
                             /\ op = "query" => route[1].id \in Targets(r)}

\* send_event, send_snapshot, query_at and send_advance up to the first send.
Begin(c, op, event, route) ==
    /\ owner = Alive /\ call[c] = 0 /\ Len(requests) < MaxRequests
    /\ requests' = Append(requests,
           [op |-> op, event |-> event, route |-> route, replies |-> <<>>,
            status |-> "sending", earlier |-> Earlier(op, route), answer |-> {}])
    /\ call' = [call EXCEPT ![c] = Len(requests) + 1]
    /\ UNCHANGED <<inbound, is_running, thread, history_by_id, owner>>

send_event(c) == \E e \in Events : Begin(c, "event", {e}, Route(snapshots(e)))
send_snapshot(c) == \E s \in Corrections : Begin(c, "snapshot", {}, Route(<<s>>))
query_at(c) ==
    \E id \in QueryIds : Begin(c, "query", {}, <<Message(WorkerIndex[id], id, {})>>)
send_advance(c) == Begin(c, "advance", {}, Broadcast)

\* Mutant: the inbound channels are unbounded.
SendUnbounded(c) ==
    LET r    == call[c]
        part == Len(requests[r].replies) + 1
        w    == requests[r].route[part].worker
    IN  /\ r # 0
        /\ inbound' = [inbound EXCEPT ![w] = Append(@, [request |-> r, part |-> part])]
        /\ LET last == part = Len(requests[r].route)
           IN  /\ requests' = [requests EXCEPT
                      ![r].replies = Append(@, "pending"),
                      ![r].status = IF last THEN "sent" ELSE @]
               /\ call' = [call EXCEPT ![c] = IF last THEN 0 ELSE @]
        /\ UNCHANGED <<is_running, thread, history_by_id, owner>>

\* The blocking send of one message.  The handle is returned with the last.
Send(c) ==
    LET r    == call[c]
        part == Len(requests[r].replies) + 1
        w    == requests[r].route[part].worker
    IN  /\ r # 0
        /\ thread[w] # "exited"
        /\ Len(inbound[w]) < InboundCapacity
        /\ inbound' = [inbound EXCEPT ![w] = Append(@, [request |-> r, part |-> part])]
        /\ LET last == part = Len(requests[r].route)
           IN  /\ requests' = [requests EXCEPT
                      ![r].replies = Append(@, "pending"),
                      ![r].status = IF last THEN "sent" ELSE @]
               /\ call' = [call EXCEPT ![c] = IF last THEN 0 ELSE @]
        /\ UNCHANGED <<is_running, thread, history_by_id, owner>>

\* The worker is gone: the call returns an error, and what it has already
\* sent to other workers stays sent.
SendFails(c) ==
    LET r == call[c]
    IN  /\ r # 0
        /\ thread[requests[r].route[Len(requests[r].replies) + 1].worker] = "exited"
        /\ requests' = [requests EXCEPT ![r].status = "error"]
        /\ call' = [call EXCEPT ![c] = 0]
        /\ UNCHANGED <<inbound, is_running, thread, history_by_id, owner>>

\* Mutant: the first reply completes the wait.
WaitFirst(r) ==
    /\ requests[r].status = "sent"
    /\ requests[r].replies[1] = "done"
    /\ requests' = [requests EXCEPT ![r].status = "ok"]
    /\ UNCHANGED <<call, inbound, is_running, thread, history_by_id, owner>>

(***************************************************************************)
(* wait: the replies are received in the order the parts were sent.        *)
(***************************************************************************)
wait_ok(r) ==
    /\ requests[r].status = "sent"
    /\ \A i \in DOMAIN requests[r].replies : requests[r].replies[i] = "done"
    /\ requests' = [requests EXCEPT ![r].status = "ok"]
    /\ UNCHANGED <<call, inbound, is_running, thread, history_by_id, owner>>

wait_fails(r) ==
    /\ requests[r].status = "sent"
    /\ \E i \in DOMAIN requests[r].replies :
          /\ requests[r].replies[i] = "lost"
          /\ \A j \in 1..(i - 1) : requests[r].replies[j] = "done"
    /\ requests' = [requests EXCEPT ![r].status = "worker_dropped"]
    /\ UNCHANGED <<call, inbound, is_running, thread, history_by_id, owner>>
-----------------------------------------------------------------------------
(***************************************************************************)
(* Worker side: handle_worker.                                             *)
(***************************************************************************)

\* The reply sender of every message in the set is dropped unused.
Lose(messages, reqs) ==
    [r \in DOMAIN reqs |->
        [reqs[r] EXCEPT !.replies =
            [i \in DOMAIN @ |->
                IF [request |-> r, part |-> i] \in messages THEN "lost" ELSE @[i]]]]

Elements(queue) == {queue[i] : i \in DOMAIN queue}

\* The thread returns or unwinds with rest still queued: its histories go and
\* the channel is disconnected.  Whether the channel drops the messages then,
\* or keeps them as long as the router holds its sender, is left open.
Exit(w, rest, reqs) ==
    /\ thread' = [thread EXCEPT ![w] = "exited"]
    /\ history_by_id' = [history_by_id EXCEPT ![w] = [id \in {} |-> {}]]
    /\ \/ /\ requests' = reqs
          /\ inbound' = [inbound EXCEPT ![w] = rest]
       \/ /\ requests' = Lose(Elements(rest), reqs)
          /\ inbound' = [inbound EXCEPT ![w] = <<>>]
    /\ UNCHANGED <<call, is_running, owner>>

\* while is_running
Check(w) ==
    /\ thread[w] = "checking" /\ is_running[w]
    /\ thread' = [thread EXCEPT ![w] = "receiving"]
    /\ UNCHANGED <<requests, call, inbound, is_running, history_by_id, owner>>

Stop(w) ==
    /\ thread[w] = "checking" /\ ~is_running[w]
    /\ Exit(w, inbound[w], requests)

ReceiveShutdown(w) ==
    /\ thread[w] = "receiving" /\ inbound[w] # <<>>
    /\ Head(inbound[w]) = Shutdown
    /\ Exit(w, Tail(inbound[w]), requests)

\* Handling a query panics; the query itself is not answered.
Panic(w) ==
    /\ MayPanic
    /\ thread[w] = "receiving" /\ inbound[w] # <<>>
    /\ LET m == Head(inbound[w])
       IN  /\ m # Shutdown /\ requests[m.request].op = "query"
           /\ Exit(w, Tail(inbound[w]), Lose({m}, requests))

(***************************************************************************)
(* A history is the types of the snapshots its states grew from (one, as   *)
(* long as ids are not shared between types), the requests those states    *)
(* show, and the advances it has seen.                                     *)
(***************************************************************************)
NewHistory(initial) == [types |-> initial, applied |-> {}, advances |-> {}]

\* Entry::Occupied or Entry::Vacant; a new history has current_time 0.
HistoryOf(id, initial, histories) ==
    IF id \in DOMAIN histories THEN histories[id] ELSE NewHistory(initial)

Insert(id, history, histories) ==
    [i \in DOMAIN histories \cup {id} |-> IF i = id THEN history ELSE histories[i]]

\* apply_event: the event is replayed into every state that takes it.
WithEvent(r, event, history) ==
    IF \A t \in history.types, e \in event : applies_to(e.variant, t)
    THEN [history EXCEPT !.applied = @ \cup {r}]
    ELSE history

\* Mutant: the history is created and nothing is applied to it.
CreatedOnly(r, m, histories) ==
    Insert(m.id, HistoryOf(m.id, m.initial, histories), histories)

\* An event or a snapshot; the history is created when there is none.
Applied(r, m, histories) ==
    LET history == HistoryOf(m.id, m.initial, histories)
    IN  Insert(m.id, IF requests[r].op = "snapshot"
                     THEN [history EXCEPT !.applied = @ \cup {r},
                                          !.types = @ \cup m.initial]
                     ELSE WithEvent(r, requests[r].event, history), histories)

\* Every history the worker has at that moment, and no later one.
Advanced(r, histories) ==
    [id \in DOMAIN histories |-> [histories[id] EXCEPT !.advances = @ \cup {r}]]

\* Mutant: a query for an unknown id is not answered.
AnswerFound(m, answer, reqs) ==
    IF reqs[m.request].op = "query" /\ answer = {} THEN reqs
    ELSE [reqs EXCEPT ![m.request].replies[m.part] = "done",
                      ![m.request].answer = answer]

\* Mutant: for an unknown id the reply sender is dropped unused.
AnswerDropped(m, answer, reqs) ==
    IF reqs[m.request].op = "query" /\ answer = {}
    THEN [reqs EXCEPT ![m.request].replies[m.part] = "lost"]
    ELSE [reqs EXCEPT ![m.request].replies[m.part] = "done",
                      ![m.request].answer = answer]

\* reply.send(..); a reply nobody waits for any more is ignored.
Answer(m, answer, reqs) ==
    [reqs EXCEPT ![m.request].replies[m.part] = "done",
                 ![m.request].answer = answer]

\* The four kinds of request.  The answer {} of a query is NotFound.
Receive(w) ==
    /\ thread[w] = "receiving" /\ inbound[w] # <<>>
    /\ LET m  == Head(inbound[w])
           r  == m.request
           part == requests[r].route[m.part]
           histories == history_by_id[w]
       IN  /\ m # Shutdown
           /\ CASE requests[r].op \in {"event", "snapshot"} ->
                     /\ history_by_id' =
                          [history_by_id EXCEPT ![w] = Applied(r, part, histories)]
                     /\ requests' = Answer(m, {}, requests)
                [] requests[r].op = "advance" ->
                     /\ history_by_id' =
                          [history_by_id EXCEPT ![w] = Advanced(r, histories)]
                     /\ requests' = Answer(m, {}, requests)
                [] requests[r].op = "query" ->
                     /\ requests' = Answer(m,
                            IF part.id \in DOMAIN histories
                            THEN {histories[part.id].applied} ELSE {}, requests)
                     /\ UNCHANGED history_by_id
    /\ inbound' = [inbound EXCEPT ![w] = Tail(@)]
    /\ thread' = [thread EXCEPT ![w] = "checking"]
    /\ UNCHANGED <<call, is_running, owner>>
-----------------------------------------------------------------------------
(***************************************************************************)
(* Dropping the Contime: each Worker in turn clears the flag, sends        *)
(* Shutdown, joins its thread, and frees the sender and with it whatever   *)
(* the channel still holds.  Handles may still be waiting.                 *)
(***************************************************************************)
DropBegins ==
    /\ owner = Alive
    /\ \A c \in Clients : call[c] = 0
    /\ owner' = [owner EXCEPT !.step = "stop"]
    /\ UNCHANGED <<requests, call, inbound, is_running, thread, history_by_id>>

ClearFlag ==
    /\ owner.step = "stop"
    /\ is_running' = [is_running EXCEPT ![owner.worker] = FALSE]
    /\ owner' = [owner EXCEPT !.step = "shutdown"]
    /\ UNCHANGED <<requests, call, inbound, thread, history_by_id>>

\* Mutant: the thread is expected to notice the flag.
SkipShutdown ==
    /\ owner.step = "shutdown"
    /\ owner' = [owner EXCEPT !.step = "join"]
    /\ UNCHANGED <<requests, call, inbound, is_running, thread, history_by_id>>

\* A SendError is ignored: the worker has already gone.
SendShutdown ==
    LET w == owner.worker
    IN  /\ owner.step = "shutdown"
        /\ \/ thread[w] = "exited" /\ UNCHANGED inbound
           \/ /\ thread[w] # "exited" /\ Len(inbound[w]) < InboundCapacity
              /\ inbound' = [inbound EXCEPT ![w] = Append(@, Shutdown)]
        /\ owner' = [owner EXCEPT !.step = "join"]
        /\ UNCHANGED <<requests, call, is_running, thread, history_by_id>>

Join ==
    LET w == owner.worker
    IN  /\ owner.step = "join" /\ thread[w] = "exited"
        /\ requests' = Lose(Elements(inbound[w]), requests)
        /\ inbound' = [inbound EXCEPT ![w] = <<>>]
        /\ owner' = IF w < WorkerCount THEN [step |-> "stop", worker |-> w + 1]
                    ELSE [step |-> "gone", worker |-> w]
        /\ UNCHANGED <<call, is_running, thread, history_by_id>>
-----------------------------------------------------------------------------
Issue(c) == send_event(c) \/ send_snapshot(c) \/ query_at(c) \/ send_advance(c)

ClientStep(c) == Send(c) \/ SendFails(c)
WaitStep(r) == r \in DOMAIN requests /\ (wait_ok(r) \/ wait_fails(r))
WorkerStep(w) == Check(w) \/ Stop(w) \/ ReceiveShutdown(w) \/ Receive(w) \/ Panic(w)
OwnerStep == ClearFlag \/ SendShutdown \/ Join

\* Everything is over.  Any other state without a step is a deadlock.
Over ==
    /\ owner.step = "gone"
    /\ \A r \in DOMAIN requests : requests[r].status # "sent"
    /\ UNCHANGED vars

Next ==
    \/ \E c \in Clients : Issue(c) \/ ClientStep(c)
    \/ \E r \in 1..MaxRequests : WaitStep(r)
    \/ \E w \in Workers : WorkerStep(w)
    \/ DropBegins
    \/ OwnerStep
    \/ Over

\* Threads are scheduled fairly: a worker, a sending client, a waiting client
\* and a drop that has begun make progress.  Nobody has to issue a request or
\* to drop the Contime.
Fairness ==
    /\ \A c \in Clients : WF_vars(ClientStep(c))
    /\ \A r \in 1..MaxRequests : WF_vars(WaitStep(r))
    /\ \A w \in Workers : WF_vars(WorkerStep(w))
    /\ WF_vars(OwnerStep)

Spec == Init /\ [][Next]_vars /\ Fairness
-----------------------------------------------------------------------------
RequestRecords ==
    [op : {"event", "snapshot", "query", "advance"},
     event : SUBSET EventLanes,
     route : Seq([worker : Workers, id : Ids \cup {0}, initial : SUBSET SnapshotTypes]),
     replies : Seq({"pending", "done", "lost"}),
     status : {"sending", "sent", "ok", "error", "worker_dropped"},
     earlier : SUBSET (1..MaxRequests),
     answer : SUBSET SUBSET (1..MaxRequests)]

Histories == [types : SUBSET SnapshotTypes, applied : SUBSET (1..MaxRequests),
              advances : SUBSET (1..MaxRequests)]

(***************************************************************************)
(* Type invariant.                                                         *)
(***************************************************************************)
TypeOK ==
    /\ requests \in Seq(RequestRecords)
    /\ call \in [Clients -> 0..MaxRequests]
    /\ \A w \in Workers :
          /\ Len(inbound[w]) <= InboundCapacity
          /\ history_by_id[w] \in [DOMAIN history_by_id[w] -> Histories]
    /\ inbound \in [Workers -> Seq([request : 0..MaxRequests, part : Nat])]
    /\ DOMAIN history_by_id = Workers
    /\ is_running \in [Workers -> BOOLEAN]
    /\ thread \in [Workers -> {"checking", "receiving", "exited"}]
    /\ owner \in [step : {"alive", "stop", "shutdown", "join", "gone"}, worker : Workers]

Running(w) == thread[w] # "exited"

\* An event or a snapshot whose handle reported success shows in the states of
\* every history it targets, at the worker a query would ask.
AcknowledgedIsApplied ==
    \A r \in DOMAIN requests :
        requests[r].status = "ok" /\ requests[r].op \in {"event", "snapshot"}
          => \A id \in Targets(r) :
                Running(WorkerIndex[id])
                  => /\ id \in DOMAIN history_by_id[WorkerIndex[id]]
                     /\ r \in history_by_id[WorkerIndex[id]][id].applied

\* A query answers with everything any client had finished sending for that id
\* before the query began, acknowledged or not; NotFound only if that is nothing.
QueriesSeeEarlierSends ==
    \A r \in DOMAIN requests :
        requests[r].status = "ok" /\ requests[r].op = "query"
          => requests[r].earlier \subseteq UNION requests[r].answer

(***************************************************************************)
(* src/api.rs: what the caller is told.  A method that waits itself turns  *)
(* a lost reply into a RouterError; a handle reports WorkerDropped.        *)
(***************************************************************************)
FromRouterError(e) == IF e = "MemoryFull" THEN "MemoryFull" ELSE "RouterError"
FromHandleError == "WorkerDropped"

\* apply_event, apply_snapshot, at and advance wait for the replies.
BlockingError(r) ==
    CASE requests[r].status \in {"error", "worker_dropped"} -> {FromRouterError("Error")}
      [] requests[r].op = "query" /\ requests[r].status = "ok"
            /\ requests[r].answer = {} -> {"NotFound"}
      [] OTHER -> {}

\* send_event, send_snapshot, query_at and send_advance leave that to a handle.
HandleOrError(r) ==
    CASE requests[r].status = "error" -> {FromRouterError("Error")}
      [] requests[r].status = "worker_dropped" -> {FromHandleError}
      [] OTHER -> {}

ContimeErrors(r) == BlockingError(r) \cup HandleOrError(r)

\* A caller is told that the router failed or a worker was dropped only when a
\* worker the request went to has really ended, by a panic or by a drop.
FailuresAreReal ==
    \A r \in DOMAIN requests :
        ContimeErrors(r) \cap {"RouterError", "WorkerDropped"} # {}
          => \E i \in DOMAIN requests[r].route :
                ~Running(requests[r].route[i].worker)

\* An advance whose handle reported success has advanced every history that
\* an event or a snapshot sent before it concerns.
AcknowledgedAdvanceReachedAll ==
    \A r \in DOMAIN requests :
        requests[r].status = "ok" /\ requests[r].op = "advance"
          => \A e \in requests[r].earlier : \A id \in Targets(e) :
                Running(WorkerIndex[id])
                  => /\ id \in DOMAIN history_by_id[WorkerIndex[id]]
                     /\ r \in history_by_id[WorkerIndex[id]][id].advances

\* src/api.rs:53-56: there is one current time, and history older than the
\* horizon behind it may go.  Once an advance is acknowledged, every history
\* has been advanced, those created afterwards included.
AdvancesReachEveryHistory ==
    \A r \in DOMAIN requests :
        requests[r].status = "ok" /\ requests[r].op = "advance"
          => \A w \in Workers : \A id \in DOMAIN history_by_id[w] :
                r \in history_by_id[w][id].advances

\* Every request is resolved, even when the Contime is dropped under it and
\* even when every channel is full, as long as no worker of a living Contime
\* has panicked.
Panicked(w) == thread[w] = "exited" /\ is_running[w]

EveryRequestResolves ==
    \A r \in 1..MaxRequests :
        r \in DOMAIN requests
          ~> \/ r \in DOMAIN requests
                /\ requests[r].status \in {"ok", "error", "worker_dropped"}
             \/ \E w \in Workers : Panicked(w)

\* A drop that has begun ends, panicked workers included, and every handle
\* that outlives the Contime is resolved.
DropTerminates ==
    owner.step # "alive"
      ~> owner.step = "gone" /\ \A r \in DOMAIN requests : requests[r].status # "sent"
=============================================================================
