-------------------------- MODULE ContimeInvariant --------------------------
(***************************************************************************)
(* Why what Contime reports is true: the inductive invariant of its        *)
(* requests.  Every part of a request that has been sent is in one place:  *)
(* once in the inbound channel of its worker, done and in effect at that   *)
(* worker, or lost with it; and whatever was sent earlier to the same      *)
(* worker is ahead of it.                                                  *)
(***************************************************************************)
EXTENDS Contime

\* src/worker.rs:99: histories are keyed by id alone.  Where two types share an
\* id, an event for one of them need not show in the states of the other.
IdsNotShared == \A s, t \in States : s.id = t.id => s.type = t.type

Part(r, i) == [request |-> r, part |-> i]
WorkerOf(r, i) == requests[r].route[i].worker
IsUpdate(r) == requests[r].op \in {"event", "snapshot"}

(***************************************************************************)
(* The requests and the calls that send them.                              *)
(***************************************************************************)
WellRouted(request) ==
    \/ /\ request.op = "event"
       /\ \E e \in Events : request.event = {e} /\ request.route = Route(snapshots(e))
    \/ /\ request.op = "snapshot" /\ request.event = {}
       /\ \E s \in Corrections : request.route = Route(<<s>>)
    \/ /\ request.op = "query" /\ request.event = {}
       /\ \E id \in QueryIds : request.route = <<Message(WorkerIndex[id], id, {})>>
    \/ /\ request.op = "advance" /\ request.event = {}
       /\ request.route = Broadcast

SentInFull(r) ==
    /\ WellRouted(requests[r])
    /\ Len(requests[r].replies) <= Len(requests[r].route)
    /\ requests[r].status = "sending"
          => Len(requests[r].replies) < Len(requests[r].route)
    /\ Sent(r) => Len(requests[r].replies) = Len(requests[r].route)
    /\ requests[r].status = "ok"
          => \A i \in DOMAIN requests[r].replies : requests[r].replies[i] = "done"

EarlierIsSent(r) ==
    \A e \in requests[r].earlier :
        /\ e \in DOMAIN requests /\ IsUpdate(e) /\ Sent(e)
        /\ requests[r].op = "query" => requests[r].route[1].id \in Targets(e)

CallsAreOwn ==
    \A c \in Clients :
        call[c] # 0 => /\ call[c] \in DOMAIN requests
                       /\ requests[call[c]].status = "sending"
                       /\ \A d \in Clients : call[d] = call[c] => d = c

(***************************************************************************)
(* The parts of the requests.                                              *)
(***************************************************************************)
QueuedOnce ==
    \A w \in Workers : \A j \in DOMAIN inbound[w] :
        LET m == inbound[w][j]
        IN  m # Shutdown
              => /\ m.request \in DOMAIN requests
                 /\ m.part \in DOMAIN requests[m.request].replies
                 /\ requests[m.request].replies[m.part] = "pending"
                 /\ WorkerOf(m.request, m.part) = w
                 /\ \A k \in DOMAIN inbound[w] : inbound[w][k] = m => k = j

PendingIsQueued(r, i) ==
    requests[r].replies[i] = "pending"
      => \E j \in DOMAIN inbound[WorkerOf(r, i)] : inbound[WorkerOf(r, i)][j] = Part(r, i)

LostIsReal(r, i) == requests[r].replies[i] = "lost" => ~Running(WorkerOf(r, i))

FailedIsReal(r) ==
    requests[r].status \in {"error", "worker_dropped"}
      => \E i \in DOMAIN requests[r].route : ~Running(WorkerOf(r, i))

\* A part that was sent before a request began is ahead of it in the channel.
EarlierIsAhead ==
    \A w \in Workers : \A j \in DOMAIN inbound[w] :
        inbound[w][j] # Shutdown
          => \A e \in requests[inbound[w][j].request].earlier :
                \A i \in DOMAIN requests[e].replies :
                    requests[e].replies[i] = "pending" /\ WorkerOf(e, i) = w
                      => \E k \in 1..(j - 1) : inbound[w][k] = Part(e, i)

(***************************************************************************)
(* What the parts that are done have done: every history they target       *)
(* exists, and shows them as far as ids are not shared.                    *)
(***************************************************************************)
Shows(w, id, r) ==
    /\ id \in DOMAIN history_by_id[w]
    /\ IdsNotShared => r \in history_by_id[w][id].applied

Advances(w, id, r) == id \in DOMAIN history_by_id[w] /\ r \in history_by_id[w][id].advances

DoneIsInEffect(r, i) ==
    LET w == WorkerOf(r, i)
    IN  requests[r].replies[i] = "done"
          => /\ IsUpdate(r) /\ Running(w) => Shows(w, requests[r].route[i].id, r)
             /\ requests[r].op = "advance" /\ Running(w)
                  => \A e \in requests[r].earlier : \A id \in Targets(e) :
                        WorkerIndex[id] = w => Advances(w, id, r)
             /\ requests[r].op = "query" /\ IdsNotShared
                  => requests[r].earlier \subseteq UNION requests[r].answer

HistoriesKeepTheirType ==
    \A w \in Workers : \A id \in DOMAIN history_by_id[w] :
        \A t \in history_by_id[w][id].types : [type |-> t, id |-> id] \in States

RequestsAccounted ==
    /\ TypeOK
    /\ Len(requests) <= MaxRequests
    /\ \A r \in DOMAIN requests : SentInFull(r) /\ EarlierIsSent(r) /\ FailedIsReal(r)
    /\ CallsAreOwn
    /\ QueuedOnce
    /\ EarlierIsAhead
    /\ \A r \in DOMAIN requests : \A i \in DOMAIN requests[r].replies :
          PendingIsQueued(r, i) /\ LostIsReal(r, i) /\ DoneIsInEffect(r, i)
    /\ HistoriesKeepTheirType

(***************************************************************************)
(* A thread that has ended has no histories left, and where ids are not    *)
(* shared a history exists only with an update in effect, so that NotFound *)
(* means that there is none.                                               *)
(***************************************************************************)
ContentsAccounted ==
    \A w \in Workers :
        /\ ~Running(w) => DOMAIN history_by_id[w] = {}
        /\ IdsNotShared
             => \A id \in DOMAIN history_by_id[w] : history_by_id[w][id].applied # {}
=============================================================================
