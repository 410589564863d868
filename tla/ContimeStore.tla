---------------------------- MODULE ContimeStore ----------------------------
(***************************************************************************)
(* Contime implements Store: what the router, the channels, the threads    *)
(* and the drop do is, to a client, one store whose contents change at one *)
(* instant per part of a request.                                          *)
(***************************************************************************)
EXTENDS Contime

Places(route) == [i \in DOMAIN route |-> [worker |-> route[i].worker, id |-> route[i].id]]

\* A part that has not been sent is open as long as its call goes on.
Fate(request) ==
    [i \in DOMAIN request.route |->
        IF i \in DOMAIN request.replies
        THEN IF request.replies[i] = "pending" THEN "open" ELSE request.replies[i]
        ELSE IF request.status = "error" THEN "lost" ELSE "open"]

Reported(status) ==
    CASE status = "ok" -> "ok"
      [] status \in {"error", "worker_dropped"} -> "failed"
      [] OTHER -> "open"

Kept(id) ==
    LET histories == history_by_id[WorkerIndex[id]]
    IN  IF id \in DOMAIN histories THEN histories[id].applied ELSE {}

Kind(op, route) == [op |-> op, parts |-> Places(route)]

StoreKinds ==
    {Kind("event", Route(snapshots(e))) : e \in Events}
      \cup {Kind("snapshot", Route(<<s>>)) : s \in Corrections}
      \cup {Kind("query", <<Message(WorkerIndex[id], id, {})>>) : id \in QueryIds}
      \cup {Kind("advance", Broadcast)}

StoreContent == [id \in Ids |-> Kept(id)]

StoreCall(request) ==
    [op |-> request.op, parts |-> Places(request.route), fate |-> Fate(request),
     answer |-> request.answer, outcome |-> Reported(request.status)]

StoreCalls == [r \in DOMAIN requests |-> StoreCall(requests[r])]

StoreDown == {w \in Workers : thread[w] = "exited"}

Promise == INSTANCE Store WITH
    Kinds <- StoreKinds, content <- StoreContent, calls <- StoreCalls, down <- StoreDown

\* Whatever blocks, panics or is dropped, a part of a request takes effect once
\* or is lost with a worker the request went to, a success is reported when
\* every part is in effect, and an answer is what the store held at one instant.
ImplementsStore == Promise!Spec
=============================================================================
