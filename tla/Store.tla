-------------------------------- MODULE Store --------------------------------
(***************************************************************************)
(* What contime promises its clients, without channels, threads or a       *)
(* drop in several steps: one store of contents by id.  A request consists *)
(* of parts.  Each part takes effect at one instant between the call and   *)
(* the success it reports, once, or is lost; it is lost only with the      *)
(* worker that a part of the same request went to.  A request that failed  *)
(* may still take effect in part.                                          *)
(***************************************************************************)
EXTENDS Naturals, Sequences

CONSTANTS Workers, Ids,
          WorkerIndex,  \* the worker that keeps an id
          Kinds         \* [op, parts]: the requests there can be

VARIABLES
  content,  \* the requests in effect for each id
  calls,    \* the requests issued so far
  down      \* workers whose contents are lost

vars == <<content, calls, down>>

Init ==
    /\ content = [id \in Ids |-> {}]
    /\ calls = <<>>
    /\ down = {}

Open(r) == {i \in DOMAIN calls[r].fate : calls[r].fate[i] = "open"}

OpenAt(w) ==
    UNION {{<<r, i>> : i \in {p \in Open(r) : calls[r].parts[p].worker = w}} :
              r \in DOMAIN calls}

Call(kind) ==
    /\ calls' = Append(calls,
           [op |-> kind.op, parts |-> kind.parts,
            fate |-> [i \in DOMAIN kind.parts |-> "open"], answer |-> {}, outcome |-> "open"])
    /\ UNCHANGED <<content, down>>

\* An input changes the content of an id, a query reads it, an advance does
\* neither.  Ids without content are not found.
Effect(r, i) ==
    LET id == calls[r].parts[i].id IN
    /\ i \in Open(r)
    /\ calls[r].parts[i].worker \notin down
    /\ content' = IF calls[r].op \in {"event", "snapshot"}
                  THEN [content EXCEPT ![id] = @ \cup {r}] ELSE content
    /\ calls' = [calls EXCEPT ![r].fate[i] = "done",
                              ![r].answer = IF calls[r].op = "query" /\ content[id] # {}
                                            THEN {content[id]} ELSE {}]
    /\ UNCHANGED down

\* The worker goes, or has gone, and any of the open parts it was to handle
\* go with it.
Fail(w) ==
    /\ down' = down \cup {w}
    /\ content' = [id \in Ids |-> IF WorkerIndex[id] = w THEN {} ELSE content[id]]
    /\ \E kept \in SUBSET OpenAt(w) :
          calls' = [r \in DOMAIN calls |->
                      [calls[r] EXCEPT !.fate =
                          [i \in DOMAIN @ |->
                              IF <<r, i>> \in OpenAt(w) \ kept THEN "lost" ELSE @[i]]]]

\* The caller is turned away at a worker that is down; what it has not handed
\* over by then is lost.
Abandon(r) ==
    /\ calls[r].outcome = "open"
    /\ \E lost \in SUBSET Open(r) :
          /\ \E i \in lost : calls[r].parts[i].worker \in down
          /\ calls' = [calls EXCEPT ![r].outcome = "failed",
                                    ![r].fate = [i \in DOMAIN @ |->
                                        IF i \in lost THEN "lost" ELSE @[i]]]
    /\ UNCHANGED <<content, down>>

Succeed(r) ==
    /\ calls[r].outcome = "open"
    /\ \A i \in DOMAIN calls[r].fate : calls[r].fate[i] = "done"
    /\ calls' = [calls EXCEPT ![r].outcome = "ok"]
    /\ UNCHANGED <<content, down>>

ReportLoss(r) ==
    /\ calls[r].outcome = "open"
    /\ \E i \in DOMAIN calls[r].fate : calls[r].fate[i] = "lost"
    /\ calls' = [calls EXCEPT ![r].outcome = "failed"]
    /\ UNCHANGED <<content, down>>

Next ==
    \/ \E kind \in Kinds : Call(kind)
    \/ \E r \in DOMAIN calls :
          \/ \E i \in DOMAIN calls[r].parts : Effect(r, i)
          \/ Abandon(r) \/ Succeed(r) \/ ReportLoss(r)
    \/ \E w \in Workers : Fail(w)

Spec == Init /\ [][Next]_vars
=============================================================================
