---------------------------- MODULE MemoryBudget ----------------------------
(***************************************************************************)
(* The byte counter that every worker adds to and every sender compares    *)
(* with the budget: src/router.rs:53-57 and 79-83,                         *)
(* fetch_saturating_add_signed and the calls to it in src/worker.rs.       *)
(* What a history reports for one input is left open within                *)
(* CheckpointDeltas; HistoryMemory computes it.                            *)
(***************************************************************************)
EXTENDS Sequences, Sums

CONSTANTS
  Workers, Clients,
  Budget,            \* memory_budget
  InboundCapacity,   \* capacity of a worker's inbound channel, 1000 in the code
  InputSizes,        \* conservative_size of events and snapshots
  SnapshotSize,      \* conservative_size of a new history's base snapshot
  CheckpointDeltas,  \* what checkpoints taken and invalidated add to an input
  TargetLists,       \* the workers of the histories an input targets
  MaxRequests,       \* bound of the model: inputs and advances sent in one run
  MaxWord            \* the largest value of the counter, u64::MAX in the code

\* What may still be added when the last sender passes the check: what sits in
\* full channels, at the workers, and with senders that have read the counter.
LargestInput ==
    SnapshotSize + Max({0} \cup {n + c : n \in InputSizes, c \in CheckpointDeltas})

MostTargets == Max({Len(targets) : targets \in TargetLists})

Overshoot == LargestInput *
    (Cardinality(Workers) * (InboundCapacity + 1) + Cardinality(Clients) * MostTargets)

ASSUME BudgetAssumption ==
    /\ IsFiniteSet(Workers) /\ IsFiniteSet(Clients)
    /\ Budget \in Nat
    /\ InboundCapacity \in Nat \ {0}
    /\ InputSizes \subseteq Nat /\ IsFiniteSet(InputSizes) /\ InputSizes # {}
    /\ SnapshotSize \in Nat
    /\ CheckpointDeltas \subseteq Int /\ IsFiniteSet(CheckpointDeltas)
    /\ TargetLists \subseteq Seq(Workers) \ {<<>>}
    /\ IsFiniteSet(TargetLists) /\ TargetLists # {}
    /\ MaxRequests \in Nat
    /\ MaxWord \in Nat

\* The sizes a client claims leave room above the budget.  The code does not
\* check this: a size near u64::MAX makes usage + size wrap and pass the check.
ASSUME WordSuffices == Budget + Overshoot + Max(InputSizes) <= MaxWord

VARIABLES
  memory_usage,  \* the shared AtomicU64
  sender,        \* the call each client is in
  inbound,       \* worker_inbound channels: the size of an input, or Advance
  todo,          \* deltas each worker has still to add for its current request
  current,       \* what its compare-exchange loop has loaded: {} or {value}
  reported,      \* sum of the deltas its histories have returned so far
  requests       \* how many have been sent or refused

vars == <<memory_usage, sender, inbound, todo, current, reported, requests>>

Advance == -1
Idle == [usage |-> 0, size |-> 0, targets |-> <<>>]

Init ==
    /\ memory_usage = 0
    /\ sender = [c \in Clients |-> Idle]
    /\ inbound = [w \in Workers |-> <<>>]
    /\ todo = [w \in Workers |-> <<>>]
    /\ current = [w \in Workers |-> {}]
    /\ reported = [w \in Workers |-> 0]
    /\ requests = 0
-----------------------------------------------------------------------------
(***************************************************************************)
(* Sending.  The counter is read once, before anything is sent.            *)
(***************************************************************************)
LoadUsage(c) ==
    /\ sender[c] = Idle /\ requests < MaxRequests
    /\ requests' = requests + 1
    /\ \E n \in InputSizes, targets \in TargetLists :
          sender' = [sender EXCEPT ![c] =
                        [usage |-> memory_usage, size |-> n, targets |-> targets]]
    /\ UNCHANGED <<memory_usage, inbound, todo, current, reported>>

\* Mutant: the size of the input alone is compared with the budget.
FitsAlone(call) == call.size < Budget

\* The sum is a u64 and not checked: it wraps (or, built with overflow checks,
\* panics in the caller, which then sends nothing).
Fits(call) == (call.usage + call.size) % (MaxWord + 1) < Budget

\* Err(MemoryFull)
Refuse(c) ==
    /\ sender[c] # Idle /\ ~Fits(sender[c])
    /\ sender' = [sender EXCEPT ![c] = Idle]
    /\ UNCHANGED <<memory_usage, inbound, todo, current, reported, requests>>

\* One message per target; the check is not repeated.
Send(c) ==
    /\ sender[c] # Idle /\ Fits(sender[c])
    /\ LET w    == Head(sender[c].targets)
           rest == Tail(sender[c].targets)
       IN  /\ Len(inbound[w]) < InboundCapacity
           /\ inbound' = [inbound EXCEPT ![w] = Append(@, sender[c].size)]
           /\ sender' = [sender EXCEPT ![c] = IF rest = <<>> THEN Idle
                                              ELSE [@ EXCEPT !.targets = rest]]
    /\ UNCHANGED <<memory_usage, todo, current, reported, requests>>

\* A worker's share of an advance.
SendAdvance(c, w) ==
    /\ sender[c] = Idle /\ requests < MaxRequests
    /\ requests' = requests + 1
    /\ Len(inbound[w]) < InboundCapacity
    /\ inbound' = [inbound EXCEPT ![w] = Append(@, Advance)]
    /\ UNCHANGED <<memory_usage, sender, todo, current, reported>>
-----------------------------------------------------------------------------
\* The deltas a worker adds, one after the other, for an input of size n: the
\* base snapshot when the history is new, then what applying it returned.  A
\* duplicate returns 0.
InputDeltas(n) ==
    LET applied == {0} \cup {n + c : c \in CheckpointDeltas}
    IN  {<<d>> : d \in applied} \cup {<<SnapshotSize, d>> : d \in applied}

\* Two histories stand for all those of the worker; together they never give
\* back more than they reported.
AdvanceDeltas(kept) == {<<-d, -e>> : d, e \in 0..kept}

Handle(w) ==
    /\ todo[w] = <<>> /\ inbound[w] # <<>>
    /\ \E deltas \in IF Head(inbound[w]) = Advance THEN AdvanceDeltas(reported[w])
                     ELSE InputDeltas(Head(inbound[w])) :
          /\ reported[w] + Total(deltas) >= 0
          /\ todo' = [todo EXCEPT ![w] = deltas]
          /\ reported' = [reported EXCEPT ![w] = @ + Total(deltas)]
    /\ inbound' = [inbound EXCEPT ![w] = Tail(@)]
    /\ UNCHANGED <<memory_usage, sender, current, requests>>

(***************************************************************************)
(* fetch_saturating_add_signed: load, then compare-exchange, which fails   *)
(* when the counter has changed and may fail when it has not.              *)
(***************************************************************************)
SaturatingAdd(n, d) == Max({0, Min({n + d, MaxWord})})

Load(w) ==
    /\ todo[w] # <<>> /\ current[w] = {}
    /\ current' = [current EXCEPT ![w] = {memory_usage}]
    /\ UNCHANGED <<memory_usage, sender, inbound, todo, reported, requests>>

\* Mutant: the new value is stored without comparing.
StoreLoaded(w) ==
    \E n \in current[w] :
        /\ memory_usage' = SaturatingAdd(n, Head(todo[w]))
        /\ todo' = [todo EXCEPT ![w] = Tail(@)]
        /\ current' = [current EXCEPT ![w] = {}]
        /\ UNCHANGED <<sender, inbound, reported, requests>>

CompareExchange(w) ==
    /\ current[w] = {memory_usage}
    /\ memory_usage' = SaturatingAdd(memory_usage, Head(todo[w]))
    /\ todo' = [todo EXCEPT ![w] = Tail(@)]
    /\ current' = [current EXCEPT ![w] = {}]
    /\ UNCHANGED <<sender, inbound, reported, requests>>

Retry(w) ==
    /\ current[w] # {}
    /\ current' = [current EXCEPT ![w] = {}]
    /\ UNCHANGED <<memory_usage, sender, inbound, todo, reported, requests>>
-----------------------------------------------------------------------------
ClientStep(c) ==
    \/ LoadUsage(c) \/ Refuse(c) \/ Send(c)
    \/ \E w \in Workers : SendAdvance(c, w)

WorkerStep(w) == Handle(w) \/ Load(w) \/ CompareExchange(w) \/ Retry(w)

Next == (\E c \in Clients : ClientStep(c)) \/ (\E w \in Workers : WorkerStep(w))

Spec == Init /\ [][Next]_vars
-----------------------------------------------------------------------------
(***************************************************************************)
(* No delta is lost between two workers that add at once, and the          *)
(* saturation never hides one: the counter and what is still being added   *)
(* make up exactly what the histories reported.                            *)
(***************************************************************************)
NothingLost ==
    memory_usage + SumOver([w \in Workers |-> Total(todo[w])], Workers)
        = SumOver(reported, Workers)

\* The senders that pass the check before anything of it shows in the counter
\* raise the counter past the budget, but by no more than Overshoot: it stays
\* short of the largest word, so that the sum in the check never wraps.
OvershootBounded == memory_usage > 0 => memory_usage < Budget + Overshoot

(***************************************************************************)
(* Why: the inductive invariant.  What the counter shows and everything    *)
(* that may still be added to it, at the workers, in their channels and    *)
(* for senders past the check, grows only when a sender passes the check,  *)
(* and is short of the bound at that moment.  A worker never gives back    *)
(* more than it has added.                                                 *)
(***************************************************************************)
TypeOK ==
    /\ memory_usage \in 0..MaxWord
    /\ sender \in [Clients -> [usage : 0..MaxWord, size : Nat, targets : Seq(Workers)]]
    /\ inbound \in [Workers -> Seq(InputSizes \cup {Advance})]
    /\ todo \in [Workers -> Seq(Int)]
    /\ current \in [Workers -> SUBSET (0..MaxWord)]
    /\ reported \in [Workers -> Nat]
    /\ requests \in 0..MaxRequests

CallsAreInputs ==
    \A c \in Clients : sender[c] # Idle =>
        /\ sender[c].size \in InputSizes
        /\ sender[c].targets # <<>> /\ Len(sender[c].targets) <= MostTargets

Growth(deltas) == [i \in DOMAIN deltas |-> Max({0, deltas[i]})]
Charges(queue) ==
    [i \in DOMAIN queue |-> IF queue[i] = Advance THEN 0 ELSE LargestInput]

WorkersWithinBounds ==
    \A w \in Workers :
        /\ Len(inbound[w]) <= InboundCapacity
        /\ Total(Growth(todo[w])) <= LargestInput
        /\ Len(todo[w]) <= 2
        /\ Total(todo[w]) <= reported[w]
        /\ todo[w] # <<>> => Total(Tail(todo[w])) <= reported[w]
        /\ current[w] # {} => todo[w] # <<>>

Coming(w) == Total(Growth(todo[w])) + Total(Charges(inbound[w]))
Owed(call) == IF Fits(call) THEN LargestInput * Len(call.targets) ELSE 0

Committed ==
    memory_usage + SumOver([w \in Workers |-> Coming(w)], Workers)
                 + SumOver([c \in Clients |-> Owed(sender[c])], Clients)

BudgetAccounted ==
    /\ TypeOK /\ CallsAreInputs /\ WorkersWithinBounds /\ NothingLost
    /\ Committed > 0 => Committed < Budget + Overshoot
=============================================================================
