# contime in TLA+

`contime` keeps, for every snapshot id, a history of events and authoritative
snapshots, and answers "what was the state at time t" while events arrive late,
twice and in any order. This directory holds TLA+ modules that model it, TLC
configurations that check them on small instances, and proofs checked by TLAPS.
Paths such as `src/history.rs` are relative to the root of the repository.

## The system

| part | state | operations | hard part |
|---|---|---|---|
| key (`src/key.rs`) | none | the order on (time, id) | event ids and snapshot ids are compared with each other |
| apply (`src/apply.rs`) | none of its own | `apply_event_in_place`, `replay_and_checkpoint` | which checkpoints an event makes stale, where the replay starts |
| history (`src/history.rs`) | base snapshot, checkpoints, events, current time, reconciliation channel | `new`, `apply_event`, `apply_snapshot`, `advance`, `snapshot_at` | long sequences of these: the three stores must keep fitting together |
| router (`src/router.rs`) | budget, usage counter, the workers | `send_event`, `send_snapshot`, `query_at`, `send_advance` and their blocking forms | fan-out to several workers, sends that block or fail half-way |
| worker (`src/worker.rs`) | one thread, its histories, a bounded inbound channel, a running flag | five messages, `Drop` | interleaving, panics, shutdown, the compare-exchange loop |
| handles (`src/handle.rs`) | reply receivers | `wait`, `try_recv`, `recv_async` | polling while replies arrive and workers go away |
| API (`src/api.rs`) | none | forwards to the router, turns errors into its own | what an error tells the caller |
| lanes (`src/macros.rs`, `src/traits.rs`) | none | dispatch on the type, `snapshots()` | an event has one id per target type; lanes with equal ids share one history |

A client calls the API; the router cuts a request into messages, one per target
history (an event may have several) or one per worker (an advance), and sends
them over bounded channels with a reply channel in each. A worker owns its
histories alone and handles one message at a time. The only memory that threads
share is the usage counter and each worker's running flag. A query returns the
snapshot and a clone of the history's reconciliation receiver. Nothing is
persisted, so there is no crash recovery; a panic in a worker takes its
histories with it.

What makes each part correct:

- *lanes*: an event reaches the history of every type it lists, under the id that
  type takes from it, and changes the state of each.
- *reconciliation*: a client whose answer late data has changed can find out.
- *history*: an answer holds all retained events before the query time, in key
  order, on top of the newest authoritative state; pruning is invisible
  inside the horizon; changes of known history are announced.
- *memory*: the counter follows what is stored; no delta is lost between threads.
- *router and workers*: an acknowledged input is in force at the worker a query
  would ask; every request is resolved; dropping the `Contime` ends.
- *handles*: completion and failure are reported when they are true.

`PROJECT.json` lists the hazards, each at its line and with its properties.

## Modules

| module | models | notes |
|---|---|---|
| `ContimeKey` | `src/key.rs` | order and range bounds |
| `Apply` | `src/apply.rs` | pure operators on checkpoints and event keys |
| `History` | `src/history.rs` | one action per method |
| `HistoryClaims` | | what documentation and comments say where the code differs |
| `Timeline`, `HistoryTimeline` | | the abstract promise, and the refinement mapping |
| `HistoryMemory` | the `bytes_delta` of `src/history.rs` and `src/apply.rs` | composes a counter with `History` |
| `ReplayLoops` | the loops of `src/apply.rs` and `src/history.rs` | one event at a time, with count, checkpoints and bytes |
| `Subscribers` | one entry of `history_by_id` in `src/worker.rs`, and its clients | composes `History` with creation, several queriers and the shared receiver |
| `Lanes` | `src/macros.rs` | what `contime!` generates |
| `Contime` | `src/router.rs`, `src/worker.rs`, `src/api.rs`, the blocking side of `src/handle.rs` | clients, workers, channels, drop |
| `ContimeInvariant` | | the inductive invariants of the requests and of the histories |
| `Store`, `ContimeStore` | | the abstract promise to clients, and the refinement mapping |
| `MemoryBudget` | the check in `src/router.rs`, `fetch_saturating_add_signed` and its calls | |
| `Handles` | `src/handle.rs` | polling and waiting, one channel at a time |
| `Sums` | | sums over sets and sequences, for `HistoryMemory` and `MemoryBudget` |
| `HistoryProofs` | | theorems about `ContimeKey`, `Apply` and `History` |
| `HistoryMemoryProofs` | | theorems about `HistoryMemory` and `ReplayLoops` |
| `HistoryTimelineProofs`, `SubscribersProofs`, `MemoryBudgetProofs`, `HandlesProofs` | | theorems about the module of that name |
| `ContimeProofs` | | theorems about `Contime` and `ContimeStore` |
| `SumProofs` | | lemmas about `Sums` |
| `MC*` | | constants for TLC |

`HistoryTimeline`, `HistoryMemory` (with `ReplayLoops`) and `Subscribers` extend
`History`, which extends `Apply` and `ContimeKey`. `Contime` extends `Lanes` and
abstracts a history to the set of requests its states show, and `MemoryBudget` abstracts what an operation costs to a set of
possible deltas; `History` and `HistoryMemory` are the detailed accounts of both.

### How state and actions correspond to the code

*Events* are their keys: the key determines the payload, and the code recognises
duplicates by key alone. The `BTreeMap` of events is therefore a set of keys and
iteration over a range is iteration in key order.

*Snapshots* are abstracted to what tells their contents apart: the authoritative
or initial state they grew from (`from`, `anchor`), the events `apply_to` was
called with since (`applied`), how many calls there were (`items`), whether the
calls came in key order (`inOrder`), and `time()`. `Replay` is the loop that
calls `apply_to` and `set_time`; `ReplayLoops` spells the loop out, and
`LoopsAgree` compares the two.

*Lanes*: a snapshot is its type and id, an event its variant and the id that
`from_event` of each target type would take from it. `snapshots` and `applies_to`
are the generated `snapshots()` and the match in `apply_to`, where a pair that is
not listed is ignored.

*History* has one action per method, each with all its effects: `apply_event` is
the duplicate check, the fast or slow path and the `try_send`; `apply_snapshot`
drops later checkpoints, stores the snapshot, replays and notifies; `advance`
prunes both maps and promotes the newest dropped checkpoint. `snapshot_at` leaves
its answer in `reply`; where the code panics, `snapshot_at_panics` sets
`panicked` and the history stops.

*Subscribers* adds the rest of an entry to a history. Until the first input there
is none and a query finds nothing; the first event creates it and is applied, a
first snapshot becomes its base snapshot at time 0. Every query (`at`) leaves its
client with the answer (`holds`) and a clone of the receiver; `listen` takes a
notification, from whichever clone; `told` remembers who has taken one since a
client's answer was last changed.

*Contime* has the client side (`Begin`, one `Send` per message, `SendFails`), the
waits (`wait_ok`, `wait_fails`), the worker loop (`Check`, then `Receive`,
`ReceiveShutdown` or `Panic`; `Stop`) and the steps of `Drop` for each worker in
turn (`ClearFlag`, `SendShutdown`, `Join`). When a worker ends with messages
still queued, the channel may drop them at once or keep them until the router
frees its sender. Both outcomes are in the model (`Exit`): which one happens is
the business of the channel library. `BlockingError` and `HandleOrError` are what
`src/api.rs` makes of a failure in its blocking and in its handle-based methods.

*Store* has no channels, threads or steps of a drop: each part of a request takes
effect at one instant, once, or is lost with a worker the request went to.
`ContimeStore` maps a reply that is still outstanding to a part that is open, the
histories of running workers to the contents, and ended threads to workers that
are down.

*MemoryBudget* separates the sender's load of the counter from its sends, and
the worker's load from its compare-exchange, which may also fail spuriously.

## Runs that pass

| run | question | bounds and why they are enough |
|---|---|---|
| `history` | do checkpoints, answers, replay order, notifications and byte deltas stay right under every operation, do the loops compute what the operators state, and when is pruning invisible? (`Consistent` is the inductive invariant) | 4 event keys (two at one time; ids below, at and above the snapshot id), 3 snapshot times, a checkpoint every 2 events, time up to 4, a channel of 1: every path of `apply_event_in_place`, promotion, pruning between checkpoints and a full channel occur; sizes 3, 5, 1 tell events, snapshots and items apart |
| `timeline` | does a history that is not advanced implement `Timeline`, and place its checkpoints independently of arrival order? (`Unpruned` is the invariant the refinement needs) | 5 event keys and 3 snapshot times in every order, 2 payloads so that swapped authoritative states are noticed |
| `subscribers` | can clients that share a receiver find out that their answers changed? (`AnswersAccounted` is the inductive invariant) | 2 clients, 3 event keys, corrections at 2 times, queries at 2 times, a channel of 1 so that notifications are dropped |
| `requests` | do acknowledgements, answers and errors tell the truth, is every request resolved, does dropping end, and is it all one `Store`? (`RequestsAccounted` is the inductive invariant, `ContentsAccounted` the one about histories) | 2 workers with 3 snapshot ids of 2 types, events for one history, for histories of both workers and for two of one worker, 2 clients, channels of 1 so that sends block, panics in queries, a drop at any time. 2 requests, which may be open at once: every pair of requests in every order, two fan-outs that cross, a fan-out that meets a panic or fills a channel by itself. The safety properties and the refinement are proved for any number of requests |
| `counter` | is a delta ever lost, and how far can the counter pass the budget? (`BudgetAccounted` is the inductive invariant) | 2 workers adding at once, 1 client, 4 requests for up to 2 histories each: enough to exceed the bound if the check did not hold; the largest word leaves exactly the room that `WordSuffices` asks for, so that one more input would wrap |
| `polling` | do handles report the truth and end? (`Accounted` is the inductive invariant) | 3 receivers, so that `swap_remove` moves one over another |

The code's interval is 100 and its channels hold 1000 or 1; the models take both
as constants, and nothing in the code depends on their size otherwise. Bounds
that belong to the model alone are `MaxTime` (History) and `MaxRequests`
(Contime, MemoryBudget). Times are unbounded integers and `AdvanceSteps` are not
negative: the overflow of `i64` is outside the models. The counter is a word of
`MaxWord`: the sum in the check wraps and the additions saturate, and the
assumption `WordSuffices` says how much room sizes must leave for neither to
happen. `Subscribers` is never advanced.

`history`, `timeline` and `subscribers`, like the soundness proofs, restrict the inputs in two
ways, each a constant: `LateEvents = FALSE` (no event from before the horizon)
and `AheadSnapshots = FALSE` (no authoritative snapshot newer than every event).
The code accepts both kinds of input and mishandles both, see below.
`CHECK_DEADLOCK FALSE` stands where a run really ends: a history whose worker
has panicked, or clients that have sent their `MaxRequests`. `Contime` and
`Handles` are checked for deadlock; in `Contime` the only state without a further
step is the one after the drop (`Over`).

### Fairness

`Contime` assumes weak fairness of each worker thread, each client inside a call,
each waiting client and the owner once it drops: threads are scheduled by the
operating system and block only on channels and joins. Nobody has to issue a
request or drop the `Contime`. `EveryRequestResolves` makes an exception for
panics: after one, a channel that keeps its queue leaves a waiter waiting until
the `Contime` is dropped, which `DropTerminates` covers. `Handles` assumes that a
worker replies or drops its sender, and that an owner who polls goes on polling.
`Subscribers` assumes that a client which holds a receiver keeps receiving from it
and queries again once it has been told, which is how `README.md:76` wants it
used; nobody has to send anything. `CatchesUp` makes an exception for a client
whose notification another one took, see `competing_receivers`.

## Where the code and its documentation differ

Each of these runs checks what a comment or a document says and ends in a
counterexample.

| run | the code | what is said |
|---|---|---|
| `query_boundary` | an event at exactly the query time is in the answer when its id is below the snapshot id (`src/history.rs:221`) | `src/history.rs:209`, `src/api.rs:91`, `src/lib.rs:16`, `README.md:122` |
| `query_panic` | a query at the time of an authoritative snapshot panics and kills the worker | `src/history.rs:207` |
| `ahead_snapshot` | after a snapshot newer than every event, the next event stores a copy of it as its own checkpoint | `src/apply.rs:52` |
| `late_event_drops_snapshot` | a late event removes authoritative snapshots after it for good | `README.md:25` |
| `competing_receivers` | all queries of an id share one receiver, so that a notification reaches one client only | `src/handle.rs:67` |
| `late_history` | a history created after an advance starts at time 0 and is not advanced to its siblings' time | `src/api.rs:53-56`, `65` |

The query boundary divides the tests as well: `tests/query.rs:67` expects the
event to be left out, and passes because its event id is above the snapshot id,
while `tests/sync.rs:24` queries at the time of an event with a smaller id and
expects it. No passing property takes a side: `AnswersSound` asks for the events
before the query time and allows none after the query key, and `Timeline` leaves
open which events of the query time itself are replayed.

Smaller differences, visible in the modules but without a run of their own:

- Pruning loses the events between the promoted checkpoint and the horizon, so
  that answers inside the horizon change (`src/history.rs:135`). A test,
  `tests/memory.rs`, expects that; `PruningIsInvisible` says when it cannot be
  seen. A `Contime` made with `new` has a horizon of 0: advancing it prunes all
  that lies in the past.
- The first snapshot of an id is not stored under its key (`src/worker.rs:116`):
  queries before its time show it, and older events are replayed on top of it.
- The same lost reply is `RouterError` through a blocking method and
  `WorkerDropped` through a handle (`src/router.rs:75`).
- A duplicate of a pruned event, or any event from before the horizon, is applied
  on top of the promoted base snapshot (`src/apply.rs:43`).
- An event at the latest event's time with a smaller id is replayed out of order
  and not announced (`src/history.rs:159`); nor is an in-order event that lies
  before a time already queried. `HistoryChangesAreAnnounced` states what is.
- The checkpoint promoted to base snapshot is subtracted from the counter though
  it is kept (`src/history.rs:138`), so `UsageMatchesMaps` counts the base
  snapshot at its initial size only. With a snapshot newer than every event, a
  checkpoint stored over it is counted twice (`src/apply.rs:90`).
- Inputs in flight pass the budget check against a counter that does not show
  them yet (`src/router.rs:53`); `OvershootBounded` says how far that goes.
- `QueryHandle::try_recv` called again after it returned the result reports
  `WorkerDropped` (`src/handle.rs:93`).

## Proofs

TLAPS proves the following for every value of the constants that satisfies the
named assumptions of the modules. Hypotheses beyond those are stated in the
theorem and listed here.

| theorem | states | hypotheses |
|---|---|---|
| `KeyOrder` | the derived order of keys is strict and total | |
| `TypeCorrect` (`HistoryProofs`) | `TypeOK` of `History` | |
| `ChangesAreAnnounced` | `HistoryChangesAreAnnounced` | |
| `PruningStaysInvisible` | `PruningIsInvisible` | |
| `StaysConsistent`, `CheckpointsStaySound`, `AnswersStaySound`, `EventsStayInOrder` | `Consistent`, `CheckpointsSound`, `AnswersSound`, `AppliedInOrder` | no `LateEvents`, no `AheadSnapshots` |
| `StaysUnpruned`, `HistoryIsTimeline`, `StaysOrderIndependent` | `Unpruned`, `ImplementsTimeline`, `OrderIndependent` | no advance, no `AheadSnapshots` |
| `AnswersStayAccounted`, `SomebodyAlwaysHears` | `AnswersAccounted`, `SomebodyWillHear` | a channel that can hold a notification |
| `RequestsStayAccounted`, `ContimeTypeCorrect`, `FailuresStayReal`, `AdvancesReachEarlierUpdates` | `RequestsAccounted`, `TypeOK`, `FailuresAreReal`, `AcknowledgedAdvanceReachedAll` | |
| `AcknowledgedStaysApplied`, `QueriesAreCurrent` | `AcknowledgedIsApplied`, `QueriesSeeEarlierSends` | `IdsNotShared` |
| `UsageAlwaysMatches` | `UsageMatchesMaps` | no `AheadSnapshots` |
| `LoopsAlwaysAgree` | `LoopsAgree` | |
| `BudgetStaysAccounted`, `NothingIsLost`, `OvershootStaysBounded` | `BudgetAccounted`, `NothingLost`, `OvershootBounded` | |
| `ContentsStayAccounted` | `ContentsAccounted` | |
| `ContimeIsStore` | `ImplementsStore` | `IdsNotShared` |
| `RepliesStayAccounted`, `HandlesTypeCorrect`, `OutcomesAreTrue`, `PollsSeeEveryReply` | `Accounted`, `TypeOK`, `OutcomeIsTrue`, `PollSeesEveryReply` | |

`WordSuffices` is among the assumptions of `MemoryBudget`, and so is that the
sizes, targets, workers and clients are finite in number. The other hypotheses
are those of the runs, and the code needs them: late events and
snapshots newer than every event are mishandled (see above), a channel of
capacity 0 would drop every notification (the code has 1000), and histories are
keyed by id alone (`src/worker.rs:99`), so that where two types share an id
their updates meet in one history (`IdsNotShared` holds in the runs).
`HistoryIsTimeline` and its companions speak of a history that is never
advanced, because `Timeline` has no pruning; `PruningStaysInvisible` says when
an advance makes no difference.

### The arguments

*Soundness.* None of the three soundness properties is inductive. A checkpoint
is built from an older checkpoint or from the base snapshot, so their contents
must be known as well, and the fast path is right only while no checkpoint lies
after the latest event. `Consistent` adds what is missing: retained events are
not older than the horizon, everything in the base snapshot is older, an event
follows every checkpoint, and every checkpoint is replayed in order.
`HistoryProofs` first shows what each operator of `Apply` preserves, independently
of the history: `ReplaySound` (replaying a scope yields the state that reflects
it), `ExtendSound` (an event after a checkpoint leaves it alone),
`FastPathSound`, `SlowPathSound`, `ApplyEventSound`, `CorrectSound`.
Its last part lifts these to one step per action of `Next`.
`AnswersSound` says what an answer contains relative to the retained events and
the horizon, except for events at exactly the query time. The lemma it rests on,
`ConsistentAnswers`, has those too, as the code's bound decides them.

*Announcements and pruning.* Both compare the answer before a step with the one
after it and need no invariant but the types. `FoundLocal`, `ApplyEventLocal` and
`CorrectLocal` say that an input leaves every answer before it alone, so that an
answer which changes lies at or after the input, inside the interval announced.
For an advance, `ReplayCompose` (replaying in two stages is replaying once) shows
that starting from the promoted checkpoint gives what the dropped ones gave,
when no event was dropped in between.

*The timeline.* `Timeline` keeps the events and the authoritative states and
has no checkpoints. For the refinement a checkpoint must be known exactly, not
only soundly: `Unpruned` says that each holds its newest authoritative state and
every event since, once and in order (`Grown`). Then each action maps to the
action of `Timeline` of the same name or to a stutter, and every answer is the
one `Timeline` gives with the events of the query time that the code replays. `OrderIndependent` adds where the checkpoints stand, and is inductive with
`Unpruned`: `RankSplit` and `SumOfMultiples` show that counting events from any
regular checkpoint, instead of from the authoritative one before it, marks the
same ones, since the difference is a multiple of the interval.

*Subscribers.* An answer is settled when an event after its time is known.
`AnswersAccounted` keeps that event in sight, so that every change of a settled
answer falls under the lemmas of *Announcements*: it appends a notification or
finds the channel full, and either way somebody can take one. Checkpoints at the
time of a query, where `AnswerAt` says nothing (the code panics), come and go
with inputs at that time only, which ring as well.

*Requests.* `RequestsAccounted` (`ContimeInvariant`) places each part of each
request: pending, and then once in the inbound channel of its worker; done, and
then in effect there as long as the thread runs; or lost, and then the thread
has ended. Parts of requests whose sends ended before this one began are ahead
of it in every channel they share, which is what makes queries current and
advances complete. Each action of `Contime` has a lemma for what it does to the
requests (`...Effect`) and one for why the invariant holds after it
(`...Accounted`). `IdsNotShared` is a hypothesis of those conjuncts alone that
say that a history shows an update.

*The store.* `ContimeIsStore` shows for each action of `Contime` that it is an
action of `Store` or leaves what clients can tell unchanged. Sending, checking
the flag and the steps of the drop up to the join are invisible. `Receive` with
its reply is the instant at which a part takes effect, and the answer of a query
is the content at that instant. A send that fails abandons the call; a wait
reports success when every part is done, and a loss when one is lost. The end of
a worker, by its flag, by the shutdown message, by a panic or at the join, loses
its contents and the open parts that were queued there. Two facts come from
outside the step: by `RequestsAccounted` a part that is answered was open, and a
part that is lost was at that worker; by `ContentsAccounted` a history that
exists shows an update, so that a query which finds no history answers from
empty content, and a thread that has ended has no contents left for the join to
take. That is also where `IdsNotShared` is needed.

*Handles.* `Accounted` says that the receivers a handle has removed are read and
the ones it holds are not, unless a wait has passed them; that those have
replied; that a poll begun after the last reply passes none; and that a handle
which reports a drop has a channel that closed without a reply. `SwapRemove` is the lemma about removing a receiver
by moving the last one into its place.

*Sums and loops.* A sum over a finite set, and a loop over a range of keys, are
recursive functions on the subsets of that set (`MapThenFoldSet`). What they
compute is induction over data, and the library's induction theorems take an
operator as a parameter, which the provers cannot instantiate. The proofs take
the smallest counterexample instead: the strict subset order on a finite set is
well founded, so that among the subsets for which a claim fails one is minimal
(`SmallestSet`), and removing one element from it gives a smaller one.
`SumProofs` derives in this way that a sum does not depend on the order of its
terms (`SumStep`), and from that how sums split, grow, compare and change at one
index. `InKeyOrderUnique` is the same argument for loops: a loop computes `g`
when `g` takes each step that the loop takes.

*Memory of a history.* `UsageMatchesMaps` is inductive with the types and the
fact that an event follows every checkpoint (`NoCheckpointAhead`). Without the
latter the fast path may overwrite a checkpoint and charge it a second time,
which is why `AheadSnapshots` is excluded; late events are not. `ReplayCharged`
says that a replay reports what the map gains, because every checkpoint it takes
lies after the ones that are kept, and `SizeOfRest` that what is removed is what
is given back.

*The loops.* `ReplayGrows` and `TakenGrows` say what one more event at the end of
a range adds to the snapshot, the count, the checkpoints and the bytes; each loop
(`FastLoop`, `CheckpointLoop`, `StaleLoop`, `QueryLoop`) then computes what
`Replay`, `replay_and_checkpoint`, `ReplayDelta` and `DropFrom` state for the
whole range. This holds for every input, late and ahead ones included.

*The budget.* Neither `NothingLost` nor `OvershootBounded` is inductive alone: the
saturation loses nothing only because the counter is bounded on both sides, and
the bound holds only because nothing is lost. `BudgetAccounted` adds up
everything that may still be added to the counter: deltas at the workers,
inputs in the channels, and inputs of senders past the check (`Committed`). Only
a sender that reads the counter adds to it, and the check it passes says that
the counter was short of the budget at that time; what the others hold is at most
what fits in the channels, at the workers and in the other calls, which is
`Overshoot`. From below, a worker never has more to give back than it reported
(`WorkersWithinBounds`). `WordSuffices` is used where the sum in the check must
not wrap and the addition must not saturate.

### Only model-checked

- `CatchesUp`, `EveryRequestResolves`, `DropTerminates`, `HandleResolves`:
  liveness under fairness is beyond TLAPS. Every other property of a passing run
  has a theorem.

## Not modelled

- The shorthand form of `contime!` on its own: it generates the case of one type
  and one kind of event. The conversions between a lane and the type inside it.
- Ids shared between types, except that `Contime` records the sharing: nothing
  says what should happen then.
- `src/flume_ext.rs`: not compiled into the crate.
- Integer overflow of times, negative advances, and a `Contime` of 0 workers,
  where every call that hashes an id panics.
- An `apply_to` that reads the time of the snapshot: it would see another time in
  `snapshot_at` than in `replay_and_checkpoint` (`src/history.rs:225`).
- Which inputs from before the horizon do what (`LateEvents`).
- The test fixtures, benchmarks and examples.

## Plan

1. Done: the history with its memory and loops, its clients, the lanes, the
   router with its workers and what they promise, the budget, the handles, and
   the first proofs.
2. Done: the theorems above.
3. Done: the sums and the loops, proved without the induction theorems.
4. Open: compose `Store` with `Timeline`, so that a client's view of one id is that of
   one timeline that its requests change one after the other.
