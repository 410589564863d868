------------------------------ MODULE Handles ------------------------------
(***************************************************************************)
(* src/handle.rs: an ApplyHandle (an AdvanceHandle is the same code) and a *)
(* QueryHandle, polled and waited for while the workers reply or go away.  *)
(* Every reply channel is bounded(1) with one sender, which the worker     *)
(* drops after its reply or, when it stops, without one.                   *)
(***************************************************************************)
EXTENDS Integers, Sequences, Functions

CONSTANT Parts  \* number of messages the request of the ApplyHandle was cut into

ASSUME HandlesAssumption == Parts \in Nat \ {0}

Query == 0                 \* the reply channel of the QueryHandle
Channels == 0..Parts

VARIABLES
  replied,   \* has the worker sent its reply?
  value,     \* is the reply still in the channel?
  alive,     \* does the sender still exist?
  rxs,       \* receivers the ApplyHandle still holds
  i,         \* index of the try_recv and wait loops
  step,      \* what the owner of the ApplyHandle does: idle, polling, waiting or over
  outcome,   \* what try_recv or wait returned last: none, empty, done or dropped
  ready,     \* had every worker replied when the last poll began?
  answer     \* what the QueryHandle returned last: none, empty, done or dropped

channels == <<replied, value, alive>>
handle == <<rxs, i, step, outcome, ready>>
vars == <<channels, handle, answer>>

Init ==
    /\ replied = [c \in Channels |-> FALSE]
    /\ value = [c \in Channels |-> FALSE]
    /\ alive = [c \in Channels |-> TRUE]
    /\ rxs = [p \in 1..Parts |-> p]
    /\ i = 1 /\ step = "idle" /\ outcome = "none" /\ ready = FALSE
    /\ answer = "none"

(***************************************************************************)
(* The workers, as src/worker.rs uses the reply channels.                  *)
(***************************************************************************)
Reply(c) ==
    /\ alive[c] /\ ~replied[c]
    /\ replied' = [replied EXCEPT ![c] = TRUE]
    /\ value' = [value EXCEPT ![c] = TRUE]
    /\ UNCHANGED <<alive, handle, answer>>

DropSender(c) ==
    /\ alive[c]
    /\ alive' = [alive EXCEPT ![c] = FALSE]
    /\ UNCHANGED <<replied, value, handle, answer>>

Take(c) == value' = [value EXCEPT ![c] = FALSE] /\ UNCHANGED <<replied, alive>>
Disconnected(c) == ~value[c] /\ ~alive[c]

AllReplied == \A p \in 1..Parts : replied[p]
-----------------------------------------------------------------------------
(***************************************************************************)
(* ApplyHandle::try_recv, one channel at a time; it can be called again    *)
(* after any outcome.                                                      *)
(***************************************************************************)
Begin(next) ==
    /\ step = "idle"
    /\ i' = 1 /\ step' = next /\ ready' = AllReplied
    /\ UNCHANGED <<channels, rxs, outcome, answer>>

\* Mutant: the last receiver is copied but not removed from its own place.
CopyLast(s, k) == [s EXCEPT ![k] = s[Len(s)]]

\* Vec::swap_remove: the last receiver takes the place of the removed one.
swap_remove(s, k) ==
    [j \in 1..(Len(s) - 1) |-> IF j = k THEN s[Len(s)] ELSE s[j]]

\* Mutant: the receiver that took the place of the removed one is skipped.
TakeAndSkip ==
    /\ step = "polling" /\ i <= Len(rxs) /\ value[rxs[i]]
    /\ Take(rxs[i])
    /\ rxs' = swap_remove(rxs, i) /\ i' = i + 1
    /\ UNCHANGED <<step, outcome, ready, answer>>

\* Mutant: the receiver is kept after its reply has been taken.
TakeAndKeep ==
    /\ step = "polling" /\ i <= Len(rxs) /\ value[rxs[i]]
    /\ Take(rxs[i])
    /\ i' = i + 1
    /\ UNCHANGED <<rxs, step, outcome, ready, answer>>

PollTakes ==
    /\ step = "polling" /\ i <= Len(rxs) /\ value[rxs[i]]
    /\ Take(rxs[i])
    /\ rxs' = swap_remove(rxs, i)
    /\ UNCHANGED <<i, step, outcome, ready, answer>>

\* Mutant: a channel nobody can reply on any more is passed over as well.
PassAnyEmpty ==
    /\ step = "polling" /\ i <= Len(rxs) /\ ~value[rxs[i]]
    /\ i' = i + 1
    /\ UNCHANGED <<channels, rxs, step, outcome, ready, answer>>

PollPasses ==
    /\ step = "polling" /\ i <= Len(rxs) /\ ~value[rxs[i]] /\ alive[rxs[i]]
    /\ i' = i + 1
    /\ UNCHANGED <<channels, rxs, step, outcome, ready, answer>>

PollFails ==
    /\ step = "polling" /\ i <= Len(rxs) /\ Disconnected(rxs[i])
    /\ step' = "idle" /\ outcome' = "dropped"
    /\ UNCHANGED <<channels, rxs, i, ready, answer>>

PollEnds ==
    /\ step = "polling" /\ i > Len(rxs)
    /\ step' = "idle" /\ outcome' = IF rxs = <<>> THEN "done" ELSE "empty"
    /\ UNCHANGED <<channels, rxs, i, ready, answer>>

(***************************************************************************)
(* ApplyHandle::wait and recv_async, which consume the handle.             *)
(***************************************************************************)
WaitTakes ==
    /\ step = "waiting" /\ i <= Len(rxs) /\ value[rxs[i]]
    /\ Take(rxs[i])
    /\ i' = i + 1
    /\ UNCHANGED <<rxs, step, outcome, ready, answer>>

WaitFails ==
    /\ step = "waiting" /\ i <= Len(rxs) /\ Disconnected(rxs[i])
    /\ step' = "over" /\ outcome' = "dropped"
    /\ UNCHANGED <<channels, rxs, i, ready, answer>>

WaitEnds ==
    /\ step = "waiting" /\ i > Len(rxs)
    /\ step' = "over" /\ outcome' = "done"
    /\ UNCHANGED <<channels, rxs, i, ready, answer>>
-----------------------------------------------------------------------------
(***************************************************************************)
(* QueryHandle::try_recv, which can be called again after it has returned  *)
(* the result.  wait and recv_async are its steps that do not find the     *)
(* channel empty, once.                                                    *)
(***************************************************************************)
PollQuery ==
    /\ IF value[Query] THEN Take(Query) ELSE UNCHANGED channels
    /\ answer' = IF value[Query] THEN "done"
                 ELSE IF alive[Query] THEN "empty" ELSE "dropped"
    /\ UNCHANGED handle
-----------------------------------------------------------------------------
Poll == Begin("polling") \/ PollTakes \/ PollPasses \/ PollFails \/ PollEnds
Wait == Begin("waiting") \/ WaitTakes \/ WaitFails \/ WaitEnds
Worker(c) == Reply(c) \/ DropSender(c)

Next == Poll \/ Wait \/ (\E c \in Channels : Worker(c)) \/ PollQuery

\* A worker replies or goes away; the owner goes on polling.
Spec ==
    /\ Init /\ [][Next]_vars
    /\ \A c \in Channels : WF_vars(Worker(c))
    /\ WF_vars(Poll) /\ WF_vars(WaitTakes \/ WaitFails \/ WaitEnds)
-----------------------------------------------------------------------------
(***************************************************************************)
(* Type invariant.                                                         *)
(***************************************************************************)
TypeOK ==
    /\ replied \in [Channels -> BOOLEAN]
    /\ value \in [Channels -> BOOLEAN]
    /\ alive \in [Channels -> BOOLEAN]
    /\ rxs \in Seq(1..Parts)
    /\ IsInjective(rxs)
    /\ i \in 1..(Parts + 1)
    /\ step \in {"idle", "polling", "waiting", "over"}
    /\ outcome \in {"none", "empty", "done", "dropped"}
    /\ ready \in BOOLEAN
    /\ answer \in {"none", "empty", "done", "dropped"}

\* Neither polling nor waiting, in any mixture, reports completion before
\* every worker has replied, or a dropped worker when all of them have.
OutcomeIsTrue ==
    /\ outcome = "done" => AllReplied
    /\ outcome = "dropped" => ~AllReplied

\* A poll that begins after the last reply sees them all, whatever earlier
\* polls have already taken and in whatever order.
PollSeesEveryReply == [][PollEnds /\ ready => outcome' = "done"]_vars

(***************************************************************************)
(* Why this holds whatever the mixture of polls: the inductive invariant.  *)
(* A receiver that is gone has been read, one that is held has not, unless *)
(* a wait has passed it; a poll that began complete has passed none; and a *)
(* dropped worker stays silent.                                            *)
(***************************************************************************)
GoneAreRead ==
    \A p \in (1..Parts) \ Range(rxs) : replied[p] /\ ~value[p]

HeldAreUnread ==
    \A j \in DOMAIN rxs :
        replied[rxs[j]] => value[rxs[j]] \/ (step \in {"waiting", "over"} /\ j < i)

PassedHaveReplied ==
    step \in {"waiting", "over"}
      => \A j \in DOMAIN rxs : j < i => replied[rxs[j]]

CompletePollPassesNone == ready => AllReplied /\ (step = "polling" => i = 1)

DroppedStaysSilent ==
    outcome = "dropped" => \E p \in 1..Parts : ~replied[p] /\ ~alive[p]

Accounted ==
    /\ TypeOK
    /\ Len(rxs) <= Parts
    /\ \A c \in Channels : value[c] => replied[c]
    /\ GoneAreRead /\ HeldAreUnread /\ PassedHaveReplied
    /\ CompletePollPassesNone /\ DroppedStaysSilent
    /\ outcome = "done" => AllReplied

\* An owner that goes on polling, or waits, gets an outcome.
HandleResolves == <>(outcome \in {"done", "dropped"})
=============================================================================
