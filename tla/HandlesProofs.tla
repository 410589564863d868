--------------------------- MODULE HandlesProofs ---------------------------
(***************************************************************************)
(* Theorems about the handles, for every number of parts and every mixture *)
(* of polling and waiting.                                                 *)
(***************************************************************************)
EXTENDS Handles, SequenceTheorems, TLAPS

\* swap_remove removes one receiver and no other, and doubles none.
LEMMA SwapRemove ==
    ASSUME NEW S, NEW s \in Seq(S), IsInjective(s), NEW k \in 1..Len(s)
    PROVE  /\ swap_remove(s, k) \in Seq(S)
           /\ Len(swap_remove(s, k)) = Len(s) - 1
           /\ IsInjective(swap_remove(s, k))
           /\ Range(swap_remove(s, k)) = Range(s) \ {s[k]}
<1> DEFINE n == Len(s)
           t == swap_remove(s, k)
<1>1. n \in Nat /\ n >= 1 /\ DOMAIN s = 1..n /\ s[n] \in S
      /\ k \in 1..n /\ \A j \in 1..n : s[j] \in S
    OBVIOUS
<1>2. \A a, b \in 1..n : s[a] = s[b] => a = b
    BY <1>1 DEF IsInjective
<1>3. t = [j \in 1..(n - 1) |-> IF j = k THEN s[n] ELSE s[j]]
    BY DEF swap_remove
<1>4. t \in [1..(n - 1) -> S] /\ n - 1 \in Nat
    BY <1>1, <1>3
<1> HIDE DEF n, t
<1>5. t \in Seq(S) /\ Len(t) = n - 1 /\ DOMAIN t = 1..(n - 1)
    BY <1>4, IsASeq
<1>6. \A j \in 1..(n - 1) : t[j] = IF j = k THEN s[n] ELSE s[j]
    BY <1>3
<1>7. IsInjective(t)
    BY <1>1, <1>2, <1>5, <1>6 DEF IsInjective
<1>8. Range(t) = Range(s) \ {s[k]}
    <2>1. ASSUME NEW x \in Range(t) PROVE x \in Range(s) \ {s[k]}
        <3>1. PICK j \in 1..(n - 1) : x = t[j]
            BY <1>5, <2>1 DEF Range
        <3>2. QED BY <1>1, <1>2, <1>6, <3>1 DEF Range, n
    <2>2. ASSUME NEW x \in Range(s) \ {s[k]} PROVE x \in Range(t)
        <3>1. PICK j \in 1..n : x = s[j] /\ j # k
            BY <1>1, <2>2 DEF Range
        <3>2. CASE j = n
            <4>1. k \in 1..(n - 1)
                BY <1>1, <3>1, <3>2
            <4>2. t[k] = x
                BY <1>6, <3>1, <3>2, <4>1
            <4>3. QED BY <1>5, <4>1, <4>2 DEF Range
        <3>3. CASE j # n
            <4>1. j \in 1..(n - 1) /\ t[j] = x
                BY <1>1, <1>6, <3>1, <3>3
            <4>2. QED BY <1>5, <4>1 DEF Range
        <3>4. QED BY <3>2, <3>3
    <2>3. QED BY <2>1, <2>2
<1>9. QED BY <1>5, <1>7, <1>8 DEF n, t

\* The receiver at the index of the loop belongs to one of the parts.
LEMMA ReceiverType ==
    ASSUME TypeOK, i <= Len(rxs)
    PROVE  /\ i \in DOMAIN rxs /\ i \in 1..Len(rxs) /\ i \in Nat
           /\ rxs[i] \in 1..Parts /\ rxs[i] \in Channels
           /\ rxs[i] \in Range(rxs)
<1>1. i \in Nat /\ i >= 1 /\ rxs \in Seq(1..Parts) /\ Parts \in Nat
    BY HandlesAssumption DEF TypeOK
<1>2. i \in 1..Len(rxs) /\ DOMAIN rxs = 1..Len(rxs)
    BY <1>1
<1>3. rxs[i] \in 1..Parts
    BY <1>1, <1>2
<1>4. QED BY <1>1, <1>2, <1>3 DEF Channels, Range

LEMMA InitAccounted == Init => Accounted
<1> SUFFICES ASSUME Init PROVE Accounted
    OBVIOUS
<1>1. Parts \in Nat /\ Parts >= 1
    BY HandlesAssumption
<1>2. rxs \in Seq(1..Parts) /\ Len(rxs) = Parts /\ DOMAIN rxs = 1..Parts
      /\ \A p \in 1..Parts : rxs[p] = p
    <2>1. rxs = [p \in 1..Parts |-> p]
        BY DEF Init
    <2>2. rxs \in [1..Parts -> 1..Parts]
        BY <2>1
    <2>3. QED BY <1>1, <2>1, <2>2, IsASeq
<1>3. IsInjective(rxs) /\ Range(rxs) = 1..Parts
    BY <1>2 DEF IsInjective, Range
<1>4. TypeOK
    <2>1. /\ replied \in [Channels -> BOOLEAN]
          /\ value \in [Channels -> BOOLEAN]
          /\ alive \in [Channels -> BOOLEAN]
        BY Zenon DEF Init
    <2>2. i \in 1..(Parts + 1)
        BY <1>1 DEF Init
    <2>3. QED BY <1>2, <1>3, <2>1, <2>2 DEF Init, TypeOK
<1>5. QED BY <1>1, <1>2, <1>3, <1>4
          DEF Init, Accounted, GoneAreRead, HeldAreUnread, PassedHaveReplied,
              CompletePollPassesNone, DroppedStaysSilent

\* A worker replies or goes away.
LEMMA WorkerAccounted ==
    ASSUME Accounted, NEW c \in Channels, Worker(c)
    PROVE  Accounted'
<1>1. TypeOK
    BY DEF Accounted
<1>2. UNCHANGED <<rxs, i, step, outcome, ready, answer>>
    BY DEF Worker, Reply, DropSender, handle
<1>3. \A p \in 1..Parts : p \in Channels
    BY HandlesAssumption DEF Channels
<1>4. \A j \in DOMAIN rxs : rxs[j] \in 1..Parts
    BY <1>1, ElementOfSeq, LenProperties DEF TypeOK
<1>5. CASE Reply(c)
    <2>1. /\ replied' = [replied EXCEPT ![c] = TRUE]
          /\ value' = [value EXCEPT ![c] = TRUE]
          /\ alive' = alive /\ alive[c] /\ ~replied[c]
        BY <1>5 DEF Reply
    <2>2. TypeOK'
        BY <1>1, <1>2, <2>1 DEF TypeOK
    <2>3. \A d \in Channels :
             /\ replied'[d] = (replied[d] \/ d = c)
             /\ value'[d] = (value[d] \/ d = c)
        BY <1>1, <2>1, Zenon DEF TypeOK
    <2>4. QED BY <1>1, <1>2, <1>3, <1>4, <2>1, <2>2, <2>3
              DEF Accounted, GoneAreRead, HeldAreUnread, PassedHaveReplied,
                  CompletePollPassesNone, DroppedStaysSilent, AllReplied
<1>6. CASE DropSender(c)
    <2>1. /\ alive' = [alive EXCEPT ![c] = FALSE]
          /\ replied' = replied /\ value' = value
        BY <1>6 DEF DropSender
    <2>2. TypeOK'
        BY <1>1, <1>2, <2>1 DEF TypeOK
    <2>3. \A d \in Channels : ~alive[d] => ~alive'[d]
        BY <1>1, <2>1 DEF TypeOK
    <2>4. QED BY <1>1, <1>2, <1>3, <2>1, <2>2, <2>3
              DEF Accounted, GoneAreRead, HeldAreUnread, PassedHaveReplied,
                  CompletePollPassesNone, DroppedStaysSilent, AllReplied
<1>7. QED BY <1>5, <1>6 DEF Worker

\* A call of try_recv or wait begins.
LEMMA BeginAccounted ==
    ASSUME Accounted, NEW next \in {"polling", "waiting"}, Begin(next)
    PROVE  Accounted'
<1>1. TypeOK /\ rxs \in Seq(1..Parts) /\ DOMAIN rxs = 1..Len(rxs)
    BY DEF Accounted, TypeOK
<1>2. /\ UNCHANGED <<replied, value, alive, rxs, outcome, answer>>
      /\ i' = 1 /\ step' = next /\ ready' = AllReplied
      /\ step = "idle"
    BY DEF Begin, channels
<1>3. TypeOK'
    <2>1. i' \in 1..(Parts + 1)
        BY <1>2, HandlesAssumption
    <2>2. ready' \in BOOLEAN
        BY <1>2 DEF AllReplied
    <2>3. QED BY <1>1, <1>2, <2>1, <2>2 DEF TypeOK
<1>4. HeldAreUnread' /\ PassedHaveReplied'
    BY <1>1, <1>2 DEF Accounted, HeldAreUnread, PassedHaveReplied
<1>5. CompletePollPassesNone'
    BY <1>2 DEF CompletePollPassesNone, AllReplied
<1>6. QED BY <1>2, <1>3, <1>4, <1>5
          DEF Accounted, GoneAreRead, DroppedStaysSilent, AllReplied

\* The steps of a poll.
LEMMA PollTakesAccounted ==
    ASSUME Accounted, PollTakes
    PROVE  Accounted'
<1> DEFINE c == rxs[i]
<1>1. /\ value' = [value EXCEPT ![c] = FALSE] /\ value[c]
      /\ rxs' = swap_remove(rxs, i)
      /\ UNCHANGED <<replied, alive, i, step, outcome, ready, answer>>
      /\ step = "polling" /\ i <= Len(rxs)
    BY DEF PollTakes, Take
<1>2. TypeOK /\ IsInjective(rxs) /\ rxs \in Seq(1..Parts) /\ DOMAIN rxs = 1..Len(rxs)
    BY DEF Accounted, TypeOK
<1>3. i \in 1..Len(rxs) /\ c \in 1..Parts /\ c \in Channels /\ c \in Range(rxs)
    BY <1>1, <1>2, ReceiverType
<1>4. /\ rxs' \in Seq(1..Parts) /\ Len(rxs') = Len(rxs) - 1
      /\ IsInjective(rxs') /\ Range(rxs') = Range(rxs) \ {c}
    BY <1>1, <1>2, <1>3, SwapRemove
<1>5. \A d \in Channels : value'[d] = (value[d] /\ d # c)
    BY <1>1, <1>2, <1>3, Zenon DEF TypeOK
<1>6. \A p \in 1..Parts : p \in Channels
    BY HandlesAssumption DEF Channels
<1>7. TypeOK'
    BY <1>1, <1>2, <1>3, <1>4 DEF TypeOK
<1>8. \A j \in DOMAIN rxs' : rxs'[j] \in Range(rxs) /\ rxs'[j] # c
    BY <1>4 DEF Range
<1> HIDE DEF c
<1>9. GoneAreRead'
    BY <1>1, <1>3, <1>4, <1>5, <1>6 DEF Accounted, GoneAreRead
<1>10. HeldAreUnread'
    <2> SUFFICES ASSUME NEW j \in DOMAIN rxs', replied[rxs'[j]]
                 PROVE  value'[rxs'[j]]
        BY <1>1 DEF HeldAreUnread
    <2>1. PICK h \in DOMAIN rxs : rxs'[j] = rxs[h]
        BY <1>8 DEF Range
    <2>2. value[rxs[h]] /\ rxs[h] \in Channels
        BY <1>1, <1>2, <1>6, <2>1, ElementOfSeq DEF Accounted, HeldAreUnread
    <2>3. QED BY <1>5, <1>8, <2>1, <2>2
<1>11. Len(rxs') <= Parts
    BY <1>2, <1>4, HandlesAssumption, LenProperties DEF Accounted
<1>12. QED BY <1>1, <1>5, <1>7, <1>9, <1>10, <1>11
           DEF Accounted, PassedHaveReplied, CompletePollPassesNone,
               DroppedStaysSilent, AllReplied

LEMMA PollOtherwiseAccounted ==
    ASSUME Accounted, PollPasses \/ PollFails \/ PollEnds
    PROVE  Accounted'
<1>1. /\ UNCHANGED <<replied, value, alive, rxs, ready, answer>>
      /\ step = "polling"
    BY DEF PollPasses, PollFails, PollEnds, channels
<1>2. /\ TypeOK /\ rxs \in Seq(1..Parts) /\ DOMAIN rxs = 1..Len(rxs)
      /\ Len(rxs) \in Nat /\ Len(rxs) <= Parts /\ i \in 1..(Parts + 1)
      /\ Parts \in Nat
    BY HandlesAssumption DEF Accounted, TypeOK
<1>3. \A j \in DOMAIN rxs : replied[rxs[j]] => value[rxs[j]]
    BY <1>1 DEF Accounted, HeldAreUnread
<1>4. CASE PollPasses
    <2>1. /\ i' = i + 1 /\ step' = step /\ outcome' = outcome
          /\ i <= Len(rxs) /\ ~value[rxs[i]]
        BY <1>4 DEF PollPasses
    <2>2. i \in DOMAIN rxs /\ rxs[i] \in 1..Parts
        BY <1>2, <2>1, ReceiverType
    <2>3. ~ready
        BY <1>3, <2>1, <2>2 DEF Accounted, CompletePollPassesNone, AllReplied
    <2>4. TypeOK'
        <3>1. i' \in 1..(Parts + 1)
            BY <1>2, <2>1
        <3>2. QED BY <1>1, <1>2, <2>1, <3>1 DEF TypeOK
    <2>5. QED BY <1>1, <1>2, <1>3, <2>1, <2>3, <2>4
              DEF Accounted, GoneAreRead, HeldAreUnread, PassedHaveReplied,
                  CompletePollPassesNone, DroppedStaysSilent, AllReplied
<1>5. CASE PollFails
    <2>1. /\ i' = i /\ step' = "idle" /\ outcome' = "dropped"
          /\ i <= Len(rxs) /\ ~value[rxs[i]] /\ ~alive[rxs[i]]
        BY <1>5 DEF PollFails, Disconnected
    <2>2. i \in DOMAIN rxs /\ rxs[i] \in 1..Parts
        BY <1>2, <2>1, ReceiverType
    <2>3. DroppedStaysSilent'
        BY <1>1, <1>3, <2>1, <2>2 DEF DroppedStaysSilent
    <2>4. TypeOK'
        BY <1>1, <1>2, <2>1 DEF TypeOK
    <2>5. QED BY <1>1, <1>2, <1>3, <2>1, <2>3, <2>4
              DEF Accounted, GoneAreRead, HeldAreUnread, PassedHaveReplied,
                  CompletePollPassesNone, AllReplied
<1>6. CASE PollEnds
    <2>1. /\ i' = i /\ step' = "idle"
          /\ outcome' = IF rxs = <<>> THEN "done" ELSE "empty"
        BY <1>6 DEF PollEnds
    <2>2. outcome' = "done" => AllReplied
        <3>1. rxs = <<>> => Range(rxs) = {}
            BY DEF Range
        <3>2. QED BY <2>1, <3>1 DEF Accounted, GoneAreRead, AllReplied
    <2>3. TypeOK'
        BY <1>1, <1>2, <2>1 DEF TypeOK
    <2>4. QED BY <1>1, <1>2, <1>3, <2>1, <2>2, <2>3
              DEF Accounted, GoneAreRead, HeldAreUnread, PassedHaveReplied,
                  CompletePollPassesNone, DroppedStaysSilent, AllReplied
<1>7. QED BY <1>4, <1>5, <1>6

\* The steps of a wait.
LEMMA WaitAccounted ==
    ASSUME Accounted, WaitTakes \/ WaitFails \/ WaitEnds
    PROVE  Accounted'
<1>1. /\ UNCHANGED <<replied, alive, rxs, ready, answer>>
      /\ step = "waiting"
    BY DEF WaitTakes, WaitFails, WaitEnds, Take, channels
<1>2. /\ TypeOK /\ rxs \in Seq(1..Parts) /\ DOMAIN rxs = 1..Len(rxs)
      /\ Len(rxs) \in Nat /\ Len(rxs) <= Parts /\ i \in 1..(Parts + 1)
      /\ Parts \in Nat
    BY HandlesAssumption DEF Accounted, TypeOK
<1>3. \A p \in 1..Parts : p \in Channels
    BY HandlesAssumption DEF Channels
<1>4. \A j \in DOMAIN rxs : rxs[j] \in 1..Parts
    BY <1>2, ElementOfSeq
<1>5. CASE WaitTakes
    <2>1. /\ value' = [value EXCEPT ![rxs[i]] = FALSE] /\ value[rxs[i]]
          /\ i' = i + 1 /\ i <= Len(rxs)
          /\ step' = step /\ outcome' = outcome
        BY <1>5 DEF WaitTakes, Take
    <2>2. i \in DOMAIN rxs /\ rxs[i] \in Channels
        BY <1>2, <2>1, ReceiverType
    <2>3. TypeOK'
        <3>1. i' \in 1..(Parts + 1)
            BY <1>2, <2>1
        <3>2. value' \in [Channels -> BOOLEAN]
            BY <1>2, <2>1 DEF TypeOK
        <3>3. QED BY <1>1, <1>2, <2>1, <3>1, <3>2 DEF TypeOK
    <2>4. \A d \in Channels : value'[d] = (value[d] /\ d # rxs[i])
        BY <1>2, <2>1, <2>2, Zenon DEF TypeOK
    <2>5. replied[rxs[i]]
        BY <2>1, <2>2 DEF Accounted
    <2>6. HeldAreUnread'
        <3> SUFFICES ASSUME NEW j \in DOMAIN rxs, replied[rxs[j]]
                     PROVE  value'[rxs[j]] \/ j < i'
            BY <1>1, <2>1 DEF HeldAreUnread
        <3>1. value[rxs[j]] \/ j < i
            BY DEF Accounted, HeldAreUnread
        <3>2. CASE j = i
            BY <1>2, <2>1, <3>2
        <3>3. CASE j # i
            <4>1. rxs[j] # rxs[i]
                BY <1>2, <2>2, <3>3 DEF TypeOK, IsInjective
            <4>2. QED BY <1>2, <1>3, <1>4, <2>1, <2>4, <3>1, <4>1
        <3>4. QED BY <3>2, <3>3
    <2>7. PassedHaveReplied'
        BY <1>1, <1>2, <2>1, <2>5 DEF Accounted, PassedHaveReplied
    <2>8. QED BY <1>1, <1>3, <2>1, <2>3, <2>4, <2>6, <2>7
              DEF Accounted, GoneAreRead, CompletePollPassesNone,
                  DroppedStaysSilent, AllReplied
<1>6. CASE WaitFails
    <2>1. /\ i' = i /\ step' = "over" /\ outcome' = "dropped" /\ value' = value
          /\ i <= Len(rxs) /\ ~value[rxs[i]] /\ ~alive[rxs[i]]
        BY <1>6 DEF WaitFails, Disconnected, channels
    <2>2. i \in DOMAIN rxs /\ rxs[i] \in 1..Parts
        BY <1>2, <2>1, ReceiverType
    <2>3. DroppedStaysSilent'
        BY <1>1, <1>2, <2>1, <2>2 DEF Accounted, HeldAreUnread, DroppedStaysSilent
    <2>4. TypeOK'
        BY <1>1, <1>2, <2>1 DEF TypeOK
    <2>5. QED BY <1>1, <2>1, <2>3, <2>4
              DEF Accounted, GoneAreRead, HeldAreUnread, PassedHaveReplied,
                  CompletePollPassesNone, AllReplied
<1>7. CASE WaitEnds
    <2>1. /\ i' = i /\ step' = "over" /\ outcome' = "done" /\ value' = value
          /\ i > Len(rxs)
        BY <1>7 DEF WaitEnds, channels
    <2>2. AllReplied
        <3> SUFFICES ASSUME NEW p \in 1..Parts PROVE replied[p]
            BY DEF AllReplied
        <3>1. CASE p \in Range(rxs)
            BY <1>1, <1>2, <2>1, <3>1 DEF Accounted, PassedHaveReplied, Range
        <3>2. CASE p \notin Range(rxs)
            BY <3>2 DEF Accounted, GoneAreRead
        <3>3. QED BY <3>1, <3>2
    <2>3. TypeOK'
        BY <1>1, <1>2, <2>1 DEF TypeOK
    <2>4. QED BY <1>1, <2>1, <2>2, <2>3
              DEF Accounted, GoneAreRead, HeldAreUnread, PassedHaveReplied,
                  CompletePollPassesNone, DroppedStaysSilent, AllReplied
<1>8. QED BY <1>5, <1>6, <1>7

LEMMA PollQueryAccounted ==
    ASSUME Accounted, PollQuery
    PROVE  Accounted'
<1>1. UNCHANGED <<replied, alive, rxs, i, step, outcome, ready>>
    BY DEF PollQuery, Take, channels, handle
<1>2. TypeOK /\ Query \in Channels
    BY HandlesAssumption DEF Accounted, Query, Channels
<1>3. \/ value' = value
      \/ value' = [value EXCEPT ![Query] = FALSE]
    BY DEF PollQuery, Take, channels
<1>4. /\ value' \in [Channels -> BOOLEAN]
      /\ \A c \in Channels : value'[c] => value[c]
      /\ \A c \in Channels : c # Query => value'[c] = value[c]
    BY <1>2, <1>3 DEF TypeOK
<1>5. answer' \in {"none", "empty", "done", "dropped"}
    BY DEF PollQuery
<1>6. \A p \in 1..Parts : p \in Channels /\ p # Query
    BY HandlesAssumption DEF Channels, Query
<1>7. \A j \in DOMAIN rxs : rxs[j] \in 1..Parts
    BY <1>2, ElementOfSeq, LenProperties DEF TypeOK
<1>8. TypeOK'
    BY <1>1, <1>2, <1>4, <1>5 DEF TypeOK
<1>9. QED BY <1>1, <1>4, <1>6, <1>7, <1>8
          DEF Accounted, GoneAreRead, HeldAreUnread, PassedHaveReplied,
              CompletePollPassesNone, DroppedStaysSilent, AllReplied

LEMMA NextAccounted == Accounted /\ [Next]_vars => Accounted'
<1> SUFFICES ASSUME Accounted, [Next]_vars PROVE Accounted'
    OBVIOUS
<1>1. CASE Poll
    BY <1>1, BeginAccounted, PollTakesAccounted, PollOtherwiseAccounted DEF Poll
<1>2. CASE Wait
    BY <1>2, BeginAccounted, WaitAccounted DEF Wait
<1>3. ASSUME NEW c \in Channels, Worker(c) PROVE Accounted'
    BY <1>3, WorkerAccounted
<1>4. CASE PollQuery
    BY <1>4, PollQueryAccounted
<1>5. CASE UNCHANGED vars
    BY <1>5 DEF vars, channels, handle, Accounted, TypeOK, GoneAreRead,
                HeldAreUnread, PassedHaveReplied, CompletePollPassesNone,
                DroppedStaysSilent, AllReplied
<1>6. QED BY <1>1, <1>2, <1>3, <1>4, <1>5 DEF Next

(***************************************************************************)
(* The receivers a handle holds are at any moment those whose reply it has *)
(* not taken, whatever polls and waits came before.                        *)
(***************************************************************************)
THEOREM RepliesStayAccounted == Spec => []Accounted
BY InitAccounted, NextAccounted, PTL DEF Spec

(***************************************************************************)
(* Handles never hold a receiver twice, and their loops stay in bounds.    *)
(***************************************************************************)
THEOREM HandlesTypeCorrect == Spec => []TypeOK
<1>1. Accounted => TypeOK
    BY DEF Accounted
<1>2. QED BY <1>1, RepliesStayAccounted, PTL

(***************************************************************************)
(* Completion is reported only after every worker has replied, a dropped   *)
(* worker only when one of them never will.                                *)
(***************************************************************************)
THEOREM OutcomesAreTrue == Spec => []OutcomeIsTrue
<1>1. Accounted => OutcomeIsTrue
    BY DEF Accounted, OutcomeIsTrue, DroppedStaysSilent, AllReplied
<1>2. QED BY <1>1, RepliesStayAccounted, PTL

(***************************************************************************)
(* A poll that begins after the last reply completes, however the replies  *)
(* came in and whatever earlier polls have taken.                          *)
(***************************************************************************)
THEOREM PollsSeeEveryReply == Spec => PollSeesEveryReply
<1>1. Accounted => (PollEnds /\ ready => outcome' = "done")
    <2> SUFFICES ASSUME Accounted, PollEnds, ready PROVE outcome' = "done"
        OBVIOUS
    <2>1. rxs \in Seq(1..Parts) /\ i = 1 /\ i > Len(rxs)
        BY DEF Accounted, TypeOK, CompletePollPassesNone, PollEnds
    <2>2. rxs = <<>>
        BY <2>1, EmptySeq, LenProperties
    <2>3. QED BY <2>2 DEF PollEnds
<1>2. QED BY <1>1, RepliesStayAccounted, PTL DEF PollSeesEveryReply
=============================================================================
