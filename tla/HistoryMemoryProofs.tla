------------------------ MODULE HistoryMemoryProofs ------------------------
(***************************************************************************)
(* What a history reports to the counter is what its two maps hold, for    *)
(* any sizes, any interval and any sequence of operations in which no      *)
(* authoritative snapshot is newer than every stored event; and the loops  *)
(* of the code, one event at a time, do what Apply, HistoryMemory and      *)
(* AnswerAt state for a whole range, for any inputs.                       *)
(***************************************************************************)
EXTENDS ReplayLoops, HistoryProofs, SumProofs
-----------------------------------------------------------------------------
(***************************************************************************)
(* Sizes of sets of snapshots.                                             *)
(***************************************************************************)
LEMMA SizeType ==
    ASSUME NEW s \in Snapshots
    PROVE  Size(s) \in Int
<1>1. s.items \in Nat
    BY DEF Snapshots
<1>2. \A a, b, c \in Nat : a + b * c \in Int
    OBVIOUS
<1>3. QED BY <1>1, <1>2, MemoryAssumption DEF Size

LEMMA SizeOfType ==
    ASSUME NEW snaps, NEW A, IsFiniteSet(A), \A k \in A : snaps[k] \in Snapshots
    PROVE  SizeOf(snaps, A) \in Int
<1> DEFINE f == [k \in A |-> Size(snaps[k])]
<1>1. \A k \in A : f[k] \in Int
    BY SizeType
<1> HIDE DEF f
<1>2. SumOver(f, A) \in Int
    BY <1>1, SumType
<1>3. QED BY <1>2 DEF SizeOf, f

LEMMA SizeOfSame ==
    ASSUME NEW snaps, NEW copies, NEW A, \A k \in A : copies[k] = snaps[k]
    PROVE  SizeOf(copies, A) = SizeOf(snaps, A)
<1>1. [k \in A |-> Size(copies[k])] = [k \in A |-> Size(snaps[k])]
    OBVIOUS
<1>2. QED BY <1>1 DEF SizeOf

LEMMA SizeOfDisjoint ==
    ASSUME NEW snaps, NEW A, NEW B, IsFiniteSet(A), IsFiniteSet(B), A \cap B = {},
           \A k \in A \cup B : snaps[k] \in Snapshots
    PROVE  SizeOf(snaps, A \cup B) = SizeOf(snaps, A) + SizeOf(snaps, B)
<1> DEFINE f == [k \in A |-> Size(snaps[k])]
           g == [k \in B |-> Size(snaps[k])]
           h == [k \in A \cup B |-> Size(snaps[k])]
<1>1. /\ \A k \in A : f[k] = h[k] /\ h[k] \in Int
      /\ \A k \in B : g[k] = h[k] /\ h[k] \in Int
    BY SizeType
<1> HIDE DEF f, g, h
<1>2. SumOver(h, A \cup B) = SumOver(h, A) + SumOver(h, B)
    BY <1>1, SumDisjoint
<1>3. SumOver(f, A) = SumOver(h, A)
    BY <1>1, SumSame
<1>4. SumOver(g, B) = SumOver(h, B)
    BY <1>1, SumSame
<1>5. QED BY <1>2, <1>3, <1>4 DEF SizeOf, f, g, h

LEMMA SizeOfOne ==
    ASSUME NEW snaps, NEW k, snaps[k] \in Snapshots
    PROVE  SizeOf(snaps, {k}) = Size(snaps[k])
<1> DEFINE f == [c \in {k} |-> Size(snaps[c])]
<1>1. f[k] \in Int /\ f[k] = Size(snaps[k])
    BY SizeType
<1> HIDE DEF f
<1>2. IsFiniteSet({k}) /\ {k} \ {k} = {} /\ \A c \in {k} : f[c] \in Int
    BY <1>1, FS_Singleton
<1>3. SumOver(f, {k}) = f[k] + SumOver(f, {k} \ {k})
    BY <1>2, SumStep
<1>4. SumOver(f, {k}) = f[k]
    BY <1>1, <1>2, <1>3, SumEmpty
<1>5. QED BY <1>1, <1>4 DEF SizeOf, f

\* A map that extends another one, and what it adds.
LEMMA SizeOfExtension ==
    ASSUME NEW cps, CheckpointMap(cps), NEW result, CheckpointMap(result),
           NEW added, IsFiniteSet(added), added \cap DOMAIN cps = {},
           DOMAIN result = DOMAIN cps \cup added,
           \A k \in DOMAIN cps : result[k] = cps[k]
    PROVE  SizeOf(result, DOMAIN result) = SizeOf(cps, DOMAIN cps) + SizeOf(result, added)
<1>1. PICK D : D = DOMAIN cps
    OBVIOUS
<1>2. IsFiniteSet(D) /\ D \cap added = {} /\ \A k \in D \cup added : result[k] \in Snapshots
    BY <1>1 DEF CheckpointMap
<1>3. SizeOf(result, D \cup added) = SizeOf(result, D) + SizeOf(result, added)
    BY <1>2, SizeOfDisjoint
<1>4. SizeOf(result, D) = SizeOf(cps, D)
    BY <1>1, SizeOfSame
<1>5. QED BY <1>1, <1>3, <1>4

\* A map that loses some of its entries, and what it gives back.
LEMMA SizeOfRest ==
    ASSUME NEW cps, CheckpointMap(cps), NEW gone \in SUBSET DOMAIN cps,
           NEW rest, DOMAIN rest = DOMAIN cps \ gone,
           \A k \in DOMAIN rest : rest[k] = cps[k]
    PROVE  /\ SizeOf(rest, DOMAIN rest) = SizeOf(cps, DOMAIN cps) - SizeOf(cps, gone)
           /\ SizeOf(rest, DOMAIN rest) \in Int /\ SizeOf(cps, DOMAIN cps) \in Int
           /\ SizeOf(cps, gone) \in Int
<1>1. PICK D : D = DOMAIN rest
    OBVIOUS
<1>2. /\ IsFiniteSet(D) /\ IsFiniteSet(gone) /\ D \cap gone = {}
      /\ D \cup gone = DOMAIN cps
      /\ \A k \in DOMAIN cps : cps[k] \in Snapshots
    BY <1>1, FS_Subset DEF CheckpointMap
<1>3. SizeOf(cps, D \cup gone) = SizeOf(cps, D) + SizeOf(cps, gone)
    BY <1>2, SizeOfDisjoint
<1>4. SizeOf(rest, D) = SizeOf(cps, D)
    BY <1>1, SizeOfSame
<1>5. SizeOf(cps, D) \in Int /\ SizeOf(cps, gone) \in Int
    BY <1>2, SizeOfType
<1>6. QED BY <1>1, <1>2, <1>3, <1>4, <1>5

(***************************************************************************)
(* The checkpoints a replay takes lie after everything that is kept, so    *)
(* that replay_and_checkpoint reports exactly what the map gains.          *)
(***************************************************************************)
LEMMA ReplayCharged ==
    ASSUME NEW s \in Snapshots, NEW bound \in SUBSET ContimeKeys,
           NEW cps, CheckpointMap(cps), NEW es, EventSet(es), Bounded(cps, bound)
    PROVE  LET result == replay_and_checkpoint(s, bound, cps, es)
           IN  /\ SizeOf(result, DOMAIN result)
                      = SizeOf(cps, DOMAIN cps) + ReplayDelta(s, bound, es)
               /\ ReplayDelta(s, bound, es) \in Int
<1> DEFINE range  == AfterBound(bound, es)
           closed == Closed(range)
           taken  == [k \in closed |-> Replay(s, {j \in range : KeyLeq(j, k)})]
           result == replay_and_checkpoint(s, bound, cps, es)
<1>1. EventSet(range) /\ EventSet(closed)
    <2>1. EventSet(range)
        BY AfterBoundType
    <2>2. closed \in SUBSET range
        BY DEF Closed
    <2>3. QED BY <2>1, <2>2, EventSubset
<1>2. CheckpointMap(result)
    BY ReplayAndCheckpointType
<1>3. closed \cap DOMAIN cps = {}
    <2> SUFFICES ASSUME NEW c \in closed, c \in DOMAIN cps PROVE FALSE
        OBVIOUS
    <2>1. PICK b \in bound : KeyLeq(c, b)
        BY DEF Bounded
    <2>2. KeyLess(b, c) /\ c \in ContimeKeys /\ b \in ContimeKeys
        BY <1>1 DEF Closed, AfterBound, EventSet
    <2>3. QED BY <2>1, <2>2, KeyLessAntisymmetric
<1>4. /\ DOMAIN result = DOMAIN cps \cup closed
      /\ \A k \in closed : result[k] = taken[k]
      /\ \A k \in DOMAIN cps : result[k] = cps[k]
    BY <1>3 DEF replay_and_checkpoint
<1>5. ReplayDelta(s, bound, es) = SizeOf(taken, closed)
    BY DEF ReplayDelta
<1>6. /\ IsFiniteSet(closed) /\ \A k \in closed : result[k] \in Snapshots
    BY <1>1, <1>2, <1>4 DEF CheckpointMap, EventSet
<1> HIDE DEF range, closed, taken, result
<1>7. SizeOf(result, DOMAIN result) = SizeOf(cps, DOMAIN cps) + SizeOf(result, closed)
    BY <1>2, <1>3, <1>4, <1>6, SizeOfExtension
<1>8. SizeOf(result, closed) = SizeOf(taken, closed)
    BY <1>4, SizeOfSame
<1>9. SizeOf(result, closed) \in Int
    BY <1>6, SizeOfType
<1>10. QED BY <1>5, <1>7, <1>8, <1>9 DEF result

-----------------------------------------------------------------------------
(***************************************************************************)
(* The inductive invariant, and its step, operation by operation.          *)
(***************************************************************************)
MemoryAccounted == TypeOK /\ NoCheckpointAhead /\ UsageMatchesMaps

LEMMA EventsCharged ==
    ASSUME NEW es, EventSet(es), NEW k, k \notin es
    PROVE  /\ EventSize * Cardinality(es \cup {k}) = EventSize * Cardinality(es) + EventSize
           /\ EventSize * Cardinality(es) \in Int
<1>1. Cardinality(es) \in Nat /\ Cardinality(es \cup {k}) = Cardinality(es) + 1
    BY FS_CardinalityType, FS_AddElement DEF EventSet
<1>2. \A a, b \in Nat : a * (b + 1) = a * b + a /\ a * b \in Int
    OBVIOUS
<1>3. QED BY <1>1, <1>2, MemoryAssumption

LEMMA EventsGivenBack ==
    ASSUME NEW es, EventSet(es), NEW kept \in SUBSET es
    PROVE  /\ EventSize * Cardinality(kept)
                  = EventSize * Cardinality(es) - EventSize * Cardinality(es \ kept)
           /\ EventSize * Cardinality(es) \in Int
           /\ EventSize * Cardinality(es \ kept) \in Int
<1>1. PICK gone : gone = es \ kept
    OBVIOUS
<1>2. IsFiniteSet(kept) /\ IsFiniteSet(gone) /\ kept \cap gone = {} /\ kept \cup gone = es
    BY <1>1, FS_Subset DEF EventSet
<1>3. /\ Cardinality(es) = Cardinality(kept) + Cardinality(gone) - Cardinality(kept \cap gone)
      /\ Cardinality(kept \cap gone) = 0
      /\ Cardinality(kept) \in Nat /\ Cardinality(gone) \in Nat
    BY <1>2, FS_Union, FS_EmptySet, FS_CardinalityType
<1>4. \A a, b, c \in Nat : /\ a * b = a * (b + c) - a * c
                           /\ a * (b + c) \in Int /\ a * c \in Int
    OBVIOUS
<1>5. Cardinality(es) = Cardinality(kept) + Cardinality(gone)
    BY <1>3
<1>6. QED BY <1>1, <1>3, <1>4, <1>5, MemoryAssumption

LEMMA UsageIs ==
    UsageMatchesMaps <=> usage = EventSize * Cardinality(events)
                                 + SizeOf(checkpoints, DOMAIN checkpoints) + SnapshotSize
BY DEF UsageMatchesMaps, Stored

LEMMA InitAccounted == MemoryInit => MemoryAccounted
<1> SUFFICES ASSUME MemoryInit PROVE MemoryAccounted
    OBVIOUS
<1>1. TypeOK
    BY InitType DEF MemoryInit
<1>2. PICK p \in Payloads : new(p)
    BY DEF MemoryInit, Init
<1>3. base_snapshot.items = 0 /\ DOMAIN checkpoints = {} /\ events = {}
    BY <1>2 DEF new, Fresh
<1>4. usage = SnapshotSize
    <2>1. \A a, b \in Nat : a + b * 0 = a
        OBVIOUS
    <2>2. QED BY <1>3, <2>1, MemoryAssumption DEF MemoryInit, Size
<1>5. SizeOf(checkpoints, DOMAIN checkpoints) = 0
    BY <1>3, SumEmpty DEF SizeOf
<1>6. EventSize * Cardinality(events) = 0
    <2>1. Cardinality(events) = 0
        BY <1>3, FS_EmptySet
    <2>2. \A a \in Nat : a * 0 = 0
        OBVIOUS
    <2>3. QED BY <2>1, <2>2, MemoryAssumption
<1>7. UsageMatchesMaps
    BY <1>4, <1>5, <1>6, MemoryAssumption, UsageIs
<1>8. QED BY <1>1, <1>3, <1>7 DEF MemoryAccounted, NoCheckpointAhead

LEMMA AdvanceAccounted ==
    ASSUME MemoryAccounted, NEW d \in AdvanceSteps, AdvanceWithMemory(d)
    PROVE  MemoryAccounted'
<1> DEFINE drop_key == Key(DropTime', 0)
           dropped  == {c \in DOMAIN checkpoints : KeyLess(c, drop_key)}
<1>1. /\ events' = {k \in events : ~KeyLess(k, drop_key)}
      /\ checkpoints' = [c \in DOMAIN checkpoints \ dropped |-> checkpoints[c]]
      /\ usage' = usage - EventSize * Cardinality(events \ events')
                        - SizeOf(checkpoints, DOMAIN checkpoints \ DOMAIN checkpoints')
    BY DEF AdvanceWithMemory, advance
<1>2. TypeOK /\ TypeOK' /\ EventSet(events) /\ CheckpointMap(checkpoints) /\ DropTime' \in Int
    <2>1. TypeOK /\ TypeOK'
        BY AdvanceType DEF MemoryAccounted, AdvanceWithMemory
    <2>2. DropTime' \in Int
        BY <2>1, HistoryAssumption DEF TypeOK, DropTime
    <2>3. QED BY <2>1, <2>2, TypeParts
<1>3. NoCheckpointAhead'
    <2> SUFFICES ASSUME NEW c \in DOMAIN checkpoints'
                 PROVE  \E e \in events' : KeyLeq(c, e)
        BY DEF NoCheckpointAhead
    <2>1. c \in DOMAIN checkpoints /\ ~KeyLess(c, drop_key) /\ c \in ContimeKeys
        BY <1>1, <1>2 DEF CheckpointMap
    <2>2. PICK e \in events : KeyLeq(c, e)
        BY <2>1 DEF MemoryAccounted, NoCheckpointAhead
    <2>3. e \in ContimeKeys /\ drop_key \in ContimeKeys
        BY <1>2, KeyType DEF EventSet
    <2> HIDE DEF drop_key
    <2>4. ~KeyLess(e, drop_key)
        BY <2>1, <2>2, <2>3, KeyLeqLess
    <2>5. QED BY <1>1, <2>2, <2>4
<1>4. dropped \in SUBSET DOMAIN checkpoints
    OBVIOUS
<1> HIDE DEF drop_key, dropped
<1>5. DOMAIN checkpoints' = DOMAIN checkpoints \ dropped
      /\ DOMAIN checkpoints \ DOMAIN checkpoints' = dropped
      /\ \A c \in DOMAIN checkpoints' : checkpoints'[c] = checkpoints[c]
    BY <1>1, <1>4
<1>6. /\ SizeOf(checkpoints', DOMAIN checkpoints')
             = SizeOf(checkpoints, DOMAIN checkpoints) - SizeOf(checkpoints, dropped)
      /\ SizeOf(checkpoints, DOMAIN checkpoints) \in Int /\ SizeOf(checkpoints, dropped) \in Int
    <2>1. PICK rest : rest = checkpoints'
        OBVIOUS
    <2>2. QED BY <1>2, <1>4, <1>5, <2>1, SizeOfRest
<1>7. /\ EventSize * Cardinality(events')
             = EventSize * Cardinality(events) - EventSize * Cardinality(events \ events')
      /\ EventSize * Cardinality(events) \in Int
      /\ EventSize * Cardinality(events \ events') \in Int
    <2>1. PICK kept \in SUBSET events : kept = events'
        BY <1>1
    <2>2. QED BY <1>2, <2>1, EventsGivenBack
<1>8. usage = EventSize * Cardinality(events)
              + SizeOf(checkpoints, DOMAIN checkpoints) + SnapshotSize
    BY UsageIs DEF MemoryAccounted
<1>9. usage' = EventSize * Cardinality(events')
               + SizeOf(checkpoints', DOMAIN checkpoints') + SnapshotSize
    <2>1. PICK a \in Int : a = EventSize * Cardinality(events)
        BY <1>7
    <2>2. PICK b \in Int : b = EventSize * Cardinality(events \ events')
        BY <1>7
    <2>3. PICK x \in Int : x = SizeOf(checkpoints, DOMAIN checkpoints)
        BY <1>6
    <2>4. PICK y \in Int : y = SizeOf(checkpoints, dropped)
        BY <1>6
    <2>5. usage' = (a + x + SnapshotSize) - b - y
        BY <1>1, <1>5, <1>8, <2>1, <2>2, <2>3, <2>4
    <2>6. EventSize * Cardinality(events') = a - b
          /\ SizeOf(checkpoints', DOMAIN checkpoints') = x - y
        BY <1>6, <1>7, <2>1, <2>2, <2>3, <2>4
    <2>7. QED BY <2>5, <2>6, MemoryAssumption
<1>10. UsageMatchesMaps'
    BY <1>9 DEF UsageMatchesMaps, Stored
<1>11. QED BY <1>2, <1>3, <1>10 DEF MemoryAccounted

\* What applying one event to given maps adds to what the maps hold.
LEMMA FastCharged ==
    ASSUME NEW base \in Snapshots, NEW cps, CheckpointMap(cps), NEW es, EventSet(es),
           NEW k \in ContimeKeys, \A j \in es : KeyLess(j, k),
           \A c \in DOMAIN cps : \E e \in es : KeyLeq(c, e)
    PROVE  LET stored == es \cup {k}
               bound  == BoundAtLast(DOMAIN cps)
               range  == AfterBound(bound, stored)
               delta  == IF Cardinality(range) % CheckpointInterval = 0
                         THEN Size(Replay(ReplayStart(base, cps, bound), range)) ELSE 0
               result == FastPath(k, base, cps, stored)
           IN  /\ SizeOf(result, DOMAIN result) = SizeOf(cps, DOMAIN cps) + delta
               /\ SizeOf(cps, DOMAIN cps) \in Int /\ delta \in Int
<1> DEFINE stored == es \cup {k}
           bound  == BoundAtLast(DOMAIN cps)
           range  == AfterBound(bound, stored)
           snap   == Replay(ReplayStart(base, cps, bound), range)
           result == FastPath(k, base, cps, stored)
<1>1. EventSet(stored) /\ EventSet(range)
    <2>1. EventSet(stored)
        BY FS_Singleton, FS_Union DEF EventSet
    <2> HIDE DEF stored
    <2>2. QED BY <2>1, AfterBoundType
<1>2. snap \in Snapshots /\ Size(snap) \in Int
    <2>1. ReplayStart(base, cps, bound) \in Snapshots
        BY ReplayStartType
    <2> HIDE DEF bound, range
    <2>2. QED BY <1>1, <2>1, ReplayType, SizeType
<1>3. SizeOf(cps, DOMAIN cps) \in Int
    BY SizeOfType DEF CheckpointMap
<1>4. k \notin DOMAIN cps
    <2> SUFFICES ASSUME k \in DOMAIN cps PROVE FALSE
        OBVIOUS
    <2>1. PICK e \in es : KeyLeq(k, e)
        OBVIOUS
    <2>2. QED BY <2>1, KeyLessAntisymmetric DEF EventSet
<1> HIDE DEF bound, range, stored, snap
<1>5. CASE Cardinality(range) % CheckpointInterval = 0
    <2>1. result = [c \in DOMAIN cps \cup {k} |-> IF c = k THEN snap ELSE cps[c]]
        BY <1>5 DEF FastPath, bound, range, snap
    <2>2. /\ DOMAIN result = DOMAIN cps \cup {k} /\ result[k] = snap
          /\ \A c \in DOMAIN cps : result[c] = cps[c]
        BY <1>4, <2>1
    <2>3. CheckpointMap(result)
        BY <1>2, <2>1, InsertCheckpointType
    <2>4. IsFiniteSet({k}) /\ {k} \cap DOMAIN cps = {}
        BY <1>4, FS_Singleton
    <2> HIDE DEF result
    <2>5. SizeOf(result, DOMAIN result) = SizeOf(cps, DOMAIN cps) + SizeOf(result, {k})
        BY <2>2, <2>3, <2>4, SizeOfExtension
    <2>6. SizeOf(result, {k}) = Size(snap)
        BY <1>2, <2>2, SizeOfOne
    <2>7. QED BY <1>2, <1>3, <1>5, <2>5, <2>6 DEF result, stored, range, bound, snap
<1>6. CASE Cardinality(range) % CheckpointInterval # 0
    <2>1. result = cps
        BY <1>6 DEF FastPath, bound, range
    <2>2. QED BY <1>3, <1>6, <2>1 DEF stored, range, bound, snap, result
<1>7. QED BY <1>5, <1>6

StaleIn(cps, k) == {c \in DOMAIN cps : ~KeyLess(c, k)}
RebuildDelta(base, cps, k, stored) ==
    LET bound == BoundAtLast(DOMAIN cps \ StaleIn(cps, k))
    IN  ReplayDelta(ReplayStart(base, cps, bound), bound, stored)

LEMMA SlowCharged ==
    ASSUME NEW base \in Snapshots, NEW cps, CheckpointMap(cps), NEW es, EventSet(es),
           NEW k \in ContimeKeys
    PROVE  /\ SizeOf(SlowPath(k, base, cps, es \cup {k}),
                     DOMAIN SlowPath(k, base, cps, es \cup {k}))
                  = SizeOf(cps, DOMAIN cps) - SizeOf(cps, StaleIn(cps, k))
                    + RebuildDelta(base, cps, k, es \cup {k})
           /\ SizeOf(cps, DOMAIN cps) \in Int /\ SizeOf(cps, StaleIn(cps, k)) \in Int
           /\ RebuildDelta(base, cps, k, es \cup {k}) \in Int
<1> DEFINE stored == es \cup {k}
           stale  == StaleIn(cps, k)
           kept   == DropFrom(cps, k)
           bound  == BoundAtLast(DOMAIN kept)
           start  == ReplayStart(base, kept, bound)
           result == SlowPath(k, base, cps, stored)
<1>1. EventSet(stored)
    BY FS_Singleton, FS_Union DEF EventSet
<1>2. CheckpointMap(kept) /\ DOMAIN kept = DOMAIN cps \ stale
      /\ \A c \in DOMAIN kept : kept[c] = cps[c]
    BY DropFromType DEF StaleIn
<1>3. stale \in SUBSET DOMAIN cps
    BY DEF StaleIn
<1> HIDE DEF stored, stale, kept
<1>4. /\ EventSet(DOMAIN kept) /\ bound \in SUBSET ContimeKeys /\ Bounded(kept, bound)
      /\ start = ReplayStart(base, cps, bound)
    <2>1. EventSet(DOMAIN kept)
        BY <1>2, CheckpointDomain
    <2>2. CASE DOMAIN kept = {}
        <3>1. bound = {}
            BY <2>1, <2>2, BoundAtLastIsLast
        <3>2. QED BY <2>1, <2>2, <3>1 DEF Bounded, ReplayStart
    <2>3. CASE DOMAIN kept # {}
        <3>1. PICK c \in DOMAIN kept : /\ bound = {c} /\ LastKey(bound) = c
                                       /\ \A j \in DOMAIN kept : KeyLeq(j, c)
            BY <2>1, <2>3, BoundAtLastIsLast
        <3>2. c \in ContimeKeys /\ kept[c] = cps[c]
            BY <1>2, <2>1, <3>1 DEF EventSet
        <3>3. QED BY <2>1, <3>1, <3>2 DEF Bounded, ReplayStart
    <2>4. QED BY <2>2, <2>3
<1>5. start \in Snapshots
    BY <1>2, ReplayStartType
<1>6. result = replay_and_checkpoint(start, bound, kept, stored)
    BY DEF SlowPath, kept
<1> HIDE DEF bound, start, result
<1>7. /\ SizeOf(result, DOMAIN result)
             = SizeOf(kept, DOMAIN kept) + ReplayDelta(start, bound, stored)
      /\ ReplayDelta(start, bound, stored) \in Int
    BY <1>1, <1>2, <1>4, <1>5, <1>6, ReplayCharged
<1>8. /\ SizeOf(kept, DOMAIN kept) = SizeOf(cps, DOMAIN cps) - SizeOf(cps, stale)
      /\ SizeOf(cps, DOMAIN cps) \in Int /\ SizeOf(cps, stale) \in Int
    BY <1>2, <1>3, SizeOfRest
<1>9. RebuildDelta(base, cps, k, stored) = ReplayDelta(start, bound, stored)
    <2>1. bound = BoundAtLast(DOMAIN cps \ stale)
        BY <1>2 DEF bound
    <2>2. QED BY <1>4, <2>1 DEF RebuildDelta, stale
<1>10. SizeOf(result, DOMAIN result)
          = SizeOf(cps, DOMAIN cps) - SizeOf(cps, stale) + RebuildDelta(base, cps, k, stored)
    BY <1>7, <1>8, <1>9
<1>11. QED BY <1>7, <1>8, <1>9, <1>10 DEF result, stored, stale

LEMMA ApplyEventAccounted ==
    ASSUME MemoryAccounted, NEW k \in EventKeys, ApplyEventWithMemory(k)
    PROVE  MemoryAccounted'
<1> DEFINE stored == events \cup {k}
           held   == SizeOf(checkpoints, DOMAIN checkpoints)
<1>1. /\ apply_event(k)
      /\ checkpoints' = apply_event_in_place(k, base_snapshot, checkpoints, events)
      /\ events' = stored
      /\ usage' = IF k \in events THEN usage
                  ELSE usage + EventSize
                       + IF \A j \in events : KeyLess(j, k) THEN FastDelta ELSE SlowDelta(k)
    BY DEF ApplyEventWithMemory, apply_event
<1>2. TypeOK /\ TypeOK' /\ EventSet(events) /\ CheckpointMap(checkpoints)
      /\ base_snapshot \in Snapshots /\ k \in ContimeKeys
    <2>1. TypeOK /\ TypeOK'
        BY <1>1, ApplyEventActionType DEF MemoryAccounted
    <2>2. QED BY <2>1, TypeParts, HistoryAssumption
<1>3. usage = EventSize * Cardinality(events) + held + SnapshotSize
    BY UsageIs DEF MemoryAccounted
<1>4. \A c \in DOMAIN checkpoints : \E e \in events : KeyLeq(c, e)
    BY DEF MemoryAccounted, NoCheckpointAhead
<1>5. NoCheckpointAhead'
    <2>1. DOMAIN checkpoints' \in SUBSET (DOMAIN checkpoints \cup stored)
        BY <1>1 DEF apply_event_in_place, FastPath, SlowPath, replay_and_checkpoint,
                    DropFrom, Closed, AfterBound
    <2>2. QED BY <1>1, <1>4, <2>1 DEF NoCheckpointAhead, KeyLeq
<1>6. CASE k \in events
    <2>1. checkpoints' = checkpoints /\ events' = events /\ usage' = usage
        BY <1>1, <1>6 DEF apply_event_in_place
    <2>2. UsageMatchesMaps'
        BY <2>1 DEF MemoryAccounted, UsageMatchesMaps, Stored
    <2>3. QED BY <1>2, <1>5, <2>2 DEF MemoryAccounted
<1>7. CASE k \notin events
    <2>1. /\ EventSize * Cardinality(stored) = EventSize * Cardinality(events) + EventSize
          /\ EventSize * Cardinality(events) \in Int
        BY <1>2, <1>7, EventsCharged
    <2>2. (\A j \in events : KeyLess(j, k)) <=> \A j \in events : ~KeyLess(k, j)
        <3>1. \A j \in events : KeyLess(j, k) <=> ~KeyLess(k, j)
            <4> TAKE j \in events
            <4>1. j \in ContimeKeys /\ j # k
                BY <1>2, <1>7 DEF EventSet
            <4>2. QED BY <1>2, <4>1, KeyLessTotal, KeyLessAntisymmetric DEF KeyLeq
        <3>2. QED BY <3>1
    <2>3. PICK delta \in Int :
              /\ usage' = usage + EventSize + delta
              /\ SizeOf(checkpoints', DOMAIN checkpoints') = held + delta
              /\ held \in Int
        <3>1. CASE \A j \in events : KeyLess(j, k)
            <4>1. checkpoints' = FastPath(k, base_snapshot, checkpoints, stored)
                BY <1>1, <1>7, <2>2, <3>1 DEF apply_event_in_place
            <4>2. usage' = usage + EventSize + FastDelta
                BY <1>1, <1>7, <3>1
            <4>3. /\ SizeOf(checkpoints', DOMAIN checkpoints') = held + FastDelta
                  /\ held \in Int /\ FastDelta \in Int
                BY <1>1, <1>2, <1>4, <3>1, <4>1, FastCharged DEF FastDelta
            <4>4. QED BY <4>2, <4>3
        <3>2. CASE ~\A j \in events : KeyLess(j, k)
            <4>1. checkpoints' = SlowPath(k, base_snapshot, checkpoints, stored)
                BY <1>1, <1>7, <2>2, <3>2 DEF apply_event_in_place
            <4>2. usage' = usage + EventSize + SlowDelta(k)
                BY <1>1, <1>7, <3>2
            <4> DEFINE gain == RebuildDelta(base_snapshot, checkpoints, k, stored)
            <4>3. Stale(k) = StaleIn(checkpoints, k)
                BY DEF Stale, StaleIn
            <4>4. SlowDelta(k) = gain - SizeOf(checkpoints, Stale(k))
                BY <1>1, <4>3 DEF SlowDelta, RebuildDelta
            <4>5. /\ SizeOf(checkpoints', DOMAIN checkpoints')
                         = held - SizeOf(checkpoints, Stale(k)) + gain
                  /\ held \in Int /\ SizeOf(checkpoints, Stale(k)) \in Int /\ gain \in Int
                BY <1>2, <4>1, <4>3, SlowCharged
            <4> HIDE DEF gain, held
            <4>6. PICK back \in Int : back = SizeOf(checkpoints, Stale(k))
                BY <4>5
            <4>7. /\ gain - back \in Int
                  /\ SizeOf(checkpoints', DOMAIN checkpoints') = held + (gain - back)
                BY <4>5, <4>6
            <4>8. usage' = usage + EventSize + (gain - back)
                BY <4>2, <4>4, <4>6
            <4>9. QED BY <4>5, <4>7, <4>8
        <3>3. QED BY <3>1, <3>2
    <2>4. usage' = EventSize * Cardinality(events')
                   + SizeOf(checkpoints', DOMAIN checkpoints') + SnapshotSize
        <3>1. PICK a \in Int : a = EventSize * Cardinality(events)
            BY <2>1
        <3>2. PICK x \in Int : x = held
            BY <2>3
        <3>3. usage' = (a + x + SnapshotSize) + EventSize + delta
            BY <1>3, <2>3, <3>1, <3>2
        <3>4. EventSize * Cardinality(events') = a + EventSize
              /\ SizeOf(checkpoints', DOMAIN checkpoints') = x + delta
            BY <1>1, <2>1, <2>3, <3>1, <3>2
        <3>5. QED BY <3>3, <3>4, MemoryAssumption
    <2>5. UsageMatchesMaps'
        BY <2>4 DEF UsageMatchesMaps, Stored
    <2>6. QED BY <1>2, <1>5, <2>5 DEF MemoryAccounted
<1>8. QED BY <1>6, <1>7

LEMMA ApplySnapshotAccounted ==
    ASSUME MemoryAccounted, NEW id, NEW t \in SnapshotTimes, NEW p \in Payloads,
           ApplySnapshotWithMemory(id, t, p),
           \E e \in events : KeyLeq(Key(t, SnapshotId), e)
    PROVE  MemoryAccounted'
<1> DEFINE key       == Key(t, SnapshotId)
           kept      == DropFrom(checkpoints, key)
           auth      == Fresh(p, {key}, t)
           corrected == [k \in DOMAIN kept \cup {key} |->
                            IF k = key THEN auth ELSE kept[k]]
           stale     == Stale(key)
           gain      == ReplayDelta(auth, {key}, events)
           held      == SizeOf(checkpoints, DOMAIN checkpoints)
<1>1. /\ apply_snapshot(id, t, p)
      /\ checkpoints' = replay_and_checkpoint(auth, {key}, corrected, events)
      /\ events' = events
      /\ usage' = usage - SizeOf(checkpoints, stale) + Size(auth) + gain
    BY DEF ApplySnapshotWithMemory, apply_snapshot
<1>2. TypeOK /\ TypeOK' /\ EventSet(events) /\ CheckpointMap(checkpoints)
    <2>1. TypeOK /\ TypeOK'
        BY <1>1, ApplySnapshotType DEF MemoryAccounted
    <2>2. QED BY <2>1, TypeParts
<1>3. key \in ContimeKeys /\ auth \in Snapshots
    BY SnapshotKeyType, FreshType, HistoryAssumption
<1>4. CheckpointMap(corrected)
    BY <1>2, CorrectedType, HistoryAssumption
<1>5. /\ CheckpointMap(kept) /\ DOMAIN kept = {c \in DOMAIN checkpoints : KeyLess(c, key)}
      /\ \A c \in DOMAIN kept : kept[c] = checkpoints[c]
    BY <1>2, DropFromType
<1>6. key \notin DOMAIN kept
    BY <1>3, <1>5, KeyLessIrreflexive
<1>7. /\ DOMAIN corrected = DOMAIN kept \cup {key}
      /\ corrected[key] = auth
      /\ \A k \in DOMAIN kept : corrected[k] = kept[k]
    BY <1>6
<1>8. stale \in SUBSET DOMAIN checkpoints /\ DOMAIN kept = DOMAIN checkpoints \ stale
    BY <1>5 DEF Stale
<1>9. NoCheckpointAhead'
    <2>1. DOMAIN checkpoints' \in SUBSET (DOMAIN checkpoints \cup {key} \cup events)
        BY <1>1, <1>5, <1>7 DEF replay_and_checkpoint, Closed, AfterBound
    <2>2. QED BY <1>1, <2>1 DEF MemoryAccounted, NoCheckpointAhead, KeyLeq
<1> HIDE DEF key, kept, auth, corrected, stale
<1>10. /\ SizeOf(checkpoints', DOMAIN checkpoints')
              = SizeOf(corrected, DOMAIN corrected) + gain
       /\ gain \in Int
    <2>1. {key} \in SUBSET ContimeKeys /\ Bounded(corrected, {key})
        BY <1>3, <1>5, <1>7 DEF Bounded, KeyLeq
    <2>2. QED BY <1>1, <1>2, <1>3, <1>4, <2>1, ReplayCharged
<1>11. /\ SizeOf(corrected, DOMAIN corrected) = SizeOf(kept, DOMAIN kept) + Size(auth)
       /\ Size(auth) \in Int
    <2>1. IsFiniteSet({key}) /\ {key} \cap DOMAIN kept = {}
        BY <1>6, FS_Singleton
    <2>2. SizeOf(corrected, DOMAIN corrected) = SizeOf(kept, DOMAIN kept)
                                                + SizeOf(corrected, {key})
        BY <1>4, <1>5, <1>7, <2>1, SizeOfExtension
    <2>3. SizeOf(corrected, {key}) = Size(auth)
        BY <1>3, <1>7, SizeOfOne
    <2>4. QED BY <1>3, <2>2, <2>3, SizeType
<1>12. /\ SizeOf(kept, DOMAIN kept) = held - SizeOf(checkpoints, stale)
       /\ held \in Int /\ SizeOf(checkpoints, stale) \in Int
    BY <1>2, <1>5, <1>8, SizeOfRest
<1>13. usage = EventSize * Cardinality(events) + held + SnapshotSize
       /\ EventSize * Cardinality(events) \in Int
    <2>1. EventSize * Cardinality(events) \in Int
        BY <1>2, EventsGivenBack
    <2>2. QED BY <2>1, UsageIs DEF MemoryAccounted
<1>14. usage' = EventSize * Cardinality(events)
                + SizeOf(checkpoints', DOMAIN checkpoints') + SnapshotSize
    <2>1. PICK a \in Int : a = EventSize * Cardinality(events)
        BY <1>13
    <2>2. PICK x \in Int : x = held
        BY <1>12
    <2>3. PICK y \in Int : y = SizeOf(checkpoints, stale)
        BY <1>12
    <2>4. PICK z \in Int : z = Size(auth)
        BY <1>11
    <2>5. PICK g \in Int : g = gain
        BY <1>10
    <2>6. usage' = (a + x + SnapshotSize) - y + z + g
        BY <1>1, <1>13, <2>1, <2>2, <2>3, <2>4, <2>5
    <2>7. SizeOf(checkpoints', DOMAIN checkpoints') = (x - y + z) + g
        BY <1>10, <1>11, <1>12, <2>2, <2>3, <2>4, <2>5
    <2>8. QED BY <2>1, <2>6, <2>7, MemoryAssumption
<1>15. UsageMatchesMaps'
    BY <1>1, <1>14 DEF UsageMatchesMaps, Stored
<1>16. QED BY <1>2, <1>9, <1>15 DEF MemoryAccounted

LEMMA NextAccounted ==
    ASSUME ~AheadSnapshots
    PROVE  MemoryAccounted /\ [MemoryNext]_memoryVars => MemoryAccounted'
<1> SUFFICES ASSUME MemoryAccounted, [MemoryNext]_memoryVars PROVE MemoryAccounted'
    OBVIOUS
<1>1. ASSUME NEW d \in AdvanceSteps, AdvanceWithMemory(d) PROVE MemoryAccounted'
    BY <1>1, AdvanceAccounted
<1>2. ASSUME NEW k \in EventKeys, ApplyEventWithMemory(k) PROVE MemoryAccounted'
    BY <1>2, ApplyEventAccounted
<1>3. ASSUME NEW id \in SnapshotIds, NEW t \in SnapshotTimes, NEW p \in Payloads,
             MaySendSnapshot(t), ApplySnapshotWithMemory(id, t, p)
      PROVE  MemoryAccounted'
    BY <1>3, ApplySnapshotAccounted DEF MaySendSnapshot
<1>4. ASSUME \/ \E id \in SnapshotIds : apply_snapshot_foreign(id)
             \/ \E t \in QueryTimes : snapshot_at(t)
             \/ \E t \in QueryTimes : snapshot_at_panics(t)
             \/ recv
             \/ UNCHANGED vars,
             ~panicked \/ UNCHANGED vars,
             UNCHANGED usage
      PROVE  MemoryAccounted'
    <2>1. [Next]_vars
        BY <1>4 DEF Next
    <2>2. TypeOK'
        BY <2>1, NextType DEF MemoryAccounted
    <2>3. UNCHANGED <<events, checkpoints, usage>>
        BY <1>4 DEF vars, apply_snapshot_foreign, snapshot_at, snapshot_at_panics, recv
    <2>4. QED BY <2>2, <2>3
              DEF MemoryAccounted, NoCheckpointAhead, UsageMatchesMaps, Stored
<1>5. QED BY <1>1, <1>2, <1>3, <1>4 DEF MemoryNext, memoryVars

(***************************************************************************)
(* src/history.rs:148: the deltas the methods return add up, at every      *)
(* moment, to what the two maps of the history hold.  An authoritative     *)
(* snapshot newer than every event is excluded: the fast path can then     *)
(* overwrite its checkpoint without giving it back.                        *)
(***************************************************************************)
THEOREM UsageAlwaysMatches ==
    ASSUME ~AheadSnapshots
    PROVE  MemorySpec => []UsageMatchesMaps
<1>1. MemoryAccounted => UsageMatchesMaps
    BY DEF MemoryAccounted
<1>2. MemorySpec => []MemoryAccounted
    BY InitAccounted, NextAccounted, PTL DEF MemorySpec
<1>3. QED BY <1>1, <1>2, PTL

-----------------------------------------------------------------------------
(***************************************************************************)
(* Loops over a range of keys.  Two runs of a loop that agree after every  *)
(* range they agree on without its last key agree on all of them: the      *)
(* smallest range they disagree on would have to be a smaller one.         *)
(***************************************************************************)
LEMMA InKeyOrderUnique ==
    ASSUME NEW R, EventSet(R), NEW f, NEW g,
           \A D \in SUBSET R :
               \/ D = {} /\ f[D] = g[D]
               \/ D # {} /\ (f[D \ {LastKey(D)}] = g[D \ {LastKey(D)}] => f[D] = g[D])
    PROVE  f[R] = g[R]
<1> DEFINE C == {D \in SUBSET R : f[D] # g[D]}
<1> SUFFICES ASSUME C # {} PROVE FALSE
    OBVIOUS
<1>1. C \in SUBSET SUBSET R /\ IsFiniteSet(R)
    BY DEF EventSet
<1>2. PICK D \in C : \A E \in C : E \subseteq D => E = D
    <2> HIDE DEF C
    <2> QED BY <1>1, SmallestSet
<1>3. D # {} /\ D \in SUBSET R /\ EventSet(D)
    BY EventSubset
<1>4. LastKey(D) \in D
    BY <1>3, LastKeyMaximal DEF EventSet
<1>5. D \ {LastKey(D)} \notin C
    BY <1>2, <1>4
<1>6. QED BY <1>3, <1>5

\* What each loop makes of a range is g, when g takes the steps of the loop.
LEMMA FastLoopRuns ==
    ASSUME NEW s, NEW R, EventSet(R), NEW g,
           \A D \in SUBSET R :
               g[D] = IF D = {} THEN s ELSE ReplayStep(g[D \ {LastKey(D)}], LastKey(D))
    PROVE  FastLoop(s, R) = g[R]
<1> DEFINE Is(h) == h = [D \in SUBSET R |-> IF D = {} THEN s
                                   ELSE ReplayStep(h[D \ {LastKey(D)}], LastKey(D))]
           iter == CHOOSE h : Is(h)
           taken == [D \in SUBSET R |-> g[D]]
<1>1. FastLoop(s, R) = iter[R]
    BY DEF FastLoop, InKeyOrder, MapThenFoldSet
<1>2. Is(iter)
    <2>1. \A D \in SUBSET R : D \ {LastKey(D)} \in SUBSET R
        OBVIOUS
    <2>2. Is(taken)
        BY <2>1
    <2> HIDE DEF taken, Is
    <2>3. QED BY <2>2
<1>3. \A D \in SUBSET R :
          \/ D = {} /\ iter[D] = g[D]
          \/ D # {} /\ (iter[D \ {LastKey(D)}] = g[D \ {LastKey(D)}] => iter[D] = g[D])
    <2> HIDE DEF iter
    <2> QED BY <1>2
<1>4. iter[R] = g[R]
    <2> HIDE DEF iter
    <2> QED BY <1>3, InKeyOrderUnique
<1>5. QED BY <1>1, <1>4

LEMMA QueryLoopRuns ==
    ASSUME NEW s, NEW R, EventSet(R), NEW g,
           \A D \in SUBSET R :
               g[D] = IF D = {} THEN s ELSE apply_to(g[D \ {LastKey(D)}], LastKey(D))
    PROVE  QueryLoop(s, R) = g[R]
<1> DEFINE Is(h) == h = [D \in SUBSET R |-> IF D = {} THEN s
                                   ELSE apply_to(h[D \ {LastKey(D)}], LastKey(D))]
           iter == CHOOSE h : Is(h)
           taken == [D \in SUBSET R |-> g[D]]
<1>1. QueryLoop(s, R) = iter[R]
    BY DEF QueryLoop, InKeyOrder, MapThenFoldSet
<1>2. Is(iter)
    <2>1. \A D \in SUBSET R : D \ {LastKey(D)} \in SUBSET R
        OBVIOUS
    <2>2. Is(taken)
        BY <2>1
    <2> HIDE DEF taken, Is
    <2>3. QED BY <2>2
<1>3. \A D \in SUBSET R :
          \/ D = {} /\ iter[D] = g[D]
          \/ D # {} /\ (iter[D \ {LastKey(D)}] = g[D \ {LastKey(D)}] => iter[D] = g[D])
    <2> HIDE DEF iter
    <2> QED BY <1>2
<1>4. iter[R] = g[R]
    <2> HIDE DEF iter
    <2> QED BY <1>3, InKeyOrderUnique
<1>5. QED BY <1>1, <1>4

LEMMA CheckpointLoopRuns ==
    ASSUME NEW s, NEW R, EventSet(R), NEW g,
           \A D \in SUBSET R :
               g[D] = IF D = {} THEN s ELSE CheckpointStep(g[D \ {LastKey(D)}], LastKey(D))
    PROVE  CheckpointLoop(s, R) = g[R]
<1> DEFINE Is(h) == h = [D \in SUBSET R |-> IF D = {} THEN s
                                   ELSE CheckpointStep(h[D \ {LastKey(D)}], LastKey(D))]
           iter == CHOOSE h : Is(h)
           taken == [D \in SUBSET R |-> g[D]]
<1>1. CheckpointLoop(s, R) = iter[R]
    BY DEF CheckpointLoop, InKeyOrder, MapThenFoldSet
<1>2. Is(iter)
    <2>1. \A D \in SUBSET R : D \ {LastKey(D)} \in SUBSET R
        OBVIOUS
    <2>2. Is(taken)
        BY <2>1
    <2> HIDE DEF taken, Is
    <2>3. QED BY <2>2
<1>3. \A D \in SUBSET R :
          \/ D = {} /\ iter[D] = g[D]
          \/ D # {} /\ (iter[D \ {LastKey(D)}] = g[D \ {LastKey(D)}] => iter[D] = g[D])
    <2> HIDE DEF iter
    <2> QED BY <1>2
<1>4. iter[R] = g[R]
    <2> HIDE DEF iter
    <2> QED BY <1>3, InKeyOrderUnique
<1>5. QED BY <1>1, <1>4

LEMMA StaleLoopRuns ==
    ASSUME NEW s, NEW R, EventSet(R), NEW g,
           \A D \in SUBSET R :
               g[D] = IF D = {} THEN s ELSE RemoveStep(g[D \ {LastKey(D)}], LastKey(D))
    PROVE  StaleLoop(s, R) = g[R]
<1> DEFINE Is(h) == h = [D \in SUBSET R |-> IF D = {} THEN s
                                   ELSE RemoveStep(h[D \ {LastKey(D)}], LastKey(D))]
           iter == CHOOSE h : Is(h)
           taken == [D \in SUBSET R |-> g[D]]
<1>1. StaleLoop(s, R) = iter[R]
    BY DEF StaleLoop, InKeyOrder, MapThenFoldSet
<1>2. Is(iter)
    <2>1. \A D \in SUBSET R : D \ {LastKey(D)} \in SUBSET R
        OBVIOUS
    <2>2. Is(taken)
        BY <2>1
    <2> HIDE DEF taken, Is
    <2>3. QED BY <2>2
<1>3. \A D \in SUBSET R :
          \/ D = {} /\ iter[D] = g[D]
          \/ D # {} /\ (iter[D \ {LastKey(D)}] = g[D \ {LastKey(D)}] => iter[D] = g[D])
    <2> HIDE DEF iter
    <2> QED BY <1>2
<1>4. iter[R] = g[R]
    <2> HIDE DEF iter
    <2> QED BY <1>3, InKeyOrderUnique
<1>5. QED BY <1>1, <1>4

\* A range and its last key: the rest lies before it and is one shorter.
LEMMA LastOf ==
    ASSUME NEW R, EventSet(R), R # {}
    PROVE  /\ LastKey(R) \in R /\ LastKey(R) \in ContimeKeys /\ LastKey(R).time \in Int
           /\ \A j \in R \ {LastKey(R)} : KeyLess(j, LastKey(R))
           /\ EventSet(R \ {LastKey(R)})
           /\ Cardinality(R \ {LastKey(R)}) \in Nat
           /\ Cardinality(R) = Cardinality(R \ {LastKey(R)}) + 1
<1>1. LastKey(R) \in R /\ \A j \in R : KeyLeq(j, LastKey(R))
    BY LastKeyMaximal DEF EventSet
<1>2. EventSet(R \ {LastKey(R)})
    BY EventSubset
<1>3. PICK n \in Nat : n = Cardinality(R)
    BY FS_CardinalityType DEF EventSet
<1>4. PICK m \in Nat : m = Cardinality(R \ {LastKey(R)})
    BY <1>2, FS_CardinalityType DEF EventSet
<1>5. m = n - 1
    BY <1>1, <1>3, <1>4, FS_RemoveElement DEF EventSet
<1>6. n = m + 1
    BY <1>5
<1>7. QED BY <1>1, <1>2, <1>3, <1>4, <1>6 DEF EventSet, ContimeKeys, KeyLeq

LEMMA ReplayIs ==
    ASSUME NEW s \in Snapshots, NEW R, R # {}
    PROVE  Replay(s, R) = [from |-> s.from, anchor |-> s.anchor,
                           time |-> LastKey(R).time, applied |-> s.applied \cup R,
                           inOrder |-> s.inOrder /\ \A j \in s.applied, k \in R : KeyLess(j, k),
                           items |-> s.items + Cardinality(R)]
<1> DEFINE inOrder == s.inOrder /\ \A j \in s.applied, k \in R : KeyLess(j, k)
<1>1. Replay(s, R) = [s EXCEPT !.applied = s.applied \cup R,
                               !.items = s.items + Cardinality(R),
                               !.inOrder = inOrder,
                               !.time = LastKey(R).time]
    BY DEF Replay
<1> HIDE DEF inOrder
<1>2. Replay(s, R) = [from |-> s.from, anchor |-> s.anchor,
                      time |-> LastKey(R).time, applied |-> s.applied \cup R,
                      inOrder |-> inOrder,
                      items |-> s.items + Cardinality(R)]
    BY <1>1 DEF Snapshots
<1>3. QED BY <1>2 DEF inOrder

\* One more event at the end of the range is one more step.
LEMMA ReplayGrows ==
    ASSUME NEW s \in Snapshots, NEW R, EventSet(R), R # {}
    PROVE  Replay(s, R) = ReplayStep(Replay(s, R \ {LastKey(R)}), LastKey(R))
<1> DEFINE k == LastKey(R)
           D == R \ {k}
           step(r) == [from |-> r.from, anchor |-> r.anchor, time |-> k.time,
                       applied |-> r.applied \cup {k},
                       inOrder |-> r.inOrder /\ \A j \in r.applied : KeyLess(j, k),
                       items |-> r.items + 1]
<1>1. /\ k \in R /\ k \in ContimeKeys /\ \A j \in D : KeyLess(j, k)
      /\ EventSet(D) /\ Cardinality(D) \in Nat /\ Cardinality(R) = Cardinality(D) + 1
    BY LastOf
<1>2. ASSUME NEW r \in Snapshots PROVE ReplayStep(r, k) = step(r)
    <2> DEFINE inOrder == r.inOrder /\ \A j \in r.applied : KeyLess(j, k)
    <2>1. ReplayStep(r, k) = [[r EXCEPT !.applied = r.applied \cup {k},
                                        !.items = r.items + 1,
                                        !.inOrder = inOrder] EXCEPT !.time = k.time]
        BY DEF ReplayStep, set_time, apply_to
    <2> HIDE DEF inOrder, k
    <2>2. ReplayStep(r, k) = [from |-> r.from, anchor |-> r.anchor, time |-> k.time,
                              applied |-> r.applied \cup {k},
                              inOrder |-> inOrder, items |-> r.items + 1]
        BY <2>1 DEF Snapshots
    <2>3. QED BY <2>2 DEF inOrder
<1>3. Replay(s, D) \in Snapshots
    BY <1>1, ReplayType
<1> DEFINE r == Replay(s, D)
<1>4. ReplayStep(r, k) = step(r)
    BY <1>2, <1>3
<1>5. /\ r.from = s.from /\ r.anchor = s.anchor /\ r.applied = s.applied \cup D
      /\ r.inOrder = (s.inOrder /\ \A j \in s.applied, i \in D : KeyLess(j, i))
      /\ r.items = s.items + Cardinality(D)
    <2>1. CASE D = {}
        <3>1. r = s /\ Cardinality(D) = 0 /\ s.items \in Nat /\ s.inOrder \in BOOLEAN
            BY <2>1, FS_EmptySet DEF Replay, Snapshots
        <3> HIDE DEF D, r
        <3>2. s.items = s.items + Cardinality(D)
            BY <3>1
        <3>3. QED BY <2>1, <3>1, <3>2
    <2>2. CASE D # {}
        <3> HIDE DEF D
        <3>1. QED BY <2>2, ReplayIs
    <2>3. QED BY <2>1, <2>2
<1>6. s.applied \cup R = (s.applied \cup D) \cup {k} /\ R = D \cup {k}
    BY <1>1
<1>7. (r.inOrder /\ \A j \in r.applied : KeyLess(j, k))
          <=> (s.inOrder /\ \A j \in s.applied, i \in R : KeyLess(j, i))
    <2> HIDE DEF D, k, r
    <2> QED BY <1>1, <1>5, <1>6
<1>8. r.items + 1 = s.items + Cardinality(R)
    <2>1. PICK a \in Nat : a = s.items
        BY DEF Snapshots
    <2>2. PICK b \in Nat : b = Cardinality(D)
        BY <1>1
    <2> HIDE DEF D, k, r
    <2>3. Cardinality(R) = b + 1 /\ r.items = a + b
        BY <1>1, <1>5, <2>1, <2>2
    <2>4. (a + b) + 1 = a + (b + 1)
        OBVIOUS
    <2>5. QED BY <2>1, <2>3, <2>4
<1>9. Replay(s, R) = step(r)
    <2>1. step(r) = [from |-> s.from, anchor |-> s.anchor, time |-> LastKey(R).time,
                     applied |-> s.applied \cup R,
                     inOrder |-> s.inOrder /\ \A j \in s.applied, i \in R : KeyLess(j, i),
                     items |-> s.items + Cardinality(R)]
        <3> HIDE DEF D, r
        <3> QED BY <1>5, <1>6, <1>7, <1>8
    <2>2. QED BY <2>1, ReplayIs
<1>10. QED BY <1>4, <1>9

LEMMA FastLoopComputes ==
    ASSUME NEW s \in Snapshots, NEW R, EventSet(R)
    PROVE  FastLoop(s, R) = Replay(s, R)
<1> DEFINE g == [D \in SUBSET R |-> Replay(s, D)]
<1>1. \A D \in SUBSET R :
          g[D] = IF D = {} THEN s ELSE ReplayStep(g[D \ {LastKey(D)}], LastKey(D))
    <2> TAKE D \in SUBSET R
    <2>1. EventSet(D)
        BY EventSubset
    <2>2. CASE D = {}
        BY <2>2 DEF Replay
    <2>3. CASE D # {}
        <3>1. D \ {LastKey(D)} \in SUBSET R
            OBVIOUS
        <3>2. QED BY <2>1, <2>3, <3>1, ReplayGrows
    <2>4. QED BY <2>2, <2>3
<1>2. FastLoop(s, R) = g[R]
    <2> HIDE DEF g
    <2> QED BY <1>1, FastLoopRuns
<1>3. QED BY <1>2

\* snapshot_at sets the time after the loop, the others in every step.
LEMMA QueryLoopComputes ==
    ASSUME NEW s \in Snapshots, NEW R, EventSet(R)
    PROVE  QueryLoop(s, R) = [Replay(s, R) EXCEPT !.time = s.time]
<1> DEFINE g == [D \in SUBSET R |-> [Replay(s, D) EXCEPT !.time = s.time]]
<1>1. ASSUME NEW r \in Snapshots, NEW k
      PROVE  [ReplayStep(r, k) EXCEPT !.time = s.time]
                 = apply_to([r EXCEPT !.time = s.time], k)
    <2> DEFINE inOrder == r.inOrder /\ \A j \in r.applied : KeyLess(j, k)
               q == [r EXCEPT !.time = s.time]
    <2>1. q.inOrder = r.inOrder /\ q.applied = r.applied /\ q.items = r.items
        BY DEF Snapshots
    <2>2. ReplayStep(r, k) = [[r EXCEPT !.applied = r.applied \cup {k},
                                        !.items = r.items + 1,
                                        !.inOrder = inOrder] EXCEPT !.time = k.time]
        BY DEF ReplayStep, set_time, apply_to
    <2>3. apply_to(q, k) = [q EXCEPT !.applied = r.applied \cup {k},
                                     !.items = r.items + 1,
                                     !.inOrder = inOrder]
        <3>1. apply_to(q, k) = [q EXCEPT !.applied = q.applied \cup {k},
                                         !.items = q.items + 1,
                                         !.inOrder = q.inOrder
                                             /\ \A j \in q.applied : KeyLess(j, k)]
            BY DEF apply_to
        <3> HIDE DEF q
        <3>2. (q.inOrder /\ \A j \in q.applied : KeyLess(j, k)) = inOrder
            BY <2>1
        <3> HIDE DEF inOrder
        <3>3. QED BY <2>1, <3>1, <3>2
    <2> HIDE DEF inOrder
    <2>4. QED BY <2>2, <2>3 DEF Snapshots
<1>2. \A D \in SUBSET R :
          g[D] = IF D = {} THEN s ELSE apply_to(g[D \ {LastKey(D)}], LastKey(D))
    <2> TAKE D \in SUBSET R
    <2>1. EventSet(D)
        BY EventSubset
    <2>2. CASE D = {}
        BY <2>2 DEF Replay, Snapshots
    <2>3. CASE D # {}
        <3>1. D \ {LastKey(D)} \in SUBSET R /\ EventSet(D \ {LastKey(D)})
            BY <2>1, EventSubset
        <3>2. Replay(s, D \ {LastKey(D)}) \in Snapshots
            BY <3>1, ReplayType
        <3>3. Replay(s, D) = ReplayStep(Replay(s, D \ {LastKey(D)}), LastKey(D))
            BY <2>1, <2>3, ReplayGrows
        <3>4. QED BY <1>1, <2>3, <3>1, <3>2, <3>3
    <2>4. QED BY <2>2, <2>3
<1>3. QueryLoop(s, R) = g[R]
    <2> HIDE DEF g
    <2> QED BY <1>2, QueryLoopRuns
<1>4. QED BY <1>3

(***************************************************************************)
(* What replay_and_checkpoint takes in a range, and the map with it.       *)
(***************************************************************************)
Taken(s, R) == [k \in Closed(R) |-> Replay(s, {j \in R : KeyLeq(j, k)})]

With(kept, taken) ==
    [k \in DOMAIN kept \cup DOMAIN taken |->
        IF k \in DOMAIN taken THEN taken[k] ELSE kept[k]]

LEMMA TakenType ==
    ASSUME NEW s \in Snapshots, NEW R, EventSet(R)
    PROVE  /\ EventSet(Closed(R)) /\ Closed(R) \in SUBSET R
           /\ DOMAIN Taken(s, R) = Closed(R)
           /\ \A k \in Closed(R) : Taken(s, R)[k] \in Snapshots
           /\ SizeOf(Taken(s, R), Closed(R)) \in Int
<1>1. EventSet(Closed(R)) /\ Closed(R) \in SUBSET R
    BY EventSubset DEF Closed
<1>2. \A k \in Closed(R) : Taken(s, R)[k] \in Snapshots
    <2> TAKE k \in Closed(R)
    <2>1. EventSet({j \in R : KeyLeq(j, k)})
        BY EventSubset
    <2>2. QED BY <2>1, ReplayType DEF Taken
<1>3. DOMAIN Taken(s, R) = Closed(R)
    BY DEF Taken
<1>4. SizeOf(Taken(s, R), Closed(R)) \in Int
    BY <1>1, <1>2, SizeOfType DEF EventSet
<1>5. QED BY <1>1, <1>2, <1>3, <1>4

\* The last event of a range closes an interval or not; nothing else changes.
LEMMA TakenGrows ==
    ASSUME NEW s \in Snapshots, NEW R, EventSet(R), R # {},
           NEW k, k = LastKey(R), NEW D, D = R \ {k}
    PROVE  /\ k \notin Closed(D)
           /\ Closed(R) = IF Cardinality(R) % CheckpointInterval = 0
                          THEN Closed(D) \cup {k} ELSE Closed(D)
           /\ \A j \in Closed(D) : Taken(s, R)[j] = Taken(s, D)[j]
           /\ k \in Closed(R) => Taken(s, R)[k] = Replay(s, R)
<1>1. /\ k \in R /\ k \in ContimeKeys /\ \A j \in D : KeyLess(j, k)
      /\ R \subseteq ContimeKeys
    BY LastOf DEF EventSet
<1>2. \A j \in D : {i \in R : KeyLeq(i, j)} = {i \in D : KeyLeq(i, j)}
    <2> SUFFICES ASSUME NEW j \in D, KeyLeq(k, j) PROVE FALSE
        BY <1>1
    <2>1. j \in ContimeKeys /\ KeyLess(j, k)
        BY <1>1
    <2>2. QED BY <1>1, <2>1, KeyLessTransitive, KeyLessIrreflexive DEF KeyLeq
<1>3. {i \in R : KeyLeq(i, k)} = R
    BY <1>1 DEF KeyLeq
<1>4. \A j \in D : Rank(j, R) = Rank(j, D)
    BY <1>2 DEF Rank
<1>5. Rank(k, R) = Cardinality(R)
    BY <1>3 DEF Rank
<1>6. R = D \cup {k} /\ k \notin D
    BY <1>1
<1>7. \A j : j \in Closed(R) <=> j \in R /\ Rank(j, R) % CheckpointInterval = 0
    BY DEF Closed
<1>8. \A j : j \in Closed(D) <=> j \in D /\ Rank(j, D) % CheckpointInterval = 0
    BY DEF Closed
<1>9. /\ \A j \in D : j \in Closed(R) <=> j \in Closed(D)
      /\ k \in Closed(R) <=> Cardinality(R) % CheckpointInterval = 0
      /\ k \notin Closed(D)
    BY <1>4, <1>5, <1>6, <1>7, <1>8
<1>10. Closed(R) = IF Cardinality(R) % CheckpointInterval = 0
                   THEN Closed(D) \cup {k} ELSE Closed(D)
    BY <1>6, <1>7, <1>8, <1>9
<1>11. \A j \in Closed(D) : Taken(s, R)[j] = Taken(s, D)[j]
    <2> TAKE j \in Closed(D)
    <2>1. j \in D /\ j \in Closed(R)
        BY <1>8, <1>9
    <2>2. QED BY <1>2, <2>1 DEF Taken
<1>12. k \in Closed(R) => Taken(s, R)[k] = Replay(s, R)
    BY <1>3 DEF Taken
<1>13. QED BY <1>9, <1>10, <1>11, <1>12

LEMMA CheckpointLoopComputes ==
    ASSUME NEW s \in Snapshots, NEW kept, NEW R, EventSet(R), NEW b \in Int,
           NEW loop, loop = [snapshot |-> s, count |-> 0, checkpoints |-> kept,
                             bytes_delta |-> b],
           kept = [c \in DOMAIN kept |-> kept[c]]
    PROVE  CheckpointLoop(loop, R)
               = [snapshot |-> Replay(s, R), count |-> Cardinality(R),
                  checkpoints |-> With(kept, Taken(s, R)),
                  bytes_delta |-> b + SizeOf(Taken(s, R), Closed(R))]
<1> DEFINE g == [D \in SUBSET R |->
                    [snapshot |-> Replay(s, D), count |-> Cardinality(D),
                     checkpoints |-> With(kept, Taken(s, D)),
                     bytes_delta |-> b + SizeOf(Taken(s, D), Closed(D))]]
<1>1. g[{}] = loop
    <2>1. Replay(s, {}) = s /\ Cardinality({}) = 0
        BY FS_EmptySet DEF Replay
    <2>2. Closed({}) = {}
        BY DEF Closed
    <2>3. With(kept, Taken(s, {})) = kept
        BY <2>2 DEF With, Taken
    <2>4. SizeOf(Taken(s, {}), {}) = 0
        BY SumEmpty DEF SizeOf
    <2>5. b + SizeOf(Taken(s, {}), Closed({})) = b
        <3>1. SizeOf(Taken(s, {}), Closed({})) = 0
            BY <2>2, <2>4, Zenon
        <3>2. b + 0 = b
            OBVIOUS
        <3>3. QED BY ONLY <3>1, <3>2
    <2>6. QED BY <2>1, <2>3, <2>5
<1>2. ASSUME NEW D \in SUBSET R, D # {}
      PROVE  g[D] = CheckpointStep(g[D \ {LastKey(D)}], LastKey(D))
    <2>1. PICK k : k = LastKey(D)
        OBVIOUS
    <2>2. PICK E : E = D \ {k}
        OBVIOUS
    <2>3. EventSet(D) /\ EventSet(E) /\ E \in SUBSET R
        BY <2>2, EventSubset
    <2>4. Replay(s, D) = ReplayStep(Replay(s, E), k)
        BY <1>2, <2>1, <2>2, <2>3, ReplayGrows
    <2>5. Cardinality(D) = Cardinality(E) + 1
        BY <1>2, <2>1, <2>2, <2>3, LastOf
    <2>6. Replay(s, D) \in Snapshots
        BY <2>3, ReplayType
    <2>7. /\ k \notin Closed(E)
          /\ Closed(D) = IF Cardinality(D) % CheckpointInterval = 0
                         THEN Closed(E) \cup {k} ELSE Closed(E)
          /\ \A j \in Closed(E) : Taken(s, D)[j] = Taken(s, E)[j]
          /\ k \in Closed(D) => Taken(s, D)[k] = Replay(s, D)
        BY <1>2, <2>1, <2>2, <2>3, TakenGrows
    <2>8. /\ DOMAIN Taken(s, D) = Closed(D) /\ DOMAIN Taken(s, E) = Closed(E)
          /\ IsFiniteSet(Closed(D)) /\ IsFiniteSet(Closed(E))
          /\ \A j \in Closed(D) : Taken(s, D)[j] \in Snapshots
        BY <2>3, TakenType DEF EventSet
    <2>9. SizeOf(Taken(s, D), Closed(E)) = SizeOf(Taken(s, E), Closed(E))
        BY <2>7, SizeOfSame
    <2> DEFINE before == [snapshot |-> Replay(s, E), count |-> Cardinality(E),
                          checkpoints |-> With(kept, Taken(s, E)),
                          bytes_delta |-> b + SizeOf(Taken(s, E), Closed(E))]
               after  == [snapshot |-> Replay(s, D), count |-> Cardinality(D),
                          checkpoints |-> With(kept, Taken(s, D)),
                          bytes_delta |-> b + SizeOf(Taken(s, D), Closed(D))]
    <2>10. CASE Cardinality(D) % CheckpointInterval = 0
        <3>1. CheckpointStep(before, k)
                  = [snapshot |-> Replay(s, D), count |-> Cardinality(D),
                     checkpoints |-> Put(With(kept, Taken(s, E)), k, Replay(s, D)),
                     bytes_delta |-> (b + SizeOf(Taken(s, E), Closed(E)))
                                         + Size(Replay(s, D))]
            BY <2>4, <2>5, <2>10 DEF CheckpointStep
        <3>2. Closed(D) = Closed(E) \cup {k} /\ k \in Closed(D)
            BY <2>7, <2>10
        <3>3. With(kept, Taken(s, D)) = Put(With(kept, Taken(s, E)), k, Replay(s, D))
            BY <2>7, <2>8, <3>2 DEF With, Put
        <3>4. SizeOf(Taken(s, D), Closed(D))
                  = SizeOf(Taken(s, D), Closed(E)) + SizeOf(Taken(s, D), {k})
            <4>1. Closed(E) \cap {k} = {} /\ IsFiniteSet({k})
                BY <2>7, FS_Singleton
            <4>2. QED BY <2>8, <3>2, <4>1, SizeOfDisjoint
        <3>5. SizeOf(Taken(s, D), {k}) = Size(Replay(s, D))
            BY <2>7, <2>6, <3>2, SizeOfOne
        <3>6. PICK x \in Int : x = SizeOf(Taken(s, E), Closed(E))
            BY <2>3, TakenType
        <3>7. PICK y \in Int : y = Size(Replay(s, D))
            BY <2>6, SizeType
        <3>8. SizeOf(Taken(s, D), Closed(D)) = x + y
            BY <2>9, <3>4, <3>5, <3>6, <3>7
        <3>9. (b + x) + y = b + (x + y)
            OBVIOUS
        <3>10. (b + SizeOf(Taken(s, E), Closed(E))) + Size(Replay(s, D))
                   = b + SizeOf(Taken(s, D), Closed(D))
            BY <3>6, <3>7, <3>8, <3>9
        <3>11. CheckpointStep(before, k) = after
            BY <3>1, <3>3, <3>10
        <3>12. QED BY <2>1, <2>2, <2>3, <3>11
    <2>11. CASE Cardinality(D) % CheckpointInterval # 0
        <3>1. CheckpointStep(before, k)
                  = [snapshot |-> Replay(s, D), count |-> Cardinality(D),
                     checkpoints |-> With(kept, Taken(s, E)),
                     bytes_delta |-> b + SizeOf(Taken(s, E), Closed(E))]
            BY <2>4, <2>5, <2>11 DEF CheckpointStep
        <3>2. Closed(D) = Closed(E)
            BY <2>7, <2>11
        <3>3. With(kept, Taken(s, D)) = With(kept, Taken(s, E))
            BY <2>7, <2>8, <3>2 DEF With
        <3>4. CheckpointStep(before, k) = after
            BY <2>9, <3>1, <3>2, <3>3
        <3>5. QED BY <2>1, <2>2, <2>3, <3>4
    <2>12. QED BY <2>10, <2>11
<1>3. \A D \in SUBSET R :
          g[D] = IF D = {} THEN loop ELSE CheckpointStep(g[D \ {LastKey(D)}], LastKey(D))
    BY <1>1, <1>2
<1>4. CheckpointLoop(loop, R) = g[R]
    <2> HIDE DEF g
    <2> QED BY ONLY EventSet(R), <1>3, CheckpointLoopRuns
<1>5. QED BY <1>4

LEMMA StaleLoopComputes ==
    ASSUME NEW cps, CheckpointMap(cps), NEW R, R \in SUBSET DOMAIN cps,
           NEW m, m = [checkpoints |-> cps, bytes_delta |-> 0]
    PROVE  StaleLoop(m, R) = [checkpoints |-> [c \in DOMAIN cps \ R |-> cps[c]],
                              bytes_delta |-> 0 - SizeOf(cps, R)]
<1> DEFINE g == [D \in SUBSET R |->
                    [checkpoints |-> [c \in DOMAIN cps \ D |-> cps[c]],
                     bytes_delta |-> 0 - SizeOf(cps, D)]]
<1>1. EventSet(R)
    BY CheckpointDomain, EventSubset
<1>2. g[{}] = m
    <2>1. SizeOf(cps, {}) = 0
        BY SumEmpty DEF SizeOf
    <2>2. 0 - SizeOf(cps, {}) = 0
        BY <2>1
    <2>3. [c \in DOMAIN cps \ {} |-> cps[c]] = cps
        BY DEF CheckpointMap
    <2>4. QED BY <2>2, <2>3
<1>3. ASSUME NEW D \in SUBSET R, D # {}
      PROVE  g[D] = RemoveStep(g[D \ {LastKey(D)}], LastKey(D))
    <2>1. PICK k : k = LastKey(D)
        OBVIOUS
    <2>2. PICK E : E = D \ {k}
        OBVIOUS
    <2>3. EventSet(D) /\ EventSet(E) /\ E \in SUBSET R /\ k \in D /\ D = E \cup {k}
          /\ k \notin E
        BY <1>1, <1>3, <2>1, <2>2, EventSubset, LastOf
    <2>4. /\ k \in DOMAIN cps /\ cps[k] \in Snapshots /\ E \in SUBSET DOMAIN cps
          /\ \A c \in E \cup {k} : cps[c] \in Snapshots
        BY <2>3 DEF CheckpointMap
    <2>5. SizeOf(cps, D) = SizeOf(cps, E) + SizeOf(cps, {k})
        <3>1. E \cap {k} = {} /\ IsFiniteSet({k}) /\ IsFiniteSet(E)
            BY <2>3, FS_Singleton DEF EventSet
        <3>2. QED BY <2>3, <2>4, <3>1, SizeOfDisjoint
    <2>6. SizeOf(cps, {k}) = Size(cps[k])
        BY <2>4, SizeOfOne
    <2>7. PICK x \in Int : x = SizeOf(cps, E)
        BY <2>3, <2>4, SizeOfType DEF EventSet
    <2>8. PICK y \in Int : y = Size(cps[k])
        BY <2>4, SizeType
    <2>9. (0 - SizeOf(cps, E)) - Size(cps[k]) = 0 - SizeOf(cps, D)
        <3>1. SizeOf(cps, D) = x + y
            BY <2>5, <2>6, <2>7, <2>8
        <3>2. (0 - x) - y = 0 - (x + y)
            OBVIOUS
        <3>3. QED BY <2>7, <2>8, <3>1, <3>2
    <2>10. [c \in (DOMAIN cps \ E) \ {k} |-> [i \in DOMAIN cps \ E |-> cps[i]][c]]
               = [c \in DOMAIN cps \ D |-> cps[c]]
        BY <2>3
    <2> DEFINE before == [checkpoints |-> [c \in DOMAIN cps \ E |-> cps[c]],
                          bytes_delta |-> 0 - SizeOf(cps, E)]
    <2>11. before.checkpoints[k] = cps[k]
        BY <2>3, <2>4
    <2>12. RemoveStep(before, k) = [checkpoints |-> [c \in DOMAIN cps \ D |-> cps[c]],
                                    bytes_delta |-> 0 - SizeOf(cps, D)]
        BY <2>9, <2>10, <2>11 DEF RemoveStep
    <2>13. QED BY <2>1, <2>2, <2>3, <2>12
<1>4. \A D \in SUBSET R :
          g[D] = IF D = {} THEN m ELSE RemoveStep(g[D \ {LastKey(D)}], LastKey(D))
    BY <1>2, <1>3
<1>5. StaleLoop(m, R) = g[R]
    <2> HIDE DEF g
    <2> QED BY ONLY <1>1, <1>4, StaleLoopRuns
<1>6. QED BY <1>5

-----------------------------------------------------------------------------
(***************************************************************************)
(* The methods.                                                            *)
(***************************************************************************)
LEMMA RemoveStaleComputes ==
    ASSUME CheckpointMap(checkpoints), NEW key
    PROVE  /\ RemoveStale(key) = [checkpoints |-> DropFrom(checkpoints, key),
                                  bytes_delta |-> 0 - SizeOf(checkpoints, Stale(key))]
           /\ SizeOf(checkpoints, Stale(key)) \in Int
<1>1. Stale(key) \in SUBSET DOMAIN checkpoints
    BY DEF Stale
<1>2. [c \in DOMAIN checkpoints \ Stale(key) |-> checkpoints[c]] = DropFrom(checkpoints, key)
    BY DEF Stale, DropFrom
<1>3. StaleLoop([checkpoints |-> checkpoints, bytes_delta |-> 0], Stale(key))
          = [checkpoints |-> [c \in DOMAIN checkpoints \ Stale(key) |-> checkpoints[c]],
             bytes_delta |-> 0 - SizeOf(checkpoints, Stale(key))]
    BY <1>1, StaleLoopComputes
<1>4. SizeOf(checkpoints, Stale(key)) \in Int
    <2>1. IsFiniteSet(Stale(key)) /\ \A c \in Stale(key) : checkpoints[c] \in Snapshots
        BY <1>1, FS_Subset DEF CheckpointMap
    <2>2. QED BY <2>1, SizeOfType
<1>5. QED BY <1>2, <1>3, <1>4 DEF RemoveStale

LEMMA ReplayLoopComputes ==
    ASSUME NEW start \in Snapshots, NEW bound, NEW kept, CheckpointMap(kept),
           NEW evs, EventSet(evs), NEW b \in Int
    PROVE  /\ ReplayLoop(start, bound, kept, evs, b).checkpoints
                  = replay_and_checkpoint(start, bound, kept, evs)
           /\ ReplayLoop(start, bound, kept, evs, b).bytes_delta
                  = b + ReplayDelta(start, bound, evs)
           /\ ReplayDelta(start, bound, evs) \in Int
<1>1. PICK range : range = AfterBound(bound, evs)
    OBVIOUS
<1>2. EventSet(range)
    BY <1>1, AfterBoundType
<1>3. kept = [c \in DOMAIN kept |-> kept[c]]
    BY DEF CheckpointMap
<1>4. PICK loop : loop = [snapshot |-> start, count |-> 0, checkpoints |-> kept,
                          bytes_delta |-> b]
    OBVIOUS
<1>5. CheckpointLoop(loop, range)
          = [snapshot |-> Replay(start, range), count |-> Cardinality(range),
             checkpoints |-> With(kept, Taken(start, range)),
             bytes_delta |-> b + SizeOf(Taken(start, range), Closed(range))]
    BY <1>2, <1>3, <1>4, CheckpointLoopComputes
<1>6. ReplayLoop(start, bound, kept, evs, b) = CheckpointLoop(loop, range)
    BY <1>1, <1>4 DEF ReplayLoop
<1>7. With(kept, Taken(start, range)) = replay_and_checkpoint(start, bound, kept, evs)
    BY <1>1 DEF With, Taken, replay_and_checkpoint
<1>8. SizeOf(Taken(start, range), Closed(range)) = ReplayDelta(start, bound, evs)
    BY <1>1 DEF ReplayDelta, Taken
<1>9. SizeOf(Taken(start, range), Closed(range)) \in Int
    BY <1>2, TakenType
<1>10. QED BY <1>5, <1>6, <1>7, <1>8, <1>9

LEMMA FastEventLoops ==
    ASSUME TypeOK, usage \in Int, NEW k \in EventKeys, k \notin events,
           ApplyEventWithMemory(k), \A j \in events : KeyLess(j, k)
    PROVE  Outcome(ApplyEventLoops(k)) /\ usage' \in Int
<1> DEFINE stored == events \cup {k}
           bound  == BoundAtLast(DOMAIN checkpoints)
           range  == AfterBound(bound, stored)
           start  == ReplayStart(base_snapshot, checkpoints, bound)
           snap   == Replay(start, range)
<1>1. /\ EventSet(events) /\ CheckpointMap(checkpoints)
      /\ base_snapshot \in Snapshots /\ k \in ContimeKeys
    BY TypeParts, HistoryAssumption
<1>2. EventSet(stored) /\ EventSet(range)
    <2>1. EventSet(stored)
        BY <1>1, FS_Singleton, FS_Union DEF EventSet
    <2>2. QED BY <2>1, AfterBoundType
<1>3. start \in Snapshots
    BY <1>1, ReplayStartType
<1>4. FastLoop(start, range) = snap /\ Size(snap) \in Int
    BY <1>2, <1>3, FastLoopComputes, ReplayType, SizeType
<1>5. /\ checkpoints' = FastPath(k, base_snapshot, checkpoints, stored)
      /\ events' = stored
      /\ usage' = usage + EventSize + FastDelta
    <2>1. \A j \in events : ~KeyLess(k, j)
        <3> SUFFICES ASSUME NEW j \in events, KeyLess(k, j) PROVE FALSE
            OBVIOUS
        <3>1. j \in ContimeKeys /\ KeyLess(j, k)
            BY <1>1 DEF EventSet
        <3>2. QED BY <1>1, <3>1, KeyLessTransitive, KeyLessIrreflexive
    <2>2. checkpoints' = apply_event_in_place(k, base_snapshot, checkpoints, events)
        BY DEF ApplyEventWithMemory, apply_event
    <2>3. QED BY <2>1, <2>2 DEF ApplyEventWithMemory, apply_event, apply_event_in_place
<1>6. FastDelta = IF Cardinality(range) % CheckpointInterval = 0 THEN Size(snap) ELSE 0
    BY <1>5 DEF FastDelta
<1>7. ApplyEventLoops(k)
          = IF Cardinality(range) % CheckpointInterval = 0
            THEN [checkpoints |-> Put(checkpoints, k, snap),
                  bytes_delta |-> EventSize + Size(snap)]
            ELSE [checkpoints |-> checkpoints, bytes_delta |-> EventSize]
    BY <1>4 DEF ApplyEventLoops
<1>8. FastPath(k, base_snapshot, checkpoints, stored)
          = IF Cardinality(range) % CheckpointInterval = 0
            THEN Put(checkpoints, k, snap) ELSE checkpoints
    BY DEF FastPath, Put
<1>9. EventSize \in Int
    BY MemoryAssumption
<1> HIDE DEF stored, range, snap
<1>10. PICK z \in Int : z = Size(snap)
    BY <1>4
<1>11. CASE Cardinality(range) % CheckpointInterval = 0
    <2>1. usage' = usage + EventSize + z
        BY <1>5, <1>6, <1>10, <1>11
    <2>2. ApplyEventLoops(k).bytes_delta = EventSize + z
          /\ ApplyEventLoops(k).checkpoints = checkpoints'
        BY <1>5, <1>7, <1>8, <1>10, <1>11
    <2>3. usage + EventSize + z = usage + (EventSize + z) /\ usage + EventSize + z \in Int
        BY ONLY <1>9, usage \in Int, z \in Int
    <2>4. QED BY <2>1, <2>2, <2>3 DEF Outcome
<1>12. CASE Cardinality(range) % CheckpointInterval # 0
    <2>1. usage' = usage + EventSize + 0
        BY <1>5, <1>6, <1>12
    <2>2. ApplyEventLoops(k).bytes_delta = EventSize
          /\ ApplyEventLoops(k).checkpoints = checkpoints'
        BY <1>5, <1>7, <1>8, <1>12
    <2>3. usage + EventSize + 0 = usage + EventSize /\ usage + EventSize + 0 \in Int
        BY ONLY <1>9, usage \in Int
    <2>4. QED BY <2>1, <2>2, <2>3 DEF Outcome
<1>13. QED BY <1>11, <1>12

LEMMA SlowEventLoops ==
    ASSUME TypeOK, usage \in Int, NEW k \in EventKeys, k \notin events,
           ApplyEventWithMemory(k), ~\A j \in events : KeyLess(j, k)
    PROVE  Outcome(ApplyEventLoops(k)) /\ usage' \in Int
<1> DEFINE stored == events \cup {k}
           kept   == DropFrom(checkpoints, k)
           bound  == BoundAtLast(DOMAIN kept)
           start  == ReplayStart(base_snapshot, kept, bound)
           gone   == SizeOf(checkpoints, Stale(k))
           gain   == ReplayDelta(start, bound, stored)
           b      == EventSize + (0 - gone)
<1>1. /\ EventSet(events) /\ CheckpointMap(checkpoints)
      /\ base_snapshot \in Snapshots /\ k \in ContimeKeys
    BY TypeParts, HistoryAssumption
<1>2. EventSet(stored)
    BY <1>1, FS_Singleton, FS_Union DEF EventSet
<1>3. CheckpointMap(kept) /\ DOMAIN kept = DOMAIN checkpoints \ Stale(k)
      /\ \A c \in DOMAIN kept : kept[c] = checkpoints[c]
    BY <1>1, DropFromType DEF Stale
<1>4. start \in Snapshots
    BY <1>1, <1>3, ReplayStartType
<1>5. RemoveStale(k) = [checkpoints |-> kept, bytes_delta |-> 0 - gone] /\ gone \in Int
    BY <1>1, RemoveStaleComputes
<1>6. PICK y \in Int : y = gone
    BY <1>5
<1>7. EventSize \in Int
    BY MemoryAssumption
<1>8. b = EventSize + (0 - y) /\ b \in Int
    BY <1>6, <1>7
<1>9. /\ ReplayLoop(start, bound, kept, stored, b).checkpoints
             = replay_and_checkpoint(start, bound, kept, stored)
      /\ ReplayLoop(start, bound, kept, stored, b).bytes_delta = b + gain
      /\ gain \in Int
    <2> HIDE DEF b, start, bound, kept, stored
    <2>1. QED BY <1>2, <1>3, <1>4, <1>8, ReplayLoopComputes DEF gain
<1>10. ApplyEventLoops(k) = ReplayLoop(start, bound, kept, stored, b)
    BY <1>5 DEF ApplyEventLoops
<1>11. /\ checkpoints' = SlowPath(k, base_snapshot, checkpoints, stored)
       /\ events' = stored
       /\ usage' = usage + EventSize + SlowDelta(k)
    <2>1. ~\A j \in events : ~KeyLess(k, j)
        <3>1. PICK j \in events : ~KeyLess(j, k)
            OBVIOUS
        <3>2. j \in ContimeKeys /\ j # k
            BY <1>1 DEF EventSet
        <3>3. QED BY <1>1, <3>1, <3>2, KeyLessTotal
    <2>2. checkpoints' = apply_event_in_place(k, base_snapshot, checkpoints, events)
        BY DEF ApplyEventWithMemory, apply_event
    <2>3. QED BY <2>1, <2>2 DEF ApplyEventWithMemory, apply_event, apply_event_in_place
<1>12. start = ReplayStart(base_snapshot, checkpoints, bound)
    <2>1. EventSet(DOMAIN kept)
        BY <1>3, CheckpointDomain
    <2>2. CASE DOMAIN kept = {}
        BY <2>1, <2>2, BoundAtLastIsLast DEF ReplayStart
    <2>3. CASE DOMAIN kept # {}
        <3>1. PICK c \in DOMAIN kept : bound = {c} /\ LastKey(bound) = c
            BY <2>1, <2>3, BoundAtLastIsLast
        <3>2. kept[c] = checkpoints[c]
            BY <1>3
        <3> HIDE DEF bound, kept
        <3>3. QED BY <3>1, <3>2 DEF ReplayStart
    <2>4. QED BY <2>2, <2>3
<1>13. SlowDelta(k) = gain - gone
    <2>1. bound = BoundAtLast(DOMAIN checkpoints \ Stale(k))
        BY <1>3
    <2>2. QED BY <1>11, <1>12, <2>1 DEF SlowDelta
<1>14. checkpoints' = ApplyEventLoops(k).checkpoints
    BY <1>9, <1>10, <1>11 DEF SlowPath
<1>15. PICK x \in Int : x = gain
    BY <1>9
<1> HIDE DEF b, gone, gain
<1>16. usage' = usage + EventSize + (x - y)
    BY <1>6, <1>11, <1>13, <1>15
<1>17. ApplyEventLoops(k).bytes_delta = (EventSize + (0 - y)) + x
    BY <1>8, <1>9, <1>10, <1>15
<1>18. /\ usage + EventSize + (x - y) = usage + ((EventSize + (0 - y)) + x)
       /\ usage + EventSize + (x - y) \in Int
    BY ONLY <1>7, usage \in Int, x \in Int, y \in Int
<1>19. QED BY <1>14, <1>16, <1>17, <1>18 DEF Outcome

LEMMA SnapshotLoops ==
    ASSUME TypeOK, usage \in Int, NEW id, NEW t \in SnapshotTimes, NEW p \in Payloads,
           ApplySnapshotWithMemory(id, t, p)
    PROVE  Outcome(ApplySnapshotLoops(t, p)) /\ usage' \in Int
<1> DEFINE key       == Key(t, SnapshotId)
           kept      == DropFrom(checkpoints, key)
           auth      == Fresh(p, {key}, t)
           corrected == [k \in DOMAIN kept \cup {key} |->
                            IF k = key THEN auth ELSE kept[k]]
           gone      == SizeOf(checkpoints, Stale(key))
           gain      == ReplayDelta(auth, {key}, events)
           b         == (0 - gone) + Size(auth)
<1>1. /\ checkpoints' = replay_and_checkpoint(auth, {key}, corrected, events)
      /\ usage' = usage - gone + Size(auth) + gain
    BY DEF ApplySnapshotWithMemory, apply_snapshot
<1>2. EventSet(events) /\ CheckpointMap(checkpoints)
    BY TypeParts
<1>3. key \in ContimeKeys /\ auth \in Snapshots
    BY SnapshotKeyType, FreshType, HistoryAssumption
<1>4. CheckpointMap(corrected)
    BY <1>2, CorrectedType, HistoryAssumption
<1>5. RemoveStale(key) = [checkpoints |-> kept, bytes_delta |-> 0 - gone] /\ gone \in Int
    BY <1>2, RemoveStaleComputes
<1>6. Put(kept, key, auth) = corrected
    BY DEF Put
<1>7. PICK y \in Int : y = gone
    BY <1>5
<1>8. PICK z \in Int : z = Size(auth)
    BY <1>3, SizeType
<1>9. b = (0 - y) + z /\ b \in Int
    BY <1>7, <1>8
<1>10. ApplySnapshotLoops(t, p) = ReplayLoop(auth, {key}, corrected, events, b)
    BY <1>5, <1>6 DEF ApplySnapshotLoops
<1> HIDE DEF key, kept, auth, corrected, gone, b
<1>11. /\ ReplayLoop(auth, {key}, corrected, events, b).checkpoints
              = replay_and_checkpoint(auth, {key}, corrected, events)
       /\ ReplayLoop(auth, {key}, corrected, events, b).bytes_delta = b + gain
       /\ gain \in Int
    BY <1>2, <1>3, <1>4, <1>9, ReplayLoopComputes DEF gain
<1>12. PICK x \in Int : x = gain
    BY <1>11
<1> HIDE DEF gain
<1>13. usage' = usage - y + z + x
    BY <1>1, <1>7, <1>8, <1>12
<1>14. ApplySnapshotLoops(t, p).bytes_delta = ((0 - y) + z) + x
    BY <1>9, <1>10, <1>11, <1>12
<1>15. /\ usage - y + z + x = usage + (((0 - y) + z) + x)
       /\ usage - y + z + x \in Int
    BY ONLY usage \in Int, x \in Int, y \in Int, z \in Int
<1>16. checkpoints' = ApplySnapshotLoops(t, p).checkpoints
    BY <1>1, <1>10, <1>11
<1>17. QED BY <1>13, <1>14, <1>15, <1>16 DEF Outcome

LEMMA QueryLoopAnswers ==
    ASSUME TypeOK, NEW t
    PROVE  AnswerAt(t) = SnapshotAtLoop(t)
<1> DEFINE key   == Key(t, SnapshotId)
           older == {c \in DOMAIN checkpoints : KeyLeq(c, key)}
           bound == BoundAtLast(older)
           range == {k \in AfterBound(bound, events) : KeyLess(k, key)}
           start == ReplayStart(base_snapshot, checkpoints, bound)
<1>1. EventSet(events) /\ CheckpointMap(checkpoints) /\ base_snapshot \in Snapshots
    BY TypeParts
<1>2. start \in Snapshots
    BY <1>1, ReplayStartType
<1>3. EventSet(range)
    BY <1>1, AfterBoundType, EventSubset
<1>4. /\ AnswerAt(t) = [Replay(start, range) EXCEPT !.time = t]
      /\ SnapshotAtLoop(t) = set_time(QueryLoop(start, range), t)
    BY DEF AnswerAt, SnapshotAtLoop
<1> HIDE DEF start, range
<1>5. QueryLoop(start, range) = [Replay(start, range) EXCEPT !.time = start.time]
    BY <1>2, <1>3, QueryLoopComputes
<1>6. Replay(start, range) \in Snapshots
    BY <1>2, <1>3, ReplayType
<1>7. QED BY <1>4, <1>5, <1>6 DEF set_time, Snapshots

LEMMA AdvanceKeepsInt ==
    ASSUME TypeOK, usage \in Int, NEW d, AdvanceWithMemory(d)
    PROVE  usage' \in Int
<1>1. PICK x \in Int : x = EventSize * Cardinality(events \ events')
    <2>1. EventSet(events \ events')
        BY TypeParts, EventSubset
    <2>2. Cardinality(events \ events') \in Nat
        BY <2>1, FS_CardinalityType DEF EventSet
    <2>3. \A a, b \in Nat : a * b \in Int
        OBVIOUS
    <2>4. QED BY <2>2, <2>3, MemoryAssumption
<1>2. PICK y \in Int : y = SizeOf(checkpoints, DOMAIN checkpoints \ DOMAIN checkpoints')
    <2>1. CheckpointMap(checkpoints)
        BY TypeParts
    <2>2. PICK gone : gone = DOMAIN checkpoints \ DOMAIN checkpoints'
        OBVIOUS
    <2>3. IsFiniteSet(gone) /\ \A c \in gone : checkpoints[c] \in Snapshots
        BY <2>1, <2>2, FS_Subset DEF CheckpointMap
    <2>4. SizeOf(checkpoints, gone) \in Int
        BY <2>3, SizeOfType
    <2>5. QED BY <2>2, <2>4
<1>3. usage' = usage - x - y
    BY <1>1, <1>2 DEF AdvanceWithMemory
<1>4. QED BY ONLY <1>3, usage \in Int, x \in Int, y \in Int

LEMMA LoopsStep ==
    ASSUME TypeOK, usage \in Int, [MemoryNext]_memoryVars
    PROVE  /\ TypeOK' /\ usage' \in Int
           /\ \A k \in events' \ events : Outcome(ApplyEventLoops(k))
<1>1. TypeOK'
    <2>1. [Next]_vars
        BY DEF MemoryNext, memoryVars, Next, AdvanceWithMemory, ApplyEventWithMemory,
               ApplySnapshotWithMemory
    <2>2. QED BY <2>1, NextType
<1> DEFINE Good == usage' \in Int /\ \A k \in events' \ events : Outcome(ApplyEventLoops(k))
<1>2. ASSUME NEW d \in AdvanceSteps, AdvanceWithMemory(d) PROVE Good
    <2>1. events' \ events = {}
        BY <1>2 DEF AdvanceWithMemory, advance
    <2>2. QED BY <1>2, <2>1, AdvanceKeepsInt
<1>3. ASSUME NEW k \in EventKeys, ApplyEventWithMemory(k) PROVE Good
    <2>1. events' = events \cup {k}
        BY <1>3 DEF ApplyEventWithMemory, apply_event
    <2>2. CASE k \in events
        BY <1>3, <2>1, <2>2 DEF ApplyEventWithMemory
    <2>3. CASE k \notin events
        <3>1. events' \ events = {k}
            BY <2>1, <2>3
        <3>2. Outcome(ApplyEventLoops(k)) /\ usage' \in Int
            BY <1>3, <2>3, FastEventLoops, SlowEventLoops
        <3>3. QED BY <3>1, <3>2
    <2>4. QED BY <2>2, <2>3
<1>4. ASSUME NEW id \in SnapshotIds, NEW t \in SnapshotTimes, NEW p \in Payloads,
             ApplySnapshotWithMemory(id, t, p)
      PROVE  Good
    <2>1. events' \ events = {}
        BY <1>4 DEF ApplySnapshotWithMemory, apply_snapshot
    <2>2. QED BY <1>4, <2>1, SnapshotLoops
<1>5. ASSUME \/ \E id \in SnapshotIds : apply_snapshot_foreign(id)
             \/ \E t \in QueryTimes : snapshot_at(t)
             \/ \E t \in QueryTimes : snapshot_at_panics(t)
             \/ recv
             \/ UNCHANGED vars,
             UNCHANGED usage
      PROVE  Good
    <2>1. events' \ events = {}
        BY <1>5 DEF vars, apply_snapshot_foreign, snapshot_at, snapshot_at_panics, recv
    <2>2. QED BY <1>5, <2>1
<1>6. Good
    <2> HIDE DEF Good
    <2>1. QED BY <1>2, <1>3, <1>4, <1>5 DEF MemoryNext, memoryVars
<1>7. QED BY <1>1, <1>6

(***************************************************************************)
(* src/apply.rs:8-31 and 42-119, src/history.rs:177-228: iterating over    *)
(* the events one at a time, the code builds the checkpoints, charges the  *)
(* bytes and answers the queries that Apply, HistoryMemory and AnswerAt    *)
(* state for whole ranges, whatever the inputs.                            *)
(***************************************************************************)
THEOREM LoopsAlwaysAgree == MemorySpec => LoopsAgree
<1> DEFINE Typed == TypeOK /\ usage \in Int
<1>1. MemoryInit => Typed
    <2> SUFFICES ASSUME MemoryInit PROVE Typed
        OBVIOUS
    <2>1. TypeOK
        BY InitType DEF MemoryInit
    <2>2. base_snapshot \in Snapshots
        BY <2>1 DEF TypeOK
    <2>3. QED BY <2>1, <2>2, SizeType DEF MemoryInit
<1>2. Typed /\ [MemoryNext]_memoryVars => Typed'
    BY LoopsStep
<1> DEFINE Agree ==
        /\ \A k \in events' \ events : Outcome(ApplyEventLoops(k))
        /\ \A id \in SnapshotIds, t \in SnapshotTimes, p \in Payloads :
              ApplySnapshotWithMemory(id, t, p) => Outcome(ApplySnapshotLoops(t, p))
        /\ \A t \in QueryTimes :
              reply' # reply /\ reply' = {[time |-> t, snapshot |-> AnswerAt(t)]}
                 => AnswerAt(t) = SnapshotAtLoop(t)
<1>3. Typed /\ [MemoryNext]_memoryVars => Agree
    BY LoopsStep, SnapshotLoops, QueryLoopAnswers
<1>4. LoopsAgree <=> [][Agree]_memoryVars
    BY DEF LoopsAgree
<1> HIDE DEF Agree, Typed
<1>5. Typed /\ [MemoryNext]_memoryVars => [Agree]_memoryVars
    BY <1>3
<1>6. QED BY <1>1, <1>2, <1>4, <1>5, PTL DEF MemorySpec
=============================================================================
