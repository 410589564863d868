----------------------- MODULE HistoryTimelineProofs -----------------------
(***************************************************************************)
(* A history that is never advanced implements Timeline, for every set of  *)
(* events, payloads and times and every checkpoint interval, and where its *)
(* checkpoints lie does not depend on the order of arrival.                *)
(***************************************************************************)
EXTENDS HistoryTimeline, HistoryProofs

AllGrown(cps, es, origin) ==
    \A k \in DOMAIN cps : Grown(cps[k], k, UpToIn(es, k), origin, cps)

\* A snapshot replay may start from.
GrownStart(s, bound, es, origin, cps) ==
    /\ s \in Snapshots
    /\ \/ bound = {} /\ s.anchor = {} /\ s.from = origin /\ Unapplied(s)
       \/ \E b \in ContimeKeys :
             bound = {b} /\ Grown(s, b, UpToIn(es, b), origin, cps)

LEMMA AuthoritativeSet ==
    ASSUME NEW cps, CheckpointMap(cps), NEW k
    PROVE  /\ EventSet({a \in AuthoritativeIn(cps) : KeyLeq(a, k)})
           /\ AuthoritativeIn(cps) \in SUBSET DOMAIN cps
           /\ \A a \in AuthoritativeIn(cps) : a \in ContimeKeys
<1>1. AuthoritativeIn(cps) \in SUBSET DOMAIN cps /\ EventSet(DOMAIN cps)
    BY CheckpointDomain DEF AuthoritativeIn
<1>2. {a \in AuthoritativeIn(cps) : KeyLeq(a, k)} \in SUBSET DOMAIN cps
    BY <1>1
<1>3. QED BY <1>1, <1>2, EventSubset DEF EventSet

\* The anchor at k is empty, or the newest authoritative key up to k.
LEMMA AnchorKey ==
    ASSUME NEW cps, CheckpointMap(cps), NEW k
    PROVE  /\ (\A a \in AuthoritativeIn(cps) : ~KeyLeq(a, k)) => AnchorIn(cps, k) = {}
           /\ AnchorIn(cps, k) # {}
                => \E a \in AuthoritativeIn(cps) :
                      /\ AnchorIn(cps, k) = {a} /\ LastKey(AnchorIn(cps, k)) = a
                      /\ KeyLeq(a, k)
           /\ \A a \in AnchorIn(cps, k) : a \in AuthoritativeIn(cps) /\ KeyLeq(a, k)
<1> DEFINE S == {a \in AuthoritativeIn(cps) : KeyLeq(a, k)}
<1>1. EventSet(S) /\ AnchorIn(cps, k) = BoundAtLast(S)
    BY AuthoritativeSet DEF AnchorIn
<1>2. CASE S = {}
    <2>1. BoundAtLast(S) = {}
        BY <1>2 DEF BoundAtLast
    <2>2. QED BY <1>1, <2>1
<1>3. CASE S # {}
    <2>1. PICK a \in S : BoundAtLast(S) = {a} /\ LastKey(BoundAtLast(S)) = a
        BY <1>1, <1>3, BoundAtLastIsLast
    <2>2. QED BY <1>1, <1>3, <2>1
<1>4. QED BY <1>2, <1>3

\* Only the authoritative states up to k matter at k.
LEMMA GrownLocal ==
    ASSUME NEW cps, CheckpointMap(cps), NEW cps2, NEW s, NEW k, NEW scope, NEW origin,
           Grown(s, k, scope, origin, cps),
           \A a : KeyLeq(a, k)
                    => (a \in AuthoritativeIn(cps2) <=> a \in AuthoritativeIn(cps)),
           \A a \in AuthoritativeIn(cps) : KeyLeq(a, k) => cps2[a].from = cps[a].from
    PROVE  Grown(s, k, scope, origin, cps2)
<1>1. AnchorIn(cps2, k) = AnchorIn(cps, k)
    <2>1. {a \in AuthoritativeIn(cps2) : KeyLeq(a, k)}
            = {a \in AuthoritativeIn(cps) : KeyLeq(a, k)}
        OBVIOUS
    <2>2. QED BY <2>1 DEF AnchorIn
<1>2. AnchorIn(cps, k) # {}
        => cps2[LastKey(AnchorIn(cps, k))].from = cps[LastKey(AnchorIn(cps, k))].from
    BY AnchorKey
<1>3. QED BY <1>1, <1>2 DEF Grown

LEMMA ReplayCounts ==
    ASSUME NEW s \in Snapshots, NEW R, EventSet(R)
    PROVE  /\ Replay(s, R).from = s.from
           /\ Replay(s, R).items = s.items + Cardinality(R)
<1>1. CASE R = {}
    <2>1. Cardinality(R) = 0 /\ s.items \in Nat
        BY <1>1, FS_EmptySet DEF Snapshots
    <2>2. QED BY <1>1, <2>1 DEF Replay
<1>2. CASE R # {}
    <2> DEFINE inOrder == s.inOrder /\ \A j \in s.applied, k \in R : KeyLess(j, k)
    <2>1. Replay(s, R) = [s EXCEPT !.applied = s.applied \cup R,
                                   !.items = s.items + Cardinality(R),
                                   !.inOrder = inOrder,
                                   !.time = LastKey(R).time]
        BY <1>2 DEF Replay
    <2> HIDE DEF inOrder
    <2>2. QED BY <2>1 DEF Snapshots
<1>3. QED BY <1>1, <1>2

LEMMA CardinalityOfParts ==
    ASSUME NEW R, EventSet(R), NEW S, EventSet(S), R \cap S = {}
    PROVE  Cardinality(R \cup S) = Cardinality(R) + Cardinality(S)
<1>1. Cardinality(R \cup S) = Cardinality(R) + Cardinality(S) - Cardinality({})
    BY FS_Union DEF EventSet
<1>2. Cardinality({}) = 0 /\ Cardinality(R) \in Nat /\ Cardinality(S) \in Nat
    BY FS_EmptySet, FS_CardinalityType DEF EventSet
<1>3. QED BY <1>1, <1>2

(***************************************************************************)
(* Replaying the events of a scope from a start grows the state at the key.*)
(***************************************************************************)
LEMMA GrownReplay ==
    ASSUME NEW es, EventSet(es), NEW cps, CheckpointMap(cps), NEW origin,
           NEW s, NEW bound, GrownStart(s, bound, es, origin, cps),
           NEW key \in ContimeKeys, \A b \in bound : KeyLeq(b, key),
           \A a \in AuthoritativeIn(cps) :
              KeyLeq(a, key) => \E b \in bound : KeyLeq(a, b),
           NEW scope \in SUBSET es,
           \A e \in es : \A b \in bound : KeyLeq(e, b) => e \in scope
    PROVE  Grown(Replay(s, AfterBound(bound, scope)), key, scope, origin, cps)
<1> DEFINE R == AfterBound(bound, scope)
           r == Replay(s, R)
           anchor == AnchorIn(cps, key)
<1>1. EventSet(scope) /\ EventSet(R) /\ s \in Snapshots
    BY EventSubset, AfterBoundType DEF GrownStart
<1>2. /\ r.anchor = s.anchor /\ r.from = s.from
      /\ r.applied = s.applied \cup R
      /\ r.items = s.items + Cardinality(R)
      /\ s.inOrder /\ (\A j \in s.applied, k \in R : KeyLess(j, k)) => r.inOrder
    BY <1>1, ReplayParts, ReplayCounts
<1>3. s.applied \in SUBSET ContimeKeys /\ R \in SUBSET scope
      /\ (\A e \in R : e \in ContimeKeys) /\ (\A e \in scope : e \in ContimeKeys)
    BY <1>1 DEF Snapshots, EventSet, AfterBound
<1>4. Cardinality(R) \in Nat
    BY <1>1, FS_CardinalityType DEF EventSet
<1> HIDE DEF r, anchor
<1>5. CASE bound = {} /\ s.anchor = {} /\ s.from = origin /\ Unapplied(s)
    <2>1. anchor = {}
        BY <1>5, AnchorKey DEF anchor
    <2>2. R = scope /\ AfterBound({}, scope) = scope
        BY <1>5 DEF AfterBound
    <2>3. r.items = Cardinality(r.applied)
        BY <1>2, <1>4, <1>5 DEF Unapplied
    <2>4. /\ r.anchor = anchor /\ r.from = origin
          /\ r.applied = AfterBound(anchor, scope) /\ r.inOrder
        BY <1>2, <1>5, <2>1, <2>2 DEF Unapplied
    <2>5. Grown(r, key, scope, origin, cps)
        BY <2>1, <2>3, <2>4 DEF Grown, anchor
    <2>6. QED BY <2>5 DEF r
<1>6. ASSUME NEW b \in ContimeKeys, bound = {b},
             Grown(s, b, UpToIn(es, b), origin, cps)
      PROVE  Grown(r, key, scope, origin, cps)
    <2>1. anchor = AnchorIn(cps, b)
        <3>1. \A a \in AuthoritativeIn(cps) : KeyLeq(a, key) <=> KeyLeq(a, b)
            <4> SUFFICES ASSUME NEW a \in AuthoritativeIn(cps)
                         PROVE  KeyLeq(a, key) <=> KeyLeq(a, b)
                OBVIOUS
            <4>1. KeyLeq(a, key) => KeyLeq(a, b)
                BY <1>6
            <4>2. a \in ContimeKeys /\ KeyLeq(b, key)
                BY <1>6, AuthoritativeSet
            <4>3. QED BY <4>1, <4>2, KeyLeqTransitive
        <3>2. {a \in AuthoritativeIn(cps) : KeyLeq(a, key)}
                = {a \in AuthoritativeIn(cps) : KeyLeq(a, b)}
            BY <3>1
        <3>3. QED BY <3>2 DEF anchor, AnchorIn
    <2>2. \A a \in anchor : a \in ContimeKeys /\ KeyLeq(a, b)
        BY <2>1, AnchorKey, AuthoritativeSet
    <2>3. /\ s.anchor = anchor /\ s.applied = AfterBound(anchor, UpToIn(es, b))
          /\ s.from = IF anchor = {} THEN origin ELSE cps[LastKey(anchor)].from
          /\ s.inOrder /\ s.items = Cardinality(s.applied)
        BY <1>6, <2>1 DEF Grown
    <2>4. \A j \in s.applied : KeyLeq(j, b)
        BY <2>3 DEF AfterBound, UpToIn
    <2>5. \A k \in R : KeyLess(b, k)
        BY <1>6 DEF AfterBound
    <2>6. \A j \in s.applied, k \in R : KeyLess(j, k)
        BY <1>3, <2>4, <2>5, KeyLeqLess
    <2>7. s.applied \cup R = AfterBound(anchor, scope)
        <3>1. ASSUME NEW e \in AfterBound(anchor, scope) PROVE e \in s.applied \cup R
            <4>1. e \in scope /\ e \in es /\ e \in ContimeKeys /\ \A a \in anchor : KeyLess(a, e)
                BY <1>3 DEF AfterBound
            <4>2. CASE KeyLess(b, e)
                BY <1>6, <4>1, <4>2 DEF AfterBound
            <4>3. CASE ~KeyLess(b, e)
                <5>1. KeyLeq(e, b)
                    BY <4>1, <4>3, KeyLessTotal DEF KeyLeq
                <5>2. QED BY <2>3, <4>1, <5>1 DEF AfterBound, UpToIn
            <4>4. QED BY <4>2, <4>3
        <3>2. ASSUME NEW e \in s.applied PROVE e \in AfterBound(anchor, scope)
            BY <1>6, <2>3 DEF AfterBound, UpToIn
        <3>3. ASSUME NEW e \in R PROVE e \in AfterBound(anchor, scope)
            BY <1>3, <2>2, <2>5, KeyLeqLess DEF AfterBound
        <3>4. QED BY <3>1, <3>2, <3>3
    <2>8. r.items = Cardinality(r.applied)
        <3>1. s.applied \cap R = {}
            BY <1>3, <2>6, KeyLessIrreflexive
        <3>2. EventSet(s.applied)
            <4>1. s.applied \in SUBSET es
                BY <2>3 DEF AfterBound, UpToIn
            <4>2. QED BY <4>1, EventSubset
        <3>3. QED BY <1>1, <1>2, <2>3, <3>1, <3>2, CardinalityOfParts
    <2>9. QED BY <1>2, <2>3, <2>6, <2>7, <2>8 DEF Grown, anchor
<1>7. QED BY <1>5, <1>6 DEF GrownStart, r

LEMMA StartGrown ==
    ASSUME NEW base \in Snapshots, base.anchor = {}, Unapplied(base),
           NEW cps, CheckpointMap(cps), NEW es, AllGrown(cps, es, base.from),
           NEW S \in SUBSET DOMAIN cps
    PROVE  GrownStart(ReplayStart(base, cps, BoundAtLast(S)), BoundAtLast(S),
                      es, base.from, cps)
<1>1. EventSet(S)
    BY CheckpointDomain, EventSubset
<1>2. CASE S = {}
    BY <1>1, <1>2, BoundAtLastIsLast DEF ReplayStart, GrownStart
<1>3. CASE S # {}
    <2>1. PICK c \in S : BoundAtLast(S) = {c} /\ LastKey(BoundAtLast(S)) = c
        BY <1>1, <1>3, BoundAtLastIsLast
    <2>2. ReplayStart(base, cps, BoundAtLast(S)) = cps[c]
        BY <2>1 DEF ReplayStart
    <2>3. c \in ContimeKeys /\ cps[c] \in Snapshots
        BY DEF CheckpointMap
    <2>4. Grown(cps[c], c, UpToIn(es, c), base.from, cps)
        BY DEF AllGrown
    <2>5. QED BY <2>1, <2>2, <2>3, <2>4 DEF GrownStart
<1>4. QED BY <1>2, <1>3

\* Checkpoints taken during a replay are never authoritative.
LEMMA ExtendGrown ==
    ASSUME NEW es, EventSet(es), NEW cps, CheckpointMap(cps), NEW origin,
           AllGrown(cps, es, origin),
           NEW s, NEW bound, GrownStart(s, bound, es, origin, cps),
           Bounded(cps, bound), bound \in SUBSET ContimeKeys,
           NEW closed, NEW result, Extends(result, cps, closed, s, bound, es)
    PROVE  /\ AllGrown(result, es, origin)
           /\ AuthoritativeIn(result) = AuthoritativeIn(cps)
           /\ \A c \in DOMAIN cps : result[c] = cps[c]
<1>1. /\ closed \in SUBSET es /\ closed \in SUBSET ContimeKeys
      /\ \A k \in closed : \A b \in bound : KeyLess(b, k)
      /\ DOMAIN result = DOMAIN cps \cup closed
      /\ DOMAIN cps \in SUBSET ContimeKeys
    BY DEF AfterBound, EventSet, Extends, CheckpointMap
<1>2. \A k \in closed : k \notin DOMAIN cps
    <2> SUFFICES ASSUME NEW k \in closed, k \in DOMAIN cps PROVE FALSE
        OBVIOUS
    <2>1. PICK b \in bound : KeyLeq(k, b)
        BY DEF Bounded
    <2>2. QED BY <1>1, <2>1, KeyLessAntisymmetric
<1>3. \A c \in DOMAIN cps : result[c] = cps[c]
    BY <1>1, <1>2 DEF Extends
<1>4. ASSUME NEW k \in closed
      PROVE  Grown(result[k], k, UpToIn(es, k), origin, cps)
    <2> DEFINE scope == UpToIn(es, k)
    <2>1. AfterBound(bound, scope) = {j \in AfterBound(bound, es) : KeyLeq(j, k)}
        BY DEF AfterBound, UpToIn
    <2>2. result[k] = Replay(s, AfterBound(bound, scope))
        BY <1>1, <2>1 DEF Extends
    <2>3. \A b \in bound : KeyLeq(b, k)
        BY <1>1 DEF KeyLeq
    <2>4. \A a \in AuthoritativeIn(cps) : \E b \in bound : KeyLeq(a, b)
        BY AuthoritativeSet DEF Bounded
    <2>5. \A e \in es : \A b \in bound : KeyLeq(e, b) => e \in scope
        BY <1>1, <2>3, KeyLeqTransitive DEF UpToIn, EventSet
    <2>6. scope \in SUBSET es /\ k \in ContimeKeys
        BY <1>1 DEF UpToIn
    <2> HIDE DEF scope
    <2>7. Grown(Replay(s, AfterBound(bound, scope)), k, scope, origin, cps)
        BY <2>3, <2>4, <2>5, <2>6, GrownReplay
    <2>8. QED BY <2>2, <2>7 DEF scope
<1>5. \A k \in closed : k \notin result[k].anchor
    BY <1>2, <1>4, AnchorKey, AuthoritativeSet DEF Grown
<1>6. AuthoritativeIn(result) = AuthoritativeIn(cps)
    BY <1>1, <1>3, <1>5 DEF AuthoritativeIn
<1>7. \A a \in AuthoritativeIn(cps) : result[a].from = cps[a].from
    BY <1>3, AuthoritativeSet
<1>8. ASSUME NEW k \in DOMAIN result
      PROVE  Grown(result[k], k, UpToIn(es, k), origin, result)
    <2>1. Grown(result[k], k, UpToIn(es, k), origin, cps)
        BY <1>1, <1>3, <1>4 DEF AllGrown
    <2>2. QED BY <1>6, <1>7, <2>1, GrownLocal
<1>9. QED BY <1>3, <1>6, <1>8 DEF AllGrown

\* Dropping the checkpoints at or after a key, and adding that key to the
\* events or not, leaves the others as they are.
LEMMA DropFromGrown ==
    ASSUME NEW es \in SUBSET ContimeKeys, NEW cps, CheckpointMap(cps), NEW origin,
           AllGrown(cps, es, origin), NEW key \in ContimeKeys,
           NEW es2, es \subseteq es2, es2 \subseteq es \cup {key}
    PROVE  /\ AllGrown(DropFrom(cps, key), es2, origin)
           /\ AuthoritativeIn(DropFrom(cps, key))
                = {a \in AuthoritativeIn(cps) : KeyLess(a, key)}
<1> DEFINE kept == DropFrom(cps, key)
<1>1. /\ DOMAIN kept = {c \in DOMAIN cps : KeyLess(c, key)}
      /\ \A c \in DOMAIN kept : kept[c] = cps[c]
    BY DropFromType
<1> HIDE DEF kept
<1>2. AuthoritativeIn(kept) = {a \in AuthoritativeIn(cps) : KeyLess(a, key)}
    BY <1>1 DEF AuthoritativeIn
<1>3. ASSUME NEW k \in DOMAIN kept
      PROVE  Grown(kept[k], k, UpToIn(es2, k), origin, kept)
    <2>1. k \in DOMAIN cps /\ k \in ContimeKeys /\ KeyLess(k, key) /\ kept[k] = cps[k]
        BY <1>1 DEF CheckpointMap
    <2>2. UpToIn(es2, k) = UpToIn(es, k)
        BY <2>1, KeyLessAntisymmetric DEF UpToIn
    <2>3. \A a \in AuthoritativeIn(cps) : KeyLeq(a, k) => KeyLess(a, key)
        BY <2>1, AuthoritativeSet, KeyLeqLess
    <2>4. \A a : KeyLeq(a, k)
                   => (a \in AuthoritativeIn(kept) <=> a \in AuthoritativeIn(cps))
        BY <1>2, <2>3
    <2>5. \A a \in AuthoritativeIn(cps) : KeyLeq(a, k) => kept[a].from = cps[a].from
        BY <1>1, <2>3 DEF AuthoritativeIn
    <2>6. Grown(cps[k], k, UpToIn(es, k), origin, cps)
        BY <2>1 DEF AllGrown
    <2>7. Grown(cps[k], k, UpToIn(es, k), origin, kept)
        BY <2>4, <2>5, <2>6, GrownLocal
    <2>8. QED BY <2>1, <2>2, <2>7
<1>4. QED BY <1>2, <1>3 DEF AllGrown, kept

LEMMA BoundOfAll ==
    ASSUME NEW cps, CheckpointMap(cps)
    PROVE  /\ Bounded(cps, BoundAtLast(DOMAIN cps))
           /\ BoundAtLast(DOMAIN cps) \in SUBSET DOMAIN cps
           /\ BoundAtLast(DOMAIN cps) \in SUBSET ContimeKeys
<1>1. EventSet(DOMAIN cps)
    BY CheckpointDomain
<1>2. QED BY <1>1, BoundAtLastIsLast DEF Bounded, EventSet

(***************************************************************************)
(* A new event leaves exactly the authoritative states before it, and every*)
(* checkpoint grown from the events then stored.                           *)
(***************************************************************************)
KeepsBefore(result, cps, key) ==
    /\ AuthoritativeIn(result) = {a \in AuthoritativeIn(cps) : KeyLess(a, key)}
    /\ \A a \in AuthoritativeIn(result) : result[a] = cps[a]

LEMMA SlowPathGrown ==
    ASSUME NEW es, EventSet(es), NEW cps, CheckpointMap(cps),
           NEW base \in Snapshots, base.anchor = {}, Unapplied(base),
           AllGrown(cps, es, base.from), NEW key \in ContimeKeys
    PROVE  LET result == SlowPath(key, base, cps, es \cup {key})
           IN  /\ AllGrown(result, es \cup {key}, base.from)
               /\ KeepsBefore(result, cps, key)
<1> DEFINE es2    == es \cup {key}
           kept   == DropFrom(cps, key)
           bound  == BoundAtLast(DOMAIN kept)
           start  == ReplayStart(base, kept, bound)
           closed == Closed(AfterBound(bound, es2))
           result == replay_and_checkpoint(start, bound, kept, es2)
<1>1. EventSet(es2) /\ es \in SUBSET ContimeKeys
    BY FS_AddElement DEF EventSet
<1>2. /\ CheckpointMap(kept) /\ AllGrown(kept, es2, base.from)
      /\ AuthoritativeIn(kept) = {a \in AuthoritativeIn(cps) : KeyLess(a, key)}
      /\ \A c \in DOMAIN kept : kept[c] = cps[c]
    <2>1. CheckpointMap(kept) /\ \A c \in DOMAIN kept : kept[c] = cps[c]
        BY DropFromType
    <2>2. es \subseteq es2 /\ es2 \subseteq es \cup {key}
        OBVIOUS
    <2> HIDE DEF kept, es2
    <2>3. QED BY <1>1, <2>1, <2>2, DropFromGrown DEF kept
<1> HIDE DEF kept, es2
<1>3. GrownStart(start, bound, es2, base.from, kept)
    BY <1>2, StartGrown
<1>4. Bounded(kept, bound) /\ bound \in SUBSET ContimeKeys
    BY <1>2, BoundOfAll
<1>5. Extends(result, kept, closed, start, bound, es2)
    BY DEF replay_and_checkpoint, Extends, Closed
<1> HIDE DEF bound, start, closed, result
<1>6. /\ AllGrown(result, es2, base.from)
      /\ AuthoritativeIn(result) = AuthoritativeIn(kept)
      /\ \A c \in DOMAIN kept : result[c] = kept[c]
    BY <1>1, <1>2, <1>3, <1>4, <1>5, ExtendGrown
<1>7. KeepsBefore(result, cps, key)
    BY <1>2, <1>6 DEF KeepsBefore, AuthoritativeIn
<1>8. QED BY <1>6, <1>7 DEF SlowPath, result, start, bound, kept, es2

LEMMA FastPathGrown ==
    ASSUME NEW es, EventSet(es), NEW cps, CheckpointMap(cps),
           NEW base \in Snapshots, base.anchor = {}, Unapplied(base),
           AllGrown(cps, es, base.from), NEW key \in ContimeKeys,
           key \notin es, \A k \in es : ~KeyLess(key, k),
           \A c \in DOMAIN cps : \E e \in es : KeyLeq(c, e)
    PROVE  LET result == FastPath(key, base, cps, es \cup {key})
           IN  /\ AllGrown(result, es \cup {key}, base.from)
               /\ KeepsBefore(result, cps, key)
<1> DEFINE es2   == es \cup {key}
           bound == BoundAtLast(DOMAIN cps)
           start == ReplayStart(base, cps, bound)
           range == AfterBound(bound, es2)
           result == FastPath(key, base, cps, es2)
<1>1. EventSet(es2) /\ es \in SUBSET ContimeKeys /\ es2 \in SUBSET ContimeKeys
    BY FS_AddElement DEF EventSet
<1>2. \A e \in es : KeyLess(e, key)
    BY <1>1, KeyLessTotal
<1>3. \A c \in DOMAIN cps : KeyLess(c, key)
    BY <1>1, <1>2, KeyLeqLess DEF CheckpointMap
<1>4. DropFrom(cps, key) = cps
    BY <1>3 DEF DropFrom, CheckpointMap
<1>5. /\ AllGrown(cps, es2, base.from)
      /\ AuthoritativeIn(cps) = {a \in AuthoritativeIn(cps) : KeyLess(a, key)}
    BY <1>1, <1>4, DropFromGrown
<1>6. GrownStart(start, bound, es2, base.from, cps)
    BY <1>5, StartGrown
<1>7. /\ Bounded(cps, bound) /\ bound \in SUBSET DOMAIN cps
      /\ bound \in SUBSET ContimeKeys
    BY BoundOfAll
<1>8. key \in range /\ range = {j \in range : KeyLeq(j, key)}
    BY <1>2, <1>3, <1>7 DEF AfterBound, KeyLeq
<1>9. CASE Cardinality(range) % CheckpointInterval = 0
    <2>1. result = [k \in DOMAIN cps \cup {key} |->
                       IF k = key THEN Replay(start, range) ELSE cps[k]]
        BY <1>9 DEF FastPath
    <2>2. Extends(result, cps, {key}, start, bound, es2)
        BY <1>8, <2>1 DEF Extends
    <2> HIDE DEF result, es2, bound, start
    <2>3. /\ AllGrown(result, es2, base.from)
          /\ AuthoritativeIn(result) = AuthoritativeIn(cps)
          /\ \A c \in DOMAIN cps : result[c] = cps[c]
        BY <1>1, <1>5, <1>6, <1>7, <2>2, ExtendGrown
    <2>4. KeepsBefore(result, cps, key)
        BY <1>5, <2>3 DEF KeepsBefore, AuthoritativeIn
    <2>5. QED BY <2>3, <2>4 DEF result, es2
<1>10. CASE Cardinality(range) % CheckpointInterval # 0
    <2>1. result = cps
        BY <1>10 DEF FastPath
    <2>2. QED BY <1>5, <2>1 DEF KeepsBefore
<1>11. QED BY <1>9, <1>10

LEMMA ApplyEventGrown ==
    ASSUME NEW es, EventSet(es), NEW cps, CheckpointMap(cps),
           NEW base \in Snapshots, base.anchor = {}, Unapplied(base),
           AllGrown(cps, es, base.from), NEW key \in ContimeKeys, key \notin es,
           \A c \in DOMAIN cps : \E e \in es : KeyLeq(c, e)
    PROVE  LET result == apply_event_in_place(key, base, cps, es)
           IN  /\ AllGrown(result, es \cup {key}, base.from)
               /\ KeepsBefore(result, cps, key)
               /\ DOMAIN result \in SUBSET (DOMAIN cps \cup es \cup {key})
<1> DEFINE es2    == es \cup {key}
           result == apply_event_in_place(key, base, cps, es)
<1>1. CASE \A k \in es : ~KeyLess(key, k)
    <2>1. result = FastPath(key, base, cps, es2)
        BY <1>1 DEF apply_event_in_place
    <2>2. DOMAIN result \in SUBSET (DOMAIN cps \cup es2)
        BY <2>1 DEF FastPath
    <2>3. QED BY <1>1, <2>1, <2>2, FastPathGrown
<1>2. CASE ~\A k \in es : ~KeyLess(key, k)
    <2>1. result = SlowPath(key, base, cps, es2)
        BY <1>2 DEF apply_event_in_place
    <2>2. DOMAIN result \in SUBSET (DOMAIN cps \cup es2)
        BY <2>1 DEF SlowPath, replay_and_checkpoint, DropFrom, Closed, AfterBound
    <2>3. QED BY <2>1, <2>2, SlowPathGrown
<1>3. QED BY <1>1, <1>2

\* An authoritative snapshot replaces whatever lies at or after its key.
LEMMA CorrectGrown ==
    ASSUME NEW es, EventSet(es), NEW cps, CheckpointMap(cps), NEW origin,
           AllGrown(cps, es, origin), NEW key \in ContimeKeys,
           NEW auth \in Snapshots, auth.anchor = {key}, Unapplied(auth),
           NEW corrected, CheckpointMap(corrected),
           DOMAIN corrected = DOMAIN DropFrom(cps, key) \cup {key},
           corrected[key] = auth,
           \A k \in DOMAIN DropFrom(cps, key) : corrected[k] = DropFrom(cps, key)[k],
           NEW result, result = replay_and_checkpoint(auth, {key}, corrected, es)
    PROVE  /\ AllGrown(result, es, origin)
           /\ AuthoritativeIn(result)
                = {a \in AuthoritativeIn(cps) : KeyLess(a, key)} \cup {key}
           /\ result[key] = auth
           /\ \A a \in AuthoritativeIn(result) : a # key => result[a] = cps[a]
<1> DEFINE kept   == DropFrom(cps, key)
           closed == Closed(AfterBound({key}, es))
<1>1. /\ CheckpointMap(kept) /\ DOMAIN kept = {c \in DOMAIN cps : KeyLess(c, key)}
      /\ \A c \in DOMAIN kept : kept[c] = cps[c]
    BY DropFromType
<1>2. /\ AllGrown(kept, es, origin)
      /\ AuthoritativeIn(kept) = {a \in AuthoritativeIn(cps) : KeyLess(a, key)}
    <2>1. es \in SUBSET ContimeKeys /\ es \subseteq es /\ es \subseteq es \cup {key}
        BY DEF EventSet
    <2> HIDE DEF kept
    <2>2. QED BY <2>1, DropFromGrown DEF kept
<1> HIDE DEF kept
<1>3. /\ DOMAIN corrected = DOMAIN kept \cup {key} /\ corrected[key] = auth
      /\ \A k \in DOMAIN kept : k # key /\ corrected[k] = kept[k]
      /\ \A k \in DOMAIN kept : k \in ContimeKeys /\ KeyLess(k, key)
    BY <1>1, KeyLessIrreflexive DEF kept, CheckpointMap
<1>4. AuthoritativeIn(corrected) = AuthoritativeIn(kept) \cup {key}
    BY <1>3 DEF AuthoritativeIn
<1>5. Grown(auth, key, UpToIn(es, key), origin, corrected)
    <2> DEFINE S == {a \in AuthoritativeIn(corrected) : KeyLeq(a, key)}
    <2>1. EventSet(S) /\ key \in S /\ AnchorIn(corrected, key) = BoundAtLast(S)
          /\ \A a \in S : KeyLeq(a, key)
        BY <1>4, AuthoritativeSet DEF KeyLeq, AnchorIn
    <2> HIDE DEF S
    <2>2. AnchorIn(corrected, key) = {key} /\ LastKey({key}) = key
        BY <2>1, LastKeyUnique, LastKeyOfSingleton
    <2>3. AfterBound({key}, UpToIn(es, key)) = {}
        BY KeyLessAntisymmetric DEF AfterBound, UpToIn, EventSet
    <2>4. auth.items = Cardinality(auth.applied)
        BY FS_EmptySet DEF Unapplied
    <2>5. QED BY <1>3, <2>2, <2>3, <2>4 DEF Grown, Unapplied
<1>6. AllGrown(corrected, es, origin)
    <2>1. ASSUME NEW k \in DOMAIN kept
          PROVE  Grown(corrected[k], k, UpToIn(es, k), origin, corrected)
        <3>1. Grown(kept[k], k, UpToIn(es, k), origin, kept)
            BY <1>2 DEF AllGrown
        <3>2. ~KeyLeq(key, k)
            BY <1>3, KeyLessAntisymmetric
        <3>3. \A a : KeyLeq(a, k)
                 => (a \in AuthoritativeIn(corrected) <=> a \in AuthoritativeIn(kept))
            BY <1>4, <3>2
        <3>4. \A a \in AuthoritativeIn(kept) : corrected[a].from = kept[a].from
            BY <1>3 DEF AuthoritativeIn
        <3>5. Grown(kept[k], k, UpToIn(es, k), origin, corrected)
            BY <1>1, <3>1, <3>3, <3>4, GrownLocal
        <3>6. QED BY <1>3, <3>5
    <2>2. QED BY <1>3, <1>5, <2>1 DEF AllGrown
<1>7. GrownStart(auth, {key}, es, origin, corrected)
    BY <1>5 DEF GrownStart
<1>8. Bounded(corrected, {key})
    BY <1>3 DEF KeyLeq, Bounded
<1>9. Extends(result, corrected, closed, auth, {key}, es)
    BY DEF replay_and_checkpoint, Extends, Closed
<1> HIDE DEF closed
<1>10. /\ AllGrown(result, es, origin)
       /\ AuthoritativeIn(result) = AuthoritativeIn(corrected)
       /\ \A c \in DOMAIN corrected : result[c] = corrected[c]
    BY <1>6, <1>7, <1>8, <1>9, ExtendGrown
<1>11. /\ result[key] = auth
       /\ \A a \in AuthoritativeIn(result) : a # key => result[a] = cps[a]
    BY <1>1, <1>3, <1>4, <1>10 DEF AuthoritativeIn
<1>12. QED BY <1>2, <1>4, <1>10, <1>11
-----------------------------------------------------------------------------
(***************************************************************************)
(* The steps of the history and the steps of Timeline.                     *)
(***************************************************************************)

\* Both modules take their keys from ContimeKey.
LEMMA PromiseKeys ==
    /\ \A t, i : Promise!Key(t, i) = Key(t, i)
    /\ \A a, b : Promise!KeyLess(a, b) <=> KeyLess(a, b)
    /\ \A a, b : Promise!KeyLeq(a, b) <=> KeyLeq(a, b)
    /\ \A S : Promise!BoundAtLast(S) = BoundAtLast(S)
    /\ \A bound, S : Promise!AfterBound(bound, S) = AfterBound(bound, S)
    /\ \A S : Promise!LastKey(S) = LastKey(S)
BY DEF Promise!Key, Key, Promise!KeyLess, KeyLess, Promise!KeyLeq, KeyLeq,
       Promise!BoundAtLast, BoundAtLast, Promise!AfterBound, AfterBound,
       Promise!LastKey, LastKey

LEMMA PromiseCardinality == \A S : Promise!Cardinality(S) = Cardinality(S)
BY DEF Promise!Cardinality, Cardinality

LEMMA UnprunedParts ==
    Unpruned <=> /\ TypeOK
                 /\ base_snapshot.anchor = {} /\ Unapplied(base_snapshot)
                 /\ NoCheckpointAhead
                 /\ AllGrown(checkpoints, events, base_snapshot.from)
BY DEF Unpruned, AllGrown, UpTo, UpToIn

LEMMA InitUnpruned == Init => Unpruned
<1> SUFFICES ASSUME NEW p \in Payloads, new(p) PROVE Unpruned
    BY DEF Init
<1>1. TypeOK
    BY InitType DEF Init
<1>2. QED BY <1>1, UnprunedParts DEF new, Fresh, Unapplied, NoCheckpointAhead, AllGrown

\* A new event: the promise receives it, and keeps the authoritative states
\* before it.
LEMMA ApplyEventPromise ==
    ASSUME Unpruned, NEW k \in EventKeys, apply_event(k), k \notin events
    PROVE  Unpruned' /\ Promise!Receive(k)
<1>1. TypeOK /\ TypeOK'
    BY ApplyEventActionType DEF Unpruned
<1>2. /\ checkpoints' = apply_event_in_place(k, base_snapshot, checkpoints, events)
      /\ events' = events \cup {k}
      /\ base_snapshot' = base_snapshot /\ reply' = reply
    BY DEF apply_event
<1>3. k \in ContimeKeys /\ EventSet(events) /\ CheckpointMap(checkpoints)
      /\ base_snapshot \in Snapshots
    BY <1>1, TypeParts, HistoryAssumption
<1>4. /\ base_snapshot.anchor = {} /\ Unapplied(base_snapshot)
      /\ AllGrown(checkpoints, events, base_snapshot.from)
      /\ \A c \in DOMAIN checkpoints : \E e \in events : KeyLeq(c, e)
    BY UnprunedParts DEF NoCheckpointAhead
<1>5. /\ AllGrown(checkpoints', events', base_snapshot.from)
      /\ KeepsBefore(checkpoints', checkpoints, k)
      /\ DOMAIN checkpoints' \in SUBSET (DOMAIN checkpoints \cup events \cup {k})
    BY <1>2, <1>3, <1>4, ApplyEventGrown
<1>6. NoCheckpointAhead'
    BY <1>2, <1>4, <1>5 DEF NoCheckpointAhead, KeyLeq
<1>7. Unpruned'
    BY <1>1, <1>2, <1>4, <1>5, <1>6 DEF Unpruned, AllGrown, UpTo, UpToIn, Unapplied
<1>8. [c \in Authoritative |-> checkpoints[c].from]'
        = [a \in {c \in Authoritative : KeyLess(c, k)} |-> checkpoints[a].from]
    <2>1. /\ Authoritative' = {c \in Authoritative : KeyLess(c, k)}
          /\ \A c \in Authoritative' : checkpoints'[c] = checkpoints[c]
        BY <1>5 DEF KeepsBefore, Authoritative, AuthoritativeIn
    <2>2. QED BY <2>1
<1>9. QED BY <1>2, <1>7, <1>8, PromiseKeys DEF Promise!Receive, Promise!AnchorsBefore

LEMMA ApplySnapshotPromise ==
    ASSUME Unpruned, NEW id, NEW t \in SnapshotTimes, NEW p \in Payloads,
           apply_snapshot(id, t, p),
           \E e \in events : KeyLeq(Key(t, SnapshotId), e)
    PROVE  Unpruned' /\ Promise!Correct(t, p)
<1> DEFINE key       == Key(t, SnapshotId)
           kept      == DropFrom(checkpoints, key)
           auth      == Fresh(p, {key}, t)
           corrected == [k \in DOMAIN kept \cup {key} |->
                            IF k = key THEN auth ELSE kept[k]]
<1>1. TypeOK /\ TypeOK'
    BY ApplySnapshotType DEF Unpruned
<1>2. /\ checkpoints' = replay_and_checkpoint(auth, {key}, corrected, events)
      /\ events' = events /\ base_snapshot' = base_snapshot /\ reply' = reply
    BY DEF apply_snapshot
<1>3. key \in ContimeKeys /\ auth \in Snapshots
    BY SnapshotKeyType, FreshType, HistoryAssumption
<1>4. CheckpointMap(corrected)
    BY <1>1, CorrectedType, HistoryAssumption
<1>5. auth.anchor = {key} /\ Unapplied(auth) /\ auth.from = p
    BY DEF Fresh, Unapplied
<1>6. /\ EventSet(events) /\ CheckpointMap(checkpoints)
      /\ AllGrown(checkpoints, events, base_snapshot.from)
    BY <1>1, TypeParts, UnprunedParts
<1>7. \A c \in DOMAIN kept : c \in DOMAIN checkpoints /\ KeyLess(c, key)
    BY DEF DropFrom
<1>8. /\ DOMAIN corrected = DOMAIN kept \cup {key}
      /\ corrected[key] = auth
      /\ \A k \in DOMAIN kept : corrected[k] = kept[k]
    BY <1>3, <1>6, <1>7, KeyLessIrreflexive DEF CheckpointMap
<1>9. DOMAIN checkpoints' \in SUBSET (DOMAIN checkpoints \cup {key} \cup events)
    BY <1>2, <1>7, <1>8 DEF replay_and_checkpoint, Closed, AfterBound
<1> HIDE DEF corrected, auth
<1>10. /\ AllGrown(checkpoints', events, base_snapshot.from)
       /\ AuthoritativeIn(checkpoints')
            = {a \in AuthoritativeIn(checkpoints) : KeyLess(a, key)} \cup {key}
       /\ checkpoints'[key] = auth
       /\ \A a \in AuthoritativeIn(checkpoints') : a # key => checkpoints'[a] = checkpoints[a]
    <2> HIDE DEF key
    <2>1. /\ DOMAIN corrected = DOMAIN DropFrom(checkpoints, key) \cup {key}
          /\ \A k \in DOMAIN DropFrom(checkpoints, key) :
                corrected[k] = DropFrom(checkpoints, key)[k]
        BY <1>8
    <2>2. checkpoints' = replay_and_checkpoint(auth, {key}, corrected, events)
        BY <1>2
    <2> DEFINE after == checkpoints'
    <2>3. after = replay_and_checkpoint(auth, {key}, corrected, events)
        BY <2>2
    <2>4. corrected[key] = auth /\ auth.anchor = {key} /\ Unapplied(auth)
        BY <1>5, <1>8
    <2> HIDE DEF kept, after
    <2>5. /\ AllGrown(after, events, base_snapshot.from)
          /\ AuthoritativeIn(after)
               = {a \in AuthoritativeIn(checkpoints) : KeyLess(a, key)} \cup {key}
          /\ after[key] = auth
          /\ \A a \in AuthoritativeIn(after) : a # key => after[a] = checkpoints[a]
        BY <1>3, <1>4, <1>6, <2>1, <2>3, <2>4, CorrectGrown, Z3
    <2>6. QED BY <2>5 DEF after
<1>11. NoCheckpointAhead'
    BY <1>2, <1>9 DEF Unpruned, NoCheckpointAhead, KeyLeq
<1>12. Unpruned'
    BY <1>1, <1>2, <1>10, <1>11 DEF Unpruned, AllGrown, UpTo, UpToIn, Unapplied
<1> DEFINE before == {a \in Authoritative : KeyLess(a, key)}
<1>13. [c \in Authoritative |-> checkpoints[c].from]'
         = [a \in before \cup {key} |-> IF a = key THEN p ELSE checkpoints[a].from]
    <2>1. /\ Authoritative' = before \cup {key}
          /\ \A c \in Authoritative' :
                checkpoints'[c].from = IF c = key THEN p ELSE checkpoints[c].from
        BY <1>5, <1>10 DEF Authoritative, AuthoritativeIn
    <2> HIDE DEF before, key
    <2>2. QED BY <2>1
<1>14. \A a \in before \cup {key} : a # key => a \in Authoritative
    OBVIOUS
<1>15. Promise!Correct(t, p)
    <2>1. DOMAIN Promise!AnchorsBefore(Promise!Key(t, SnapshotId)) = before
        BY PromiseKeys DEF Promise!AnchorsBefore
    <2>2. Promise!Key(t, SnapshotId) = key
        BY PromiseKeys
    <2> HIDE DEF before, key
    <2>3. [a \in before \cup {key} |-> IF a = key THEN p ELSE checkpoints[a].from]
            = [a \in before \cup {key} |->
                  IF a = key THEN p ELSE [c \in Authoritative |-> checkpoints[c].from][a]]
        BY <1>14
    <2>4. QED BY <1>2, <1>13, <2>1, <2>2, <2>3 DEF Promise!Correct
<1>16. QED BY <1>12, <1>15

(***************************************************************************)
(* An answer, whatever checkpoint it was replayed from, is one a timeline  *)
(* without checkpoints gives.                                              *)
(***************************************************************************)
LEMMA AnswerPromise ==
    ASSUME Unpruned, NEW t \in QueryTimes, ~AtCheckpoint(t)
    PROVE  \E instant \in SUBSET Promise!Instant(t) :
              AnswerAt(t) = Promise!StateAt(t, instant)
<1> DEFINE key   == Key(t, SnapshotId)
           older == {c \in DOMAIN checkpoints : KeyLeq(c, key)}
           bound == BoundAtLast(older)
           start == ReplayStart(base_snapshot, checkpoints, bound)
           scope == Before(key)
           found == Replay(start, AfterBound(bound, scope))
           anchor == AnchorIn(checkpoints, key)
<1>1. TypeOK /\ t \in Int /\ key \in ContimeKeys
    BY SnapshotKeyType, HistoryAssumption DEF Unpruned
<1>2. /\ EventSet(events) /\ CheckpointMap(checkpoints) /\ base_snapshot \in Snapshots
      /\ base_snapshot.anchor = {} /\ Unapplied(base_snapshot)
      /\ AllGrown(checkpoints, events, base_snapshot.from)
    BY <1>1, TypeParts, UnprunedParts
<1>3. EventSet(older) /\ older \in SUBSET DOMAIN checkpoints
    BY <1>2, CheckpointDomain, EventSubset
<1>4. GrownStart(start, bound, events, base_snapshot.from, checkpoints)
    BY <1>2, <1>3, StartGrown
<1>5. \A b \in bound : KeyLess(b, key) /\ b \in ContimeKeys
    <2>1. \A b \in bound : b \in older
        BY <1>3, BoundAtLastIsLast
    <2>2. QED BY <1>3, <2>1 DEF AtCheckpoint, KeyLeq, EventSet
<1>6. \A a \in AuthoritativeIn(checkpoints) :
         KeyLeq(a, key) => \E b \in bound : KeyLeq(a, b)
    <2>1. \A c \in older : \E b \in bound : KeyLeq(c, b)
        <3> HIDE DEF older
        <3>1. QED BY <1>3, BoundAtLastIsLast
    <2>2. QED BY <2>1 DEF AuthoritativeIn
<1>7. \A e \in events : \A b \in bound : KeyLeq(e, b) => e \in scope
    BY <1>1, <1>2, <1>5, KeyLeqLess DEF Before, EventSet
<1>8. scope \in SUBSET events /\ \A b \in bound : KeyLeq(b, key)
    BY <1>5 DEF Before, KeyLeq
<1> HIDE DEF scope, start, bound, key
<1>9. Grown(found, key, scope, base_snapshot.from, checkpoints)
    BY <1>1, <1>2, <1>4, <1>6, <1>7, <1>8, GrownReplay
<1>10. found \in Snapshots
    <2>1. EventSet(AfterBound(bound, scope))
        BY <1>2, <1>8, EventSubset, AfterBoundType
    <2>2. QED BY <1>4, <2>1, ReplayType DEF GrownStart
<1>11. AnswerAt(t) = [found EXCEPT !.time = t]
    <2>1. {k \in AfterBound(bound, events) : KeyLess(k, key)} = AfterBound(bound, scope)
        BY DEF AfterBound, Before, scope
    <2>2. QED BY <2>1 DEF AnswerAt, found, bound, start, key
<1>12. /\ found.anchor = anchor
       /\ found.from = IF anchor = {} THEN base_snapshot.from
                       ELSE checkpoints[LastKey(anchor)].from
       /\ found.applied = AfterBound(anchor, scope)
       /\ found.inOrder = TRUE
       /\ found.items = Cardinality(AfterBound(anchor, scope))
    BY <1>9, <1>10 DEF Grown, Snapshots
<1> HIDE DEF found
<1>13. AnswerAt(t) =
         [from    |-> IF anchor = {} THEN base_snapshot.from
                      ELSE checkpoints[LastKey(anchor)].from,
          anchor  |-> anchor,
          time    |-> t,
          applied |-> AfterBound(anchor, scope),
          inOrder |-> TRUE,
          items   |-> Cardinality(AfterBound(anchor, scope))]
    <2> HIDE DEF anchor
    <2>1. QED BY <1>10, <1>11, <1>12 DEF Snapshots
<1>14. anchor # {} => LastKey(anchor) \in Authoritative
    BY <1>2, AnchorKey DEF Authoritative, AuthoritativeIn
<1>15. anchor = BoundAtLast({a \in Authoritative : KeyLeq(a, key)})
    BY DEF AnchorIn, Authoritative, AuthoritativeIn
<1>16. scope = {k \in events : k.time < t} \cup Promise!Instant(t)
    BY PromiseKeys DEF Before, scope, key, Key, KeyLess, Promise!Instant
<1> HIDE DEF anchor
<1> DEFINE pkey     == Promise!Key(t, SnapshotId)
           contents == [c \in Authoritative |-> checkpoints[c].from]
           anchors  == {a \in DOMAIN contents : Promise!KeyLeq(a, pkey)}
           taken    == {k \in events : k.time < t} \cup Promise!Instant(t)
           replay   == Promise!AfterBound(anchor, taken)
           from     == IF anchor = {} THEN base_snapshot.from
                       ELSE contents[Promise!LastKey(anchor)]
<1>17. pkey = key
    BY PromiseKeys DEF key
<1>18. Promise!BoundAtLast(anchors) = anchor
    <2>1. anchors = {a \in Authoritative : KeyLeq(a, key)}
        BY <1>17, PromiseKeys
    <2>2. QED BY <1>15, <2>1, PromiseKeys
<1>19. replay = AfterBound(anchor, scope)
    BY <1>16, PromiseKeys
<1>20. from = IF anchor = {} THEN base_snapshot.from ELSE checkpoints[LastKey(anchor)].from
    BY <1>14, PromiseKeys
<1>21. Promise!StateAt(t, Promise!Instant(t)) =
         [from |-> from, anchor |-> anchor, time |-> t, applied |-> replay,
          inOrder |-> TRUE, items |-> Promise!Cardinality(replay)]
    <2> DEFINE last == Promise!BoundAtLast(anchors)
               between == Promise!AfterBound(last, taken)
    <2>1. Promise!StateAt(t, Promise!Instant(t)) =
             [from    |-> IF last = {} THEN base_snapshot.from
                          ELSE contents[Promise!LastKey(last)],
              anchor  |-> last,
              time    |-> t,
              applied |-> between,
              inOrder |-> TRUE,
              items   |-> Promise!Cardinality(between)]
        BY Zenon DEF Promise!StateAt
    <2>2. last = anchor
        BY <1>18
    <2> HIDE DEF last, contents, pkey, taken
    <2>3. QED BY <2>1, <2>2
<1> HIDE DEF from, replay
<1>22. QED BY <1>13, <1>19, <1>20, <1>21, PromiseCardinality

LEMMA NextPromise ==
    ASSUME AdvanceSteps = {}, ~AheadSnapshots
    PROVE  Unpruned /\ [Next]_vars => Unpruned' /\ [Promise!Next]_(Promise!vars)
<1> SUFFICES ASSUME Unpruned, [Next]_vars
             PROVE  Unpruned' /\ [Promise!Next]_(Promise!vars)
    OBVIOUS
<1>1. ASSUME NEW k \in EventKeys, apply_event(k)
      PROVE  Unpruned' /\ [Promise!Next]_(Promise!vars)
    <2>1. CASE k \notin events
        BY <1>1, <2>1, ApplyEventPromise DEF Promise!Next
    <2>2. CASE k \in events
        <3>1. UNCHANGED <<base_snapshot, checkpoints, events, reply>>
            BY <1>1, <2>2 DEF apply_event, apply_event_in_place
        <3>2. TypeOK'
            BY <1>1, ApplyEventActionType DEF Unpruned
        <3>3. QED BY <3>1, <3>2 DEF Unpruned, NoCheckpointAhead, UpTo, Promise!vars, Authoritative
    <2>3. QED BY <2>1, <2>2
<1>2. ASSUME NEW id \in SnapshotIds, NEW t \in SnapshotTimes, NEW p \in Payloads,
             MaySendSnapshot(t), apply_snapshot(id, t, p)
      PROVE  Unpruned' /\ [Promise!Next]_(Promise!vars)
    BY <1>2, ApplySnapshotPromise DEF MaySendSnapshot, Promise!Next
<1>3. ASSUME NEW t \in QueryTimes, snapshot_at(t)
      PROVE  [Promise!Next]_(Promise!vars)
    <2>1. ~AtCheckpoint(t)
        BY <1>3 DEF snapshot_at, Unpruned, NoCheckpointAhead, AtCheckpoint
    <2>2. Promise!Query(t)
        BY <1>3, <2>1, AnswerPromise DEF snapshot_at, Promise!Query, Authoritative
    <2>3. QED BY <2>2 DEF Promise!Next
<1>4. ASSUME UNCHANGED <<base_snapshot, checkpoints, events>>
      PROVE  Unpruned'
    <2>1. TypeOK'
        BY NextType DEF Unpruned
    <2>2. QED BY <1>4, <2>1 DEF Unpruned, NoCheckpointAhead, UpTo
<1>5. ASSUME UNCHANGED <<base_snapshot, checkpoints, events, reply>>
      PROVE  UNCHANGED Promise!vars
    BY <1>5 DEF Promise!vars, Authoritative
<1>6. QED BY <1>1, <1>2, <1>3, <1>4, <1>5
          DEF Next, vars, apply_snapshot_foreign, snapshot_at, snapshot_at_panics, recv

\* Every checkpoint holds its newest authoritative state and each event between
\* that and itself, once, whatever order they came in.
THEOREM StaysUnpruned ==
    ASSUME AdvanceSteps = {}, ~AheadSnapshots
    PROVE  Spec => []Unpruned
<1>1. Unpruned /\ [Next]_vars => Unpruned'
    BY NextPromise
<1>2. QED BY <1>1, InitUnpruned, PTL DEF Spec

(***************************************************************************)
(* Checkpoints, their invalidation and their replay cannot be seen: a      *)
(* history that is not pruned is a timeline.                               *)
(***************************************************************************)
THEOREM HistoryIsTimeline ==
    ASSUME AdvanceSteps = {}, ~AheadSnapshots
    PROVE  Spec => ImplementsTimeline
<1>1. Init => Promise!Init
    <2> SUFFICES ASSUME NEW p \in Payloads, new(p) PROVE Promise!Init
        BY DEF Init
    <2>1. base_snapshot.from = p /\ Authoritative = {}
        BY DEF new, Fresh, Authoritative
    <2>2. QED BY <2>1 DEF new, Promise!Init
<1>2. Unpruned /\ [Next]_vars => [Promise!Next]_(Promise!vars)
    BY NextPromise
<1>3. QED BY <1>1, <1>2, StaysUnpruned, PTL DEF Spec, ImplementsTimeline, Promise!Spec
-----------------------------------------------------------------------------

(***************************************************************************)
(* Where checkpoints lie.  The rank of an event after its authoritative    *)
(* state decides, and the rank after any checkpoint in between gives the   *)
(* same answer, because such a checkpoint lies at a multiple of the        *)
(* interval.                                                               *)
(***************************************************************************)
PlacedAt(k, cps, es) ==
    k \in DOMAIN cps
      <=> Rank(k, AfterBound(AnchorIn(cps, k), es)) % CheckpointInterval = 0

\* Up to the bound the checkpoints lie where they should.
PlacedTo(bound, cps, es) ==
    /\ DOMAIN cps \in SUBSET (es \cup AuthoritativeIn(cps))
    /\ \A k \in es : /\ k \notin AuthoritativeIn(cps)
                     /\ \E b \in bound : KeyLeq(k, b)
                     => PlacedAt(k, cps, es)

Placed(cps, es) ==
    /\ DOMAIN cps \in SUBSET (es \cup AuthoritativeIn(cps))
    /\ \A k \in es : k \notin AuthoritativeIn(cps) => PlacedAt(k, cps, es)

\* The bound is open or a checkpoint at its place.
PlacedBound(bound, cps, es) ==
    \/ bound = {} /\ DOMAIN cps = {}
    \/ \E b \in ContimeKeys :
          /\ bound = {b}
          /\ \A c \in DOMAIN cps : KeyLeq(c, b)
          /\ \/ b \in AuthoritativeIn(cps)
             \/ Rank(b, AfterBound(AnchorIn(cps, b), es)) % CheckpointInterval = 0

LEMMA MultipleOf ==
    ASSUME NEW a \in Int, NEW n \in Nat \ {0}
    PROVE  a % n = 0 <=> \E q \in Int : a = n * q
<1>1. ASSUME a % n = 0 PROVE \E q \in Int : a = n * q
    BY <1>1
<1>2. ASSUME NEW q \in Int, a = n * q PROVE a % n = 0
    BY <1>2
<1>3. QED BY <1>1, <1>2

LEMMA SumOfMultiples ==
    ASSUME NEW a \in Int, NEW b \in Int, NEW n \in Nat \ {0}, a % n = 0
    PROVE  (a + b) % n = 0 <=> b % n = 0
<1>1. PICK q \in Int : a = n * q
    BY MultipleOf
<1>2. ASSUME b % n = 0 PROVE (a + b) % n = 0
    <2>1. PICK p \in Int : b = n * p
        BY <1>2, MultipleOf
    <2>2. a + b = n * (q + p) /\ q + p \in Int /\ a + b \in Int
        BY <1>1, <2>1
    <2>3. QED BY <2>2, MultipleOf
<1>3. ASSUME (a + b) % n = 0 PROVE b % n = 0
    <2>1. PICK p \in Int : a + b = n * p
        <3>1. a + b \in Int
            OBVIOUS
        <3>2. QED BY <1>3, <3>1, MultipleOf
    <2>2. b = n * (p - q) /\ p - q \in Int
        BY <1>1, <2>1
    <2>3. QED BY <2>2, MultipleOf
<1>4. QED BY <1>2, <1>3

\* The events up to k fall into those up to b and those after b.
LEMMA RankSplit ==
    ASSUME NEW es, EventSet(es), NEW b \in ContimeKeys, NEW k \in ContimeKeys,
           KeyLeq(b, k), NEW anchor \in SUBSET ContimeKeys,
           \A a \in anchor : KeyLeq(a, b)
    PROVE  Rank(k, AfterBound(anchor, es))
             = Rank(b, AfterBound(anchor, es)) + Rank(k, AfterBound({b}, es))
<1> DEFINE upTo  == {j \in AfterBound(anchor, es) : KeyLeq(j, b)}
           after == {j \in AfterBound({b}, es) : KeyLeq(j, k)}
           all   == {j \in AfterBound(anchor, es) : KeyLeq(j, k)}
<1>1. upTo \in SUBSET es /\ after \in SUBSET es /\ \A e \in es : e \in ContimeKeys
    BY DEF AfterBound, EventSet
<1>2. all = upTo \cup after
    <2>1. ASSUME NEW e \in es
          PROVE  e \in all <=> e \in upTo \/ e \in after
        <3>1. e \in ContimeKeys
            BY <1>1
        <3>2. KeyLeq(e, b) \/ KeyLess(b, e)
            BY <3>1, KeyLessTotal DEF KeyLeq
        <3>3. KeyLeq(e, b) => KeyLeq(e, k)
            BY <3>1, KeyLeqTransitive
        <3>4. KeyLess(b, e) => \A a \in anchor : KeyLess(a, e)
            BY <3>1, KeyLeqLess
        <3>5. QED BY <3>2, <3>3, <3>4 DEF AfterBound
    <2>2. all \in SUBSET es
        BY DEF AfterBound
    <2> HIDE DEF all, upTo, after
    <2>3. QED BY <1>1, <2>1, <2>2
<1>3. upTo \cap after = {}
    BY <1>1, KeyLessAntisymmetric DEF AfterBound
<1>4. EventSet(upTo) /\ EventSet(after)
    BY <1>1, EventSubset
<1>5. /\ Rank(k, AfterBound(anchor, es)) = Cardinality(all)
      /\ Rank(b, AfterBound(anchor, es)) = Cardinality(upTo)
      /\ Rank(k, AfterBound({b}, es)) = Cardinality(after)
    BY DEF Rank
<1> HIDE DEF upTo, after, all
<1>6. QED BY <1>2, <1>3, <1>4, <1>5, CardinalityOfParts

LEMMA RankAfter ==
    ASSUME NEW es, EventSet(es), NEW cps, CheckpointMap(cps),
           NEW bound, PlacedBound(bound, cps, es),
           NEW k \in ContimeKeys, \A b \in bound : KeyLess(b, k)
    PROVE  Rank(k, AfterBound(AnchorIn(cps, k), es)) % CheckpointInterval = 0
             <=> Rank(k, AfterBound(bound, es)) % CheckpointInterval = 0
<1>1. CASE bound = {} /\ DOMAIN cps = {}
    <2>1. AnchorIn(cps, k) = {}
        BY <1>1, AnchorKey, AuthoritativeSet
    <2>2. QED BY <1>1, <2>1
<1>2. ASSUME NEW b \in ContimeKeys, bound = {b},
             \A c \in DOMAIN cps : KeyLeq(c, b),
             \/ b \in AuthoritativeIn(cps)
             \/ Rank(b, AfterBound(AnchorIn(cps, b), es)) % CheckpointInterval = 0
      PROVE  Rank(k, AfterBound(AnchorIn(cps, k), es)) % CheckpointInterval = 0
               <=> Rank(k, AfterBound(bound, es)) % CheckpointInterval = 0
    <2>1. KeyLess(b, k) /\ KeyLeq(b, k)
        BY <1>2 DEF KeyLeq
    <2>2. AnchorIn(cps, k) = AnchorIn(cps, b)
        <3>1. \A a \in AuthoritativeIn(cps) : KeyLeq(a, b) /\ KeyLeq(a, k)
            BY <1>2, <2>1, AuthoritativeSet, KeyLeqTransitive
        <3>2. {a \in AuthoritativeIn(cps) : KeyLeq(a, k)}
                = {a \in AuthoritativeIn(cps) : KeyLeq(a, b)}
            BY <3>1
        <3>3. QED BY <3>2 DEF AnchorIn
    <2>3. CASE b \in AuthoritativeIn(cps)
        <3>1. AnchorIn(cps, b) = {b}
            <4> DEFINE S == {a \in AuthoritativeIn(cps) : KeyLeq(a, b)}
            <4>1. EventSet(S) /\ b \in S /\ \A a \in S : KeyLeq(a, b)
                BY <2>3, AuthoritativeSet DEF KeyLeq
            <4>2. AnchorIn(cps, b) = BoundAtLast(S)
                BY DEF AnchorIn
            <4> HIDE DEF S
            <4>3. QED BY <4>1, <4>2, LastKeyUnique
        <3>2. QED BY <1>2, <2>2, <3>1
    <2>4. CASE Rank(b, AfterBound(AnchorIn(cps, b), es)) % CheckpointInterval = 0
        <3> DEFINE anchor == AnchorIn(cps, b)
                   before == Rank(b, AfterBound(anchor, es))
                   after  == Rank(k, AfterBound({b}, es))
        <3>1. anchor \in SUBSET ContimeKeys /\ \A a \in anchor : KeyLeq(a, b)
            BY AnchorKey, AuthoritativeSet
        <3> HIDE DEF anchor
        <3>2. Rank(k, AfterBound(anchor, es)) = before + after
            BY <2>1, <3>1, RankSplit
        <3>3. before \in Int /\ after \in Int /\ before % CheckpointInterval = 0
            BY <2>4, AfterBoundType, RankType DEF anchor
        <3> HIDE DEF before, after
        <3>4. (before + after) % CheckpointInterval = 0
                <=> after % CheckpointInterval = 0
            BY <3>3, SumOfMultiples, ApplyAssumption
        <3>5. QED BY <1>2, <2>2, <3>2, <3>4 DEF anchor, after
    <2>5. QED BY <1>2, <2>3, <2>4
<1>3. QED BY <1>1, <1>2 DEF PlacedBound

\* Events and authoritative states after k do not matter at k.
LEMMA PlacedLocal ==
    ASSUME NEW k, NEW cps, NEW cps2, NEW es, NEW es2, PlacedAt(k, cps, es),
           UpToIn(es2, k) = UpToIn(es, k), k \in DOMAIN cps2 <=> k \in DOMAIN cps,
           \A a : KeyLeq(a, k)
                    => (a \in AuthoritativeIn(cps2) <=> a \in AuthoritativeIn(cps))
    PROVE  PlacedAt(k, cps2, es2)
<1> DEFINE anchor == AnchorIn(cps, k)
<1>1. AnchorIn(cps2, k) = anchor
    <2>1. {a \in AuthoritativeIn(cps2) : KeyLeq(a, k)}
            = {a \in AuthoritativeIn(cps) : KeyLeq(a, k)}
        OBVIOUS
    <2>2. QED BY <2>1 DEF AnchorIn
<1>2. Rank(k, AfterBound(anchor, es2)) = Rank(k, AfterBound(anchor, es))
    <2> HIDE DEF anchor
    <2>1. {j \in AfterBound(anchor, es2) : KeyLeq(j, k)}
            = {j \in AfterBound(anchor, es) : KeyLeq(j, k)}
        BY DEF AfterBound, UpToIn
    <2>2. QED BY <2>1 DEF Rank
<1>3. QED BY <1>1, <1>2 DEF PlacedAt

LEMMA LastPlaced ==
    ASSUME NEW cps, CheckpointMap(cps), NEW es,
           PlacedTo(BoundAtLast(DOMAIN cps), cps, es)
    PROVE  PlacedBound(BoundAtLast(DOMAIN cps), cps, es)
<1>1. EventSet(DOMAIN cps)
    BY CheckpointDomain
<1>2. CASE DOMAIN cps = {}
    BY <1>1, <1>2, BoundAtLastIsLast DEF PlacedBound
<1>3. CASE DOMAIN cps # {}
    <2>1. PICK c \in DOMAIN cps : /\ BoundAtLast(DOMAIN cps) = {c}
                                  /\ \A d \in DOMAIN cps : KeyLeq(d, c)
        BY <1>1, <1>3, BoundAtLastIsLast
    <2>2. c \in AuthoritativeIn(cps) \/ PlacedAt(c, cps, es)
        BY <2>1 DEF PlacedTo
    <2>3. QED BY <1>1, <2>1, <2>2 DEF PlacedBound, PlacedAt, EventSet
<1>4. QED BY <1>2, <1>3

\* A replay that starts at a checkpoint in its place puts the others in theirs.
LEMMA ExtendPlaced ==
    ASSUME NEW es, EventSet(es), NEW cps, CheckpointMap(cps),
           NEW bound, PlacedTo(bound, cps, es), PlacedBound(bound, cps, es),
           NEW result, DOMAIN result = DOMAIN cps \cup Closed(AfterBound(bound, es)),
           AuthoritativeIn(result) = AuthoritativeIn(cps)
    PROVE  Placed(result, es)
<1> DEFINE closed == Closed(AfterBound(bound, es))
<1>1. closed \in SUBSET es /\ \A k \in closed : \A b \in bound : KeyLess(b, k)
    BY DEF Closed, AfterBound
<1>2. bound \in SUBSET ContimeKeys /\ (bound = {} \/ \E b : bound = {b})
      /\ \A c \in DOMAIN cps : \E b \in bound : KeyLeq(c, b)
    BY DEF PlacedBound
<1>3. ASSUME NEW k \in es, k \notin AuthoritativeIn(result) PROVE PlacedAt(k, result, es)
    <2>1. k \in ContimeKeys
        BY DEF EventSet
    <2>2. CASE \E b \in bound : KeyLeq(k, b)
        <3>1. PlacedAt(k, cps, es)
            BY <1>3, <2>2 DEF PlacedTo
        <3>2. k \notin closed
            BY <1>1, <1>2, <2>1, <2>2, KeyLessAntisymmetric
        <3>3. k \in DOMAIN result <=> k \in DOMAIN cps
            BY <3>2
        <3>4. QED BY <3>1, <3>3, PlacedLocal
    <2>3. CASE ~\E b \in bound : KeyLeq(k, b)
        <3>1. \A b \in bound : KeyLess(b, k)
            BY <1>2, <2>1, <2>3, KeyLessTotal DEF KeyLeq
        <3>2. k \notin DOMAIN cps /\ k \in AfterBound(bound, es)
            BY <1>2, <2>3, <3>1 DEF AfterBound
        <3>3. k \in DOMAIN result
                <=> Rank(k, AfterBound(bound, es)) % CheckpointInterval = 0
            BY <3>2 DEF Closed
        <3>4. Rank(k, AfterBound(AnchorIn(cps, k), es)) % CheckpointInterval = 0
                <=> Rank(k, AfterBound(bound, es)) % CheckpointInterval = 0
            BY <2>1, <3>1, RankAfter
        <3>5. AnchorIn(result, k) = AnchorIn(cps, k)
            BY DEF AnchorIn
        <3>6. QED BY <3>3, <3>4, <3>5 DEF PlacedAt
    <2>4. QED BY <2>2, <2>3
<1>4. QED BY <1>1, <1>3 DEF Placed, PlacedTo

LEMMA DropFromPlaced ==
    ASSUME NEW es \in SUBSET ContimeKeys, NEW cps, CheckpointMap(cps), Placed(cps, es),
           NEW key \in ContimeKeys, NEW es2, es \subseteq es2, es2 \subseteq es \cup {key},
           NEW kept, kept = DropFrom(cps, key),
           AuthoritativeIn(kept) = {a \in AuthoritativeIn(cps) : KeyLess(a, key)}
    PROVE  /\ DOMAIN kept \in SUBSET (es2 \cup AuthoritativeIn(kept))
           /\ \A k \in es2 : k \notin AuthoritativeIn(kept) /\ KeyLess(k, key)
                               => PlacedAt(k, kept, es2)
<1>1. DOMAIN kept = {c \in DOMAIN cps : KeyLess(c, key)}
    BY DEF DropFrom
<1>2. ASSUME NEW k \in es2, k \notin AuthoritativeIn(kept), KeyLess(k, key)
      PROVE  PlacedAt(k, kept, es2)
    <2>1. k \in es /\ k \in ContimeKeys
        BY <1>2, KeyLessIrreflexive
    <2>2. PlacedAt(k, cps, es)
        BY <1>2, <2>1 DEF Placed
    <2>3. UpToIn(es2, k) = UpToIn(es, k)
        BY <1>2, <2>1, KeyLessAntisymmetric DEF UpToIn
    <2>4. \A a \in AuthoritativeIn(cps) : KeyLeq(a, k) => KeyLess(a, key)
        BY <1>2, <2>1, AuthoritativeSet, KeyLeqLess
    <2>5. \A a : KeyLeq(a, k)
                   => (a \in AuthoritativeIn(kept) <=> a \in AuthoritativeIn(cps))
        BY <2>4
    <2>6. k \in DOMAIN kept <=> k \in DOMAIN cps
        BY <1>1, <1>2
    <2>7. QED BY <2>2, <2>3, <2>5, <2>6, PlacedLocal
<1>3. DOMAIN kept \in SUBSET (es2 \cup AuthoritativeIn(kept))
    BY <1>1 DEF Placed
<1>4. QED BY <1>2, <1>3

LEMMA SlowPathPlaced ==
    ASSUME NEW es, EventSet(es), NEW cps, CheckpointMap(cps),
           NEW base \in Snapshots, base.anchor = {}, Unapplied(base),
           AllGrown(cps, es, base.from), NEW key \in ContimeKeys, Placed(cps, es)
    PROVE  Placed(SlowPath(key, base, cps, es \cup {key}), es \cup {key})
<1> DEFINE es2    == es \cup {key}
           kept   == DropFrom(cps, key)
           bound  == BoundAtLast(DOMAIN kept)
           result == SlowPath(key, base, cps, es2)
<1>1. EventSet(es2) /\ es \in SUBSET ContimeKeys
    BY FS_AddElement DEF EventSet
<1>2. CheckpointMap(kept) /\ \A c \in DOMAIN kept : KeyLess(c, key)
    BY DropFromType DEF DropFrom
<1>3. AuthoritativeIn(kept) = {a \in AuthoritativeIn(cps) : KeyLess(a, key)}
    <2>1. es \subseteq es
        OBVIOUS
    <2>2. QED BY <1>1, <2>1, DropFromGrown
<1>4. AuthoritativeIn(result) = AuthoritativeIn(kept)
    BY <1>3, SlowPathGrown DEF KeepsBefore
<1>5. DOMAIN result = DOMAIN kept \cup Closed(AfterBound(bound, es2))
    BY DEF SlowPath, replay_and_checkpoint
<1>6. /\ DOMAIN kept \in SUBSET (es2 \cup AuthoritativeIn(kept))
      /\ \A k \in es2 : k \notin AuthoritativeIn(kept) /\ KeyLess(k, key)
                          => PlacedAt(k, kept, es2)
    <2>1. es \subseteq es2 /\ es2 \subseteq es \cup {key}
        OBVIOUS
    <2> HIDE DEF es2
    <2>2. kept = DropFrom(cps, key)
        OBVIOUS
    <2> HIDE DEF kept
    <2>3. QED BY <1>1, <1>3, <2>1, <2>2, DropFromPlaced
<1> HIDE DEF result, kept, es2
<1>7. PlacedTo(bound, kept, es2)
    <2>1. \A b \in bound : b \in DOMAIN kept /\ b \in ContimeKeys
        BY <1>2, BoundOfAll
    <2>2. \A k \in es2 : (\E b \in bound : KeyLeq(k, b)) => KeyLess(k, key)
        BY <1>1, <1>2, <2>1, KeyLeqLess DEF EventSet
    <2>3. QED BY <1>6, <2>2 DEF PlacedTo
<1>8. PlacedBound(bound, kept, es2)
    BY <1>2, <1>7, LastPlaced
<1> HIDE DEF bound
<1>9. Placed(result, es2)
    BY <1>1, <1>2, <1>4, <1>5, <1>7, <1>8, ExtendPlaced
<1>10. QED BY <1>9 DEF result, es2

LEMMA FastPathPlaced ==
    ASSUME NEW es, EventSet(es), NEW cps, CheckpointMap(cps),
           NEW base \in Snapshots, base.anchor = {}, Unapplied(base),
           AllGrown(cps, es, base.from), NEW key \in ContimeKeys,
           key \notin es, \A k \in es : ~KeyLess(key, k),
           \A c \in DOMAIN cps : \E e \in es : KeyLeq(c, e), Placed(cps, es)
    PROVE  Placed(FastPath(key, base, cps, es \cup {key}), es \cup {key})
<1> DEFINE es2    == es \cup {key}
           bound  == BoundAtLast(DOMAIN cps)
           range  == AfterBound(bound, es2)
           result == FastPath(key, base, cps, es2)
<1>1. EventSet(es2) /\ es \in SUBSET ContimeKeys
    BY FS_AddElement DEF EventSet
<1>2. \A e \in es : KeyLess(e, key)
    BY <1>1, KeyLessTotal
<1>3. \A c \in DOMAIN cps : c \in ContimeKeys /\ KeyLess(c, key)
    BY <1>1, <1>2, KeyLeqLess DEF CheckpointMap
<1>4. AuthoritativeIn(result) = AuthoritativeIn(cps)
    <2>1. AuthoritativeIn(result) = {a \in AuthoritativeIn(cps) : KeyLess(a, key)}
        BY FastPathGrown DEF KeepsBefore
    <2>2. QED BY <1>3, <2>1 DEF AuthoritativeIn
<1>5. /\ bound \in SUBSET DOMAIN cps
      /\ \A c \in DOMAIN cps : \E b \in bound : KeyLeq(c, b)
    BY BoundOfAll DEF Bounded
<1>6. key \in DOMAIN result <=> Rank(key, range) % CheckpointInterval = 0
    <2>1. range = {j \in range : KeyLeq(j, key)}
        BY <1>2 DEF AfterBound, KeyLeq
    <2>2. Rank(key, range) = Cardinality(range)
        BY <2>1 DEF Rank
    <2>3. key \notin DOMAIN cps
        BY <1>3, KeyLessIrreflexive
    <2>4. QED BY <2>2, <2>3 DEF FastPath
<1>7. DOMAIN result \in SUBSET (DOMAIN cps \cup {key})
      /\ DOMAIN cps \in SUBSET DOMAIN result
    BY DEF FastPath
<1> HIDE DEF result
<1>8. ASSUME NEW k \in es, k \notin AuthoritativeIn(cps)
      PROVE  PlacedAt(k, cps, es2) /\ PlacedAt(k, result, es2)
    <2>1. PlacedAt(k, cps, es) /\ k # key
        BY <1>8 DEF Placed
    <2>2. UpToIn(es2, k) = UpToIn(es, k)
        BY <1>1, <1>2, KeyLessAntisymmetric DEF UpToIn
    <2> HIDE DEF es2
    <2>3. PlacedAt(k, cps, es2)
        BY <2>1, <2>2, PlacedLocal
    <2>4. k \in DOMAIN result <=> k \in DOMAIN cps
        BY <1>7, <2>1
    <2>5. PlacedAt(k, result, es2)
        BY <1>4, <2>3, <2>4, PlacedLocal
    <2>6. QED BY <2>3, <2>5
<1>9. PlacedTo(bound, cps, es2)
    <2>1. \A k \in es2 : (\E b \in bound : KeyLeq(k, b)) => k \in es
        BY <1>3, <1>5, KeyLessAntisymmetric
    <2>2. QED BY <1>8, <2>1 DEF Placed, PlacedTo
<1>10. PlacedBound(bound, cps, es2)
    BY <1>9, LastPlaced
<1>11. PlacedAt(key, result, es2)
    <2>1. \A b \in bound : KeyLess(b, key)
        BY <1>3, <1>5
    <2> HIDE DEF es2
    <2>2. Rank(key, AfterBound(AnchorIn(cps, key), es2)) % CheckpointInterval = 0
            <=> Rank(key, range) % CheckpointInterval = 0
        BY <1>1, <1>10, <2>1, RankAfter
    <2>3. AnchorIn(result, key) = AnchorIn(cps, key)
        BY <1>4 DEF AnchorIn
    <2>4. QED BY <1>6, <2>2, <2>3 DEF PlacedAt
<1>12. DOMAIN result \in SUBSET (es2 \cup AuthoritativeIn(result))
    BY <1>4, <1>7 DEF Placed
<1>13. QED BY <1>4, <1>8, <1>11, <1>12 DEF Placed, result

LEMMA CorrectPlaced ==
    ASSUME NEW es, EventSet(es), NEW cps, CheckpointMap(cps), NEW origin,
           AllGrown(cps, es, origin), Placed(cps, es), NEW key \in ContimeKeys,
           NEW corrected, CheckpointMap(corrected),
           DOMAIN corrected = DOMAIN DropFrom(cps, key) \cup {key},
           key \in corrected[key].anchor,
           \A k \in DOMAIN DropFrom(cps, key) : corrected[k] = DropFrom(cps, key)[k],
           NEW result, DOMAIN result = DOMAIN corrected \cup Closed(AfterBound({key}, es)),
           AuthoritativeIn(result)
             = {a \in AuthoritativeIn(cps) : KeyLess(a, key)} \cup {key}
    PROVE  Placed(result, es)
<1> DEFINE kept == DropFrom(cps, key)
<1>1. es \in SUBSET ContimeKeys /\ es \subseteq es /\ es \subseteq es \cup {key}
    BY DEF EventSet
<1>2. \A c \in DOMAIN kept : KeyLess(c, key) /\ c # key
    BY KeyLessIrreflexive DEF DropFrom
<1>3. AuthoritativeIn(kept) = {a \in AuthoritativeIn(cps) : KeyLess(a, key)}
    BY <1>1, DropFromGrown
<1>4. /\ DOMAIN kept \in SUBSET (es \cup AuthoritativeIn(kept))
      /\ \A k \in es : k \notin AuthoritativeIn(kept) /\ KeyLess(k, key)
                         => PlacedAt(k, kept, es)
    <2>1. kept = DropFrom(cps, key)
        OBVIOUS
    <2> HIDE DEF kept
    <2>2. QED BY <1>1, <1>3, <2>1, DropFromPlaced
<1>5. AuthoritativeIn(corrected) = AuthoritativeIn(kept) \cup {key}
    BY <1>2 DEF AuthoritativeIn
<1>6. AuthoritativeIn(result) = AuthoritativeIn(corrected)
    BY <1>3, <1>5
<1>7. DOMAIN corrected = DOMAIN kept \cup {key}
    OBVIOUS
<1> HIDE DEF kept
<1>8. PlacedTo({key}, corrected, es)
    <2>1. ASSUME NEW k \in es, k \notin AuthoritativeIn(corrected), KeyLeq(k, key)
          PROVE  PlacedAt(k, corrected, es)
        <3>1. KeyLess(k, key) /\ k \in ContimeKeys
            BY <1>1, <1>5, <2>1 DEF KeyLeq
        <3>2. PlacedAt(k, kept, es)
            BY <1>4, <1>5, <2>1, <3>1
        <3>3. k # key /\ ~KeyLeq(key, k)
            BY <3>1, KeyLessIrreflexive, KeyLessAntisymmetric
        <3>4. k \in DOMAIN corrected <=> k \in DOMAIN kept
            BY <1>7, <3>3
        <3>5. \A a : KeyLeq(a, k) => (a \in AuthoritativeIn(corrected)
                                        <=> a \in AuthoritativeIn(kept))
            BY <1>5, <3>3
        <3>6. QED BY <3>2, <3>4, <3>5, PlacedLocal
    <2>2. DOMAIN corrected \in SUBSET (es \cup AuthoritativeIn(corrected))
        BY <1>4, <1>5, <1>7
    <2>3. QED BY <2>1, <2>2 DEF PlacedTo
<1>9. PlacedBound({key}, corrected, es)
    BY <1>2, <1>5, <1>7 DEF PlacedBound, KeyLeq
<1>10. QED BY <1>6, <1>8, <1>9, ExtendPlaced

(***************************************************************************)
(* The steps of the history.                                               *)
(***************************************************************************)
LEMMA PlacedParts ==
    /\ OrderIndependent <=> Placed(checkpoints, events)
    /\ OrderIndependent' <=> Placed(checkpoints', events')
BY DEF OrderIndependent, Placed, PlacedAt, Authoritative, AuthoritativeIn, AnchorIn

LEMMA ApplyEventPlaced ==
    ASSUME Unpruned, OrderIndependent, NEW k \in EventKeys, apply_event(k)
    PROVE  OrderIndependent'
<1> DEFINE inserted == events \cup {k}
<1>1. /\ checkpoints' = apply_event_in_place(k, base_snapshot, checkpoints, events)
      /\ events' = inserted
    BY DEF apply_event
<1>2. /\ TypeOK /\ k \in ContimeKeys /\ EventSet(events) /\ CheckpointMap(checkpoints)
      /\ base_snapshot \in Snapshots
    BY TypeParts, HistoryAssumption DEF Unpruned
<1>3. /\ base_snapshot.anchor = {} /\ Unapplied(base_snapshot)
      /\ AllGrown(checkpoints, events, base_snapshot.from)
      /\ \A c \in DOMAIN checkpoints : \E e \in events : KeyLeq(c, e)
    BY UnprunedParts DEF NoCheckpointAhead
<1>4. Placed(checkpoints, events)
    BY PlacedParts
<1>5. Placed(checkpoints', events')
    <2>1. CASE k \in events
        <3>1. checkpoints' = checkpoints /\ events' = events
            BY <1>1, <2>1 DEF apply_event_in_place
        <3>2. QED BY <1>4, <3>1
    <2>2. CASE k \notin events /\ \A e \in events : ~KeyLess(k, e)
        <3>1. checkpoints' = FastPath(k, base_snapshot, checkpoints, inserted)
            BY <1>1, <2>2 DEF apply_event_in_place
        <3>2. Placed(FastPath(k, base_snapshot, checkpoints, inserted), inserted)
            BY <1>2, <1>3, <1>4, <2>2, FastPathPlaced
        <3>3. QED BY <1>1, <3>1, <3>2
    <2>3. CASE k \notin events /\ ~\A e \in events : ~KeyLess(k, e)
        <3>1. checkpoints' = SlowPath(k, base_snapshot, checkpoints, inserted)
            BY <1>1, <2>3 DEF apply_event_in_place
        <3>2. Placed(SlowPath(k, base_snapshot, checkpoints, inserted), inserted)
            BY <1>2, <1>3, <1>4, SlowPathPlaced
        <3>3. QED BY <1>1, <3>1, <3>2
    <2>4. QED BY <2>1, <2>2, <2>3
<1>6. QED BY <1>5, PlacedParts

LEMMA ApplySnapshotPlaced ==
    ASSUME Unpruned, OrderIndependent,
           NEW id, NEW t \in SnapshotTimes, NEW p \in Payloads,
           apply_snapshot(id, t, p),
           \E e \in events : KeyLeq(Key(t, SnapshotId), e)
    PROVE  OrderIndependent'
<1> DEFINE key       == Key(t, SnapshotId)
           kept      == DropFrom(checkpoints, key)
           auth      == Fresh(p, {key}, t)
           corrected == [k \in DOMAIN kept \cup {key} |->
                            IF k = key THEN auth ELSE kept[k]]
<1>1. /\ TypeOK /\ EventSet(events) /\ CheckpointMap(checkpoints)
      /\ AllGrown(checkpoints, events, base_snapshot.from)
    BY TypeParts, UnprunedParts
<1>2. key \in ContimeKeys /\ CheckpointMap(corrected)
    BY <1>1, CorrectedType, SnapshotKeyType, HistoryAssumption
<1>3. Placed(checkpoints, events)
    BY PlacedParts
<1>4. AuthoritativeIn(checkpoints')
        = {a \in AuthoritativeIn(checkpoints) : KeyLess(a, key)} \cup {key}
    <2>1. Promise!Correct(t, p)
        BY ApplySnapshotPromise
    <2>2. Authoritative' = DOMAIN Promise!AnchorsBefore(key) \cup {key}
        BY <2>1, PromiseKeys DEF Promise!Correct
    <2>3. DOMAIN Promise!AnchorsBefore(key) = {a \in Authoritative : KeyLess(a, key)}
        BY PromiseKeys DEF Promise!AnchorsBefore
    <2> HIDE DEF key
    <2>4. QED BY <2>2, <2>3 DEF Authoritative, AuthoritativeIn
<1>5. DOMAIN checkpoints' = DOMAIN corrected \cup Closed(AfterBound({key}, events))
    BY DEF apply_snapshot, replay_and_checkpoint
<1>6. /\ DOMAIN corrected = DOMAIN kept \cup {key}
      /\ key \in corrected[key].anchor
      /\ \A k \in DOMAIN kept : corrected[k] = kept[k]
    <2>1. \A k \in DOMAIN kept : k # key
        BY <1>2, KeyLessIrreflexive DEF DropFrom
    <2>2. auth.anchor = {key}
        BY DEF Fresh
    <2> HIDE DEF kept, auth, key
    <2>3. QED BY <2>1, <2>2
<1>7. events' = events
    BY DEF apply_snapshot
<1> DEFINE after == checkpoints'
<1> HIDE DEF corrected, after, key
<1>8. Placed(after, events)
    BY <1>1, <1>2, <1>3, <1>4, <1>5, <1>6, CorrectPlaced DEF after
<1>9. QED BY <1>7, <1>8, PlacedParts DEF after

\* Where checkpoints lie does not depend on the order in which events and
\* corrections arrived.
THEOREM StaysOrderIndependent ==
    ASSUME AdvanceSteps = {}, ~AheadSnapshots
    PROVE  Spec => []OrderIndependent
<1>1. Init => OrderIndependent
    <2> SUFFICES ASSUME NEW p \in Payloads, new(p) PROVE OrderIndependent
        BY DEF Init
    <2>1. QED BY DEF new, OrderIndependent
<1>2. Unpruned /\ OrderIndependent /\ [Next]_vars => OrderIndependent'
    <2> SUFFICES ASSUME Unpruned, OrderIndependent, [Next]_vars PROVE OrderIndependent'
        OBVIOUS
    <2>1. ASSUME NEW k \in EventKeys, apply_event(k) PROVE OrderIndependent'
        BY <2>1, ApplyEventPlaced
    <2>2. ASSUME NEW id \in SnapshotIds, NEW t \in SnapshotTimes, NEW p \in Payloads,
                 MaySendSnapshot(t), apply_snapshot(id, t, p)
          PROVE  OrderIndependent'
        BY <2>2, ApplySnapshotPlaced DEF MaySendSnapshot
    <2>3. ASSUME UNCHANGED <<checkpoints, events>> PROVE OrderIndependent'
        BY <2>3, PlacedParts
    <2>4. QED BY <2>1, <2>2, <2>3
          DEF Next, vars, apply_snapshot_foreign, snapshot_at, snapshot_at_panics, recv
<1>3. QED BY <1>1, <1>2, StaysUnpruned, PTL DEF Spec
=============================================================================
