--------------------------- MODULE HistoryProofs ---------------------------
(***************************************************************************)
(* Theorems about a history, for every set of events, snapshots, queries   *)
(* and every checkpoint interval: the order of the keys, what the          *)
(* operations of src/apply.rs return and which checkpoints they keep, what *)
(* a step of a history preserves, and that its checkpoints and answers     *)
(* are sound as long as no event is older than the pruned horizon and no   *)
(* authoritative snapshot is newer than every stored event.                *)
(***************************************************************************)
EXTENDS History, SequenceTheorems, FiniteSetTheorems, TLAPS
-----------------------------------------------------------------------------
(***************************************************************************)
(* Keys.                                                                   *)
(***************************************************************************)
LEMMA KeyType ==
    ASSUME NEW t \in Int, NEW i \in Nat
    PROVE  Key(t, i) \in ContimeKeys /\ Key(t, i).time = t /\ Key(t, i).id = i
BY DEF Key, ContimeKeys

\* Two keys with the same fields are the same key.
LEMMA KeyExtensional ==
    ASSUME NEW a \in ContimeKeys, NEW b \in ContimeKeys,
           a.time = b.time, a.id = b.id
    PROVE  a = b
BY DEF ContimeKeys

LEMMA KeyLessIrreflexive ==
    ASSUME NEW a \in ContimeKeys
    PROVE  ~KeyLess(a, a)
BY DEF ContimeKeys, KeyLess

LEMMA KeyLessTransitive ==
    ASSUME NEW a \in ContimeKeys, NEW b \in ContimeKeys, NEW c \in ContimeKeys,
           KeyLess(a, b), KeyLess(b, c)
    PROVE  KeyLess(a, c)
BY DEF ContimeKeys, KeyLess

LEMMA KeyLessTotal ==
    ASSUME NEW a \in ContimeKeys, NEW b \in ContimeKeys
    PROVE  a = b \/ KeyLess(a, b) \/ KeyLess(b, a)
BY KeyExtensional DEF ContimeKeys, KeyLess

(***************************************************************************)
(* The derived Ord of ContimeKey is a strict total order, so a BTreeMap    *)
(* keyed by it has one iteration order.                                    *)
(***************************************************************************)
THEOREM KeyOrder ==
    \A a, b, c \in ContimeKeys :
        /\ ~KeyLess(a, a)
        /\ KeyLess(a, b) /\ KeyLess(b, c) => KeyLess(a, c)
        /\ KeyLess(a, b) => ~KeyLess(b, a)
        /\ a = b \/ KeyLess(a, b) \/ KeyLess(b, a)
BY KeyLessIrreflexive, KeyLessTransitive, KeyLessTotal

(***************************************************************************)
(* A non-empty map has a last key.  Among the sets of keys above a key of  *)
(* S, all finite, a smallest one is empty.                                 *)
(***************************************************************************)
LEMMA LastKeyExists ==
    ASSUME NEW S \in SUBSET ContimeKeys, IsFiniteSet(S), S # {}
    PROVE  \E k \in S : \A j \in S : KeyLeq(j, k)
<1> DEFINE Above(k) == {j \in S : KeyLess(k, j)}
           Sets     == {Above(k) : k \in S}
<1>1. Sets \subseteq FiniteSubsetsOf(S) /\ Sets # {}
    <2>1. ASSUME NEW k \in S PROVE Above(k) \in FiniteSubsetsOf(S)
        BY FS_Subset DEF FiniteSubsetsOf
    <2>2. QED BY <2>1
<1>2. IsWellFoundedOn(StrictSubsetOrdering(S), FiniteSubsetsOf(S))
    BY FS_StrictSubsetOrderingWellFounded
<1>3. PICK A \in Sets : \A B \in Sets : <<B, A>> \notin StrictSubsetOrdering(S)
    <2> HIDE DEF Sets
    <2> QED BY <1>1, <1>2, WFMin, Zenon
<1>4. PICK k \in S : A = Above(k)
    OBVIOUS
<1>5. ASSUME NEW j \in S, KeyLess(k, j) PROVE FALSE
    <2>1. Above(j) \subseteq Above(k)
        <3>1. ASSUME NEW i \in S, KeyLess(j, i) PROVE KeyLess(k, i)
            BY <1>5, <3>1, KeyLessTransitive
        <3>2. QED BY <3>1
    <2>2. j \in Above(k) /\ j \notin Above(j)
        BY <1>5, KeyLessIrreflexive
    <2>3. <<Above(j), Above(k)>> \in StrictSubsetOrdering(S)
        BY <2>1, <2>2 DEF StrictSubsetOrdering
    <2>4. QED BY <1>3, <1>4, <2>3
<1>6. \A j \in S : KeyLeq(j, k)
    BY <1>5, KeyLessTotal DEF KeyLeq
<1>7. QED BY <1>6

LEMMA LastKeyMaximal ==
    ASSUME NEW S \in SUBSET ContimeKeys, IsFiniteSet(S), S # {}
    PROVE  /\ LastKey(S) \in S
           /\ \A j \in S : KeyLeq(j, LastKey(S))
BY LastKeyExists DEF LastKey

-----------------------------------------------------------------------------
(***************************************************************************)
(* Checkpoints and replay.                                                 *)
(***************************************************************************)
EventSet(es) == es \in SUBSET ContimeKeys /\ IsFiniteSet(es)

CheckpointMap(cps) ==
    /\ cps \in [DOMAIN cps -> Snapshots]
    /\ DOMAIN cps \in SUBSET ContimeKeys
    /\ IsFiniteSet(DOMAIN cps)

LEMMA EventSubset ==
    ASSUME NEW es, EventSet(es), NEW R \in SUBSET es
    PROVE  EventSet(R)
BY FS_Subset DEF EventSet

LEMMA CheckpointDomain ==
    ASSUME NEW cps, CheckpointMap(cps)
    PROVE  EventSet(DOMAIN cps)
BY DEF EventSet, CheckpointMap

LEMMA LastKeyOfSingleton ==
    ASSUME NEW k \in ContimeKeys
    PROVE  LastKey({k}) = k
<1>1. IsFiniteSet({k})
    BY FS_Singleton
<1>2. QED BY <1>1, LastKeyMaximal

\* A bound is empty or holds the last key of its set.
LEMMA BoundAtLastIsLast ==
    ASSUME NEW S, EventSet(S)
    PROVE  /\ S = {} => BoundAtLast(S) = {}
           /\ S # {} => \E k \in S : /\ BoundAtLast(S) = {k}
                                     /\ LastKey(BoundAtLast(S)) = k
                                     /\ \A j \in S : KeyLeq(j, k)
<1>1. CASE S = {}
    BY <1>1 DEF BoundAtLast
<1>2. CASE S # {}
    <2>1. LastKey(S) \in S /\ \A j \in S : KeyLeq(j, LastKey(S))
        BY <1>2, LastKeyMaximal DEF EventSet
    <2>2. BoundAtLast(S) = {LastKey(S)}
        BY <1>2 DEF BoundAtLast
    <2>3. LastKey({LastKey(S)}) = LastKey(S)
        BY <2>1, LastKeyOfSingleton DEF EventSet
    <2>4. QED BY <1>2, <2>1, <2>2, <2>3
<1>3. QED BY <1>1, <1>2

LEMMA AfterBoundType ==
    ASSUME NEW bound, NEW es, EventSet(es)
    PROVE  AfterBound(bound, es) \in SUBSET es /\ EventSet(AfterBound(bound, es))
<1>1. AfterBound(bound, es) \in SUBSET es
    BY DEF AfterBound
<1>2. QED BY <1>1, EventSubset

LEMMA RankType ==
    ASSUME NEW R, EventSet(R), NEW k
    PROVE  Rank(k, R) \in Nat
<1>1. EventSet({j \in R : KeyLeq(j, k)})
    BY EventSubset
<1>2. QED BY <1>1, FS_CardinalityType DEF Rank, EventSet

LEMMA ReplayType ==
    ASSUME NEW s \in Snapshots, NEW R, EventSet(R)
    PROVE  Replay(s, R) \in Snapshots
<1>1. CASE R = {}
    BY <1>1 DEF Replay
<1>2. CASE R # {}
    <2>1. LastKey(R).time \in Int
        BY <1>2, LastKeyMaximal DEF EventSet, ContimeKeys
    <2>2. Cardinality(R) \in Nat
        BY FS_CardinalityType DEF EventSet
    <2> DEFINE inOrder == s.inOrder /\ \A j \in s.applied, k \in R : KeyLess(j, k)
    <2>3. inOrder \in BOOLEAN /\ s.items + Cardinality(R) \in Nat
          /\ s.applied \cup R \in SUBSET ContimeKeys
        BY <2>2 DEF Snapshots, EventSet
    <2>4. Replay(s, R) = [s EXCEPT !.applied = s.applied \cup R,
                                   !.items = s.items + Cardinality(R),
                                   !.inOrder = inOrder,
                                   !.time = LastKey(R).time]
        BY <1>2 DEF Replay
    <2> HIDE DEF inOrder
    <2>5. QED BY <2>1, <2>3, <2>4 DEF Snapshots
<1>3. QED BY <1>1, <1>2

\* What replaying a range does to each part of a snapshot.
LEMMA ReplayParts ==
    ASSUME NEW s \in Snapshots, NEW R
    PROVE  /\ Replay(s, R).anchor = s.anchor
           /\ Replay(s, R).applied = s.applied \cup R
           /\ /\ s.inOrder
              /\ \A j \in s.applied, k \in R : KeyLess(j, k)
              => Replay(s, R).inOrder
<1> DEFINE inOrder == s.inOrder /\ \A j \in s.applied, k \in R : KeyLess(j, k)
<1>1. CASE R = {}
    BY <1>1 DEF Replay
<1>2. CASE R # {}
    <2>1. Replay(s, R) = [s EXCEPT !.applied = s.applied \cup R,
                                   !.items = s.items + Cardinality(R),
                                   !.inOrder = inOrder,
                                   !.time = LastKey(R).time]
        BY <1>2 DEF Replay
    <2> HIDE DEF inOrder
    <2>2. /\ Replay(s, R).anchor = s.anchor
          /\ Replay(s, R).applied = s.applied \cup R
          /\ Replay(s, R).inOrder = inOrder
        BY <2>1 DEF Snapshots
    <2>3. QED BY <2>2 DEF inOrder
<1>3. QED BY <1>1, <1>2

LEMMA ReplayStartType ==
    ASSUME NEW base \in Snapshots, NEW cps, CheckpointMap(cps),
           NEW S \in SUBSET DOMAIN cps
    PROVE  ReplayStart(base, cps, BoundAtLast(S)) \in Snapshots
<1>1. EventSet(S)
    BY CheckpointDomain, EventSubset
<1>2. CASE S = {}
    BY <1>1, <1>2, BoundAtLastIsLast DEF ReplayStart
<1>3. CASE S # {}
    BY <1>1, <1>3, BoundAtLastIsLast DEF ReplayStart, CheckpointMap
<1>4. QED BY <1>2, <1>3

LEMMA DropFromType ==
    ASSUME NEW cps, CheckpointMap(cps), NEW key
    PROVE  /\ CheckpointMap(DropFrom(cps, key))
           /\ DOMAIN DropFrom(cps, key) = {c \in DOMAIN cps : KeyLess(c, key)}
           /\ \A c \in DOMAIN DropFrom(cps, key) : DropFrom(cps, key)[c] = cps[c]
BY FS_Subset DEF DropFrom, CheckpointMap

LEMMA ReplayAndCheckpointType ==
    ASSUME NEW s \in Snapshots, NEW bound, NEW cps, CheckpointMap(cps),
           NEW es, EventSet(es)
    PROVE  CheckpointMap(replay_and_checkpoint(s, bound, cps, es))
<1> DEFINE range  == AfterBound(bound, es)
           closed == Closed(range)
           result == replay_and_checkpoint(s, bound, cps, es)
<1>1. EventSet(range) /\ closed \in SUBSET range
    BY AfterBoundType DEF Closed
<1>2. EventSet(closed)
    BY <1>1, EventSubset
<1>3. /\ DOMAIN result = DOMAIN cps \cup closed
      /\ \A k \in DOMAIN result :
            result[k] = IF k \in closed
                        THEN Replay(s, {j \in range : KeyLeq(j, k)}) ELSE cps[k]
      /\ result = [k \in DOMAIN result |-> result[k]]
    BY DEF replay_and_checkpoint
<1>4. \A k : Replay(s, {j \in range : KeyLeq(j, k)}) \in Snapshots
    BY <1>1, EventSubset, ReplayType
<1> HIDE DEF range, closed, result
<1>5. IsFiniteSet(DOMAIN result) /\ DOMAIN result \in SUBSET ContimeKeys
    <2>1. IsFiniteSet(closed) /\ IsFiniteSet(DOMAIN cps)
        BY <1>2 DEF EventSet, CheckpointMap
    <2>2. IsFiniteSet(DOMAIN cps \cup closed)
        BY <2>1, FS_Union
    <2>3. DOMAIN cps \cup closed \in SUBSET ContimeKeys
        BY <1>2 DEF EventSet, CheckpointMap
    <2>4. QED BY <1>3, <2>2, <2>3
<1>6. \A k \in DOMAIN result : result[k] \in Snapshots
    BY <1>3, <1>4 DEF CheckpointMap
<1>7. CheckpointMap(result)
    BY <1>3, <1>5, <1>6 DEF CheckpointMap
<1>8. QED BY <1>7 DEF result

\* Storing one more checkpoint.
LEMMA InsertCheckpointType ==
    ASSUME NEW cps, CheckpointMap(cps), NEW key \in ContimeKeys,
           NEW s \in Snapshots
    PROVE  CheckpointMap([k \in DOMAIN cps \cup {key} |->
                             IF k = key THEN s ELSE cps[k]])
BY FS_AddElement DEF CheckpointMap

LEMMA ApplyEventType ==
    ASSUME NEW key \in ContimeKeys, NEW base \in Snapshots,
           NEW cps, CheckpointMap(cps), NEW es, EventSet(es)
    PROVE  /\ CheckpointMap(apply_event_in_place(key, base, cps, es))
           /\ EventSet(es \cup {key})
<1> DEFINE inserted == es \cup {key}
<1>1. EventSet(inserted)
    BY FS_AddElement DEF EventSet
<1> HIDE DEF inserted
<1>2. CheckpointMap(FastPath(key, base, cps, inserted))
    <2> DEFINE bound == BoundAtLast(DOMAIN cps)
               snap  == Replay(ReplayStart(base, cps, bound),
                               AfterBound(bound, inserted))
    <2>1. snap \in Snapshots
        BY <1>1, ReplayStartType, AfterBoundType, ReplayType
    <2> HIDE DEF snap
    <2>2. CheckpointMap([k \in DOMAIN cps \cup {key} |->
                            IF k = key THEN snap ELSE cps[k]])
        BY <2>1, InsertCheckpointType
    <2>3. QED BY <2>2 DEF FastPath, snap
<1>3. CheckpointMap(SlowPath(key, base, cps, inserted))
    <2> DEFINE kept  == DropFrom(cps, key)
               bound == BoundAtLast(DOMAIN kept)
    <2>1. CheckpointMap(kept)
        BY DropFromType
    <2> HIDE DEF kept
    <2>2. ReplayStart(base, kept, bound) \in Snapshots
        BY <2>1, ReplayStartType
    <2>3. CheckpointMap(replay_and_checkpoint(ReplayStart(base, kept, bound),
                                              bound, kept, inserted))
        BY <1>1, <2>1, <2>2, ReplayAndCheckpointType
    <2>4. QED BY <2>3 DEF SlowPath, kept
<1>4. CheckpointMap(apply_event_in_place(key, base, cps, es))
    BY <1>2, <1>3 DEF apply_event_in_place, inserted
<1>5. QED BY <1>1, <1>4 DEF inserted
-----------------------------------------------------------------------------
(***************************************************************************)
(* Which state a replay produces.                                          *)
(***************************************************************************)

UpToIn(es, k) == {e \in es : KeyLeq(e, k)}

\* Every checkpoint is the state at its key.
AllSound(cps, es, drop) ==
    \A k \in DOMAIN cps :
        /\ cps[k].inOrder
        /\ Reflects(cps[k], k, UpToIn(es, k), es, cps, drop)

Behind(s, drop) ==
    /\ \A k \in s.anchor \cup s.applied : k.time < drop
    /\ \A a \in s.anchor, e \in s.applied : KeyLess(a, e)

\* A snapshot replay may start from: the state at the bound, or, with no
\* bound, a state older than every event.
SoundStart(s, bound, es, cps, drop) ==
    /\ s \in Snapshots
    /\ s.inOrder
    /\ \/ bound = {} /\ Behind(s, drop)
       \/ \E c \in ContimeKeys :
             bound = {c} /\ Reflects(s, c, UpToIn(es, c), es, cps, drop)

LEMMA KeyLeqTransitive ==
    ASSUME NEW a \in ContimeKeys, NEW b \in ContimeKeys, NEW c \in ContimeKeys,
           KeyLeq(a, b), KeyLeq(b, c)
    PROVE  KeyLeq(a, c)
BY KeyLessTransitive DEF KeyLeq

LEMMA KeyLeqLess ==
    ASSUME NEW a \in ContimeKeys, NEW b \in ContimeKeys, NEW c \in ContimeKeys,
           KeyLeq(a, b), KeyLess(b, c)
    PROVE  KeyLess(a, c)
BY KeyLessTransitive DEF KeyLeq

LEMMA KeyLessLeq ==
    ASSUME NEW a \in ContimeKeys, NEW b \in ContimeKeys, NEW c \in ContimeKeys,
           KeyLess(a, b), KeyLeq(b, c)
    PROVE  KeyLess(a, c)
BY KeyLessTransitive DEF KeyLeq

LEMMA KeyLessAntisymmetric ==
    ASSUME NEW a \in ContimeKeys, NEW b \in ContimeKeys, KeyLess(a, b)
    PROVE  ~KeyLeq(b, a)
BY KeyOrder DEF KeyLeq

LEMMA TimeLess ==
    ASSUME NEW a \in ContimeKeys, NEW b \in ContimeKeys, NEW drop \in Int,
           a.time < drop, b.time >= drop
    PROVE  KeyLess(a, b)
BY DEF ContimeKeys, KeyLess

\* A state stays the state at its key when events older than a later horizon
\* go and no authoritative snapshot is added up to the key.
LEMMA ReflectsMonotone ==
    ASSUME NEW s, NEW k, NEW scope, NEW es, NEW cps, NEW drop \in Int,
           Reflects(s, k, scope, es, cps, drop), s \in Snapshots,
           NEW scope2 \in SUBSET scope, NEW es2, NEW cps2, NEW drop2 \in Int,
           drop <= drop2,
           \A e \in es : e \in es2 \/ e.time < drop2,
           \A c \in DOMAIN cps2 :
              KeyLeq(c, k) /\ c \in cps2[c].anchor
                 => c \in DOMAIN cps /\ c \in cps[c].anchor
    PROVE  Reflects(s, k, scope2, es2, cps2, drop2)
<1>1. ASSUME NEW e \in s.applied
      PROVE  e \in es2 \/ e.time < drop2
    <2>1. e.time \in Int
        BY DEF Snapshots, ContimeKeys
    <2>2. e \in es \/ e.time < drop
        BY DEF Reflects
    <2>3. QED BY <2>1, <2>2
<1>2. QED BY <1>1 DEF Reflects

LEMMA StartSound ==
    ASSUME NEW base \in Snapshots, NEW cps, CheckpointMap(cps),
           NEW es, NEW drop, AllSound(cps, es, drop),
           base.inOrder, Behind(base, drop), NEW S \in SUBSET DOMAIN cps
    PROVE  SoundStart(ReplayStart(base, cps, BoundAtLast(S)), BoundAtLast(S),
                      es, cps, drop)
<1>1. EventSet(S)
    BY CheckpointDomain, EventSubset
<1>2. CASE S = {}
    BY <1>1, <1>2, BoundAtLastIsLast DEF ReplayStart, SoundStart
<1>3. CASE S # {}
    <2>1. PICK c \in S : BoundAtLast(S) = {c} /\ LastKey(BoundAtLast(S)) = c
        BY <1>1, <1>3, BoundAtLastIsLast
    <2>2. ReplayStart(base, cps, BoundAtLast(S)) = cps[c]
        BY <2>1 DEF ReplayStart
    <2>3. c \in ContimeKeys /\ cps[c] \in Snapshots
        BY DEF CheckpointMap
    <2>4. cps[c].inOrder /\ Reflects(cps[c], c, UpToIn(es, c), es, cps, drop)
        BY DEF AllSound
    <2>5. QED BY <2>1, <2>2, <2>3, <2>4 DEF SoundStart
<1>4. QED BY <1>2, <1>3

(***************************************************************************)
(* Replaying the events between a sound start and a key, all of them and   *)
(* nothing else, produces the state at that key.                           *)
(***************************************************************************)
LEMMA ReplaySound ==
    ASSUME NEW es, EventSet(es), NEW cps, CheckpointMap(cps), NEW drop \in Int,
           \A e \in es : e.time >= drop,
           NEW s, NEW bound, SoundStart(s, bound, es, cps, drop),
           NEW key \in ContimeKeys,
           bound = {} => key.time >= drop,
           \A b \in bound : KeyLeq(b, key),
           \A c \in DOMAIN cps :
              KeyLeq(c, key) /\ c \in cps[c].anchor
                 => \E b \in bound : KeyLeq(c, b),
           NEW R \in SUBSET AfterBound(bound, es),
           \A j \in R : KeyLeq(j, key),
           NEW scope \in SUBSET es,
           \A e \in scope : e \in AfterBound(bound, es) => e \in R
    PROVE  /\ Replay(s, R).inOrder
           /\ Reflects(Replay(s, R), key, scope, es, cps, drop)
<1> DEFINE r == Replay(s, R)
<1>1. /\ r.anchor = s.anchor
      /\ r.applied = s.applied \cup R
      /\ s.inOrder /\ (\A j \in s.applied, k \in R : KeyLess(j, k)) => r.inOrder
    BY ReplayParts DEF SoundStart
<1> HIDE DEF r
<1>2. /\ R \in SUBSET es /\ es \in SUBSET ContimeKeys
      /\ \A j \in R : \A b \in bound : KeyLess(b, j)
      /\ \A e \in es : (\A b \in bound : KeyLess(b, e)) => e \in AfterBound(bound, es)
      /\ DOMAIN cps \in SUBSET ContimeKeys
    BY DEF AfterBound, EventSet, CheckpointMap
<1>3. /\ s.anchor \in SUBSET ContimeKeys /\ s.applied \in SUBSET ContimeKeys
      /\ s.inOrder
    BY DEF SoundStart, Snapshots
<1>4. CASE bound = {} /\ Behind(s, drop)
    <2>1. \A a \in s.anchor \cup s.applied :
             a.time < drop /\ KeyLess(a, key) /\ \A e \in es : KeyLess(a, e)
        BY <1>2, <1>3, <1>4, TimeLess DEF Behind
    <2>2. r.inOrder
        BY <1>1, <1>2, <1>3, <2>1
    <2>3. \A a \in r.anchor : KeyLeq(a, key)
        BY <1>1, <2>1 DEF KeyLeq
    <2>4. \A e \in r.applied :
             /\ KeyLeq(e, key)
             /\ e \in es \/ e.time < drop
        BY <1>1, <1>2, <2>1 DEF KeyLeq
    <2>5. \A e \in r.applied : \A a \in r.anchor : KeyLess(a, e)
        BY <1>1, <1>2, <1>4, <2>1 DEF Behind
    <2>6. \A e \in scope : e \in r.applied
        BY <1>1, <1>2, <1>4
    <2>7. \A c \in DOMAIN cps : ~(KeyLeq(c, key) /\ c \in cps[c].anchor)
        BY <1>4
    <2>8. QED BY <2>2, <2>3, <2>4, <2>5, <2>6, <2>7 DEF Reflects, r
<1>5. ASSUME NEW b \in ContimeKeys, bound = {b},
             Reflects(s, b, UpToIn(es, b), es, cps, drop)
      PROVE  r.inOrder /\ Reflects(r, key, scope, es, cps, drop)
    <2>1. /\ \A a \in s.anchor : KeyLeq(a, b)
          /\ \A e \in s.applied :
                /\ KeyLeq(e, b)
                /\ e \in es \/ e.time < drop
                /\ \A a \in s.anchor : KeyLess(a, e)
        BY <1>5 DEF Reflects
    <2>2. KeyLeq(b, key) /\ \A j \in R : KeyLess(b, j)
        BY <1>2, <1>5
    <2>3. \A j \in R : \A k \in s.anchor \cup s.applied : KeyLess(k, j)
        BY <1>2, <1>3, <2>1, <2>2, KeyLeqLess
    <2>4. r.inOrder
        BY <1>1, <1>3, <2>3
    <2>5. \A k \in s.anchor \cup s.applied : KeyLeq(k, key)
        BY <1>3, <2>1, <2>2, KeyLeqTransitive
    <2>6. \A e \in r.applied :
             /\ KeyLeq(e, key)
             /\ e \in es \/ e.time < drop
             /\ \A a \in r.anchor : KeyLess(a, e)
        BY <1>1, <1>2, <2>1, <2>3, <2>5
    <2>7. ASSUME NEW e \in scope, \A a \in r.anchor : KeyLess(a, e)
          PROVE  e \in r.applied
        <3>1. CASE KeyLess(b, e)
            BY <1>1, <1>2, <1>5, <3>1
        <3>2. CASE ~KeyLess(b, e)
            <4>1. e \in es /\ KeyLeq(e, b)
                BY <1>2, <3>2, KeyLessTotal DEF KeyLeq
            <4>2. e \in s.applied
                BY <1>1, <1>5, <2>7, <4>1 DEF Reflects, UpToIn
            <4>3. QED BY <1>1, <4>2
        <3>3. QED BY <3>1, <3>2
    <2>8. ASSUME NEW c \in DOMAIN cps, KeyLeq(c, key), c \in cps[c].anchor
          PROVE  \E a \in r.anchor : KeyLeq(c, a)
        <3>1. KeyLeq(c, b)
            BY <1>5, <2>8
        <3>2. QED BY <1>1, <1>5, <2>8, <3>1 DEF Reflects
    <2>9. QED BY <1>1, <2>4, <2>5, <2>6, <2>7, <2>8 DEF Reflects
<1>6. QED BY <1>4, <1>5 DEF SoundStart, r

\* result is cps with checkpoints taken at the keys in closed by a replay
\* from s after bound.
Extends(result, cps, closed, s, bound, es) ==
    /\ closed \in SUBSET AfterBound(bound, es)
    /\ DOMAIN result = DOMAIN cps \cup closed
    /\ \A k \in DOMAIN result :
          result[k] = IF k \in closed
                      THEN Replay(s, {j \in AfterBound(bound, es) : KeyLeq(j, k)})
                      ELSE cps[k]

\* Every checkpoint is at or before the bound.
Bounded(cps, bound) == \A c \in DOMAIN cps : \E b \in bound : KeyLeq(c, b)

Retained(es, drop) == \A e \in es : e.time >= drop

(***************************************************************************)
(* Adding checkpoints taken during one replay keeps every checkpoint sound *)
(* when the replay starts at or after the existing ones.  The new ones are *)
(* never authoritative.                                                    *)
(***************************************************************************)
LEMMA ExtendSound ==
    ASSUME NEW es, EventSet(es), NEW cps, CheckpointMap(cps), NEW drop \in Int,
           Retained(es, drop), AllSound(cps, es, drop),
           NEW s, NEW bound, SoundStart(s, bound, es, cps, drop),
           Bounded(cps, bound),
           NEW closed, NEW result, Extends(result, cps, closed, s, bound, es)
    PROVE  AllSound(result, es, drop)
<1> USE DEF Extends, Bounded, Retained
<1>1. /\ closed \in SUBSET es /\ es \in SUBSET ContimeKeys
      /\ \A k \in closed : \A b \in bound : KeyLess(b, k)
    BY DEF AfterBound, EventSet
<1>2. ASSUME NEW k \in closed
      PROVE  k \notin result[k].anchor
    <2> DEFINE R == {j \in AfterBound(bound, es) : KeyLeq(j, k)}
    <2>1. result[k].anchor = s.anchor
        <3>1. result[k] = Replay(s, R) /\ s \in Snapshots
            BY DEF SoundStart
        <3> HIDE DEF R
        <3>2. QED BY <3>1, ReplayParts
    <2>2. CASE bound = {} /\ Behind(s, drop)
        <3>1. k.time >= drop /\ k.time \in Int
            BY <1>1 DEF ContimeKeys
        <3>2. k \notin s.anchor
            BY <2>2, <3>1 DEF Behind
        <3>3. QED BY <2>1, <3>2
    <2>3. ASSUME NEW b \in ContimeKeys, bound = {b},
                 \A a \in s.anchor : KeyLeq(a, b)
          PROVE  k \notin s.anchor
        BY <1>1, <2>3, KeyLessAntisymmetric
    <2>4. QED BY <2>1, <2>2, <2>3 DEF SoundStart, Reflects
<1>3. \A c \in DOMAIN result :
         c \in result[c].anchor => c \in DOMAIN cps /\ c \in cps[c].anchor
    BY <1>2
<1>4. ASSUME NEW k \in closed
      PROVE  /\ result[k].inOrder
             /\ Reflects(result[k], k, UpToIn(es, k), es, result, drop)
    <2> DEFINE range == AfterBound(bound, es)
               R == {j \in range : KeyLeq(j, k)}
    <2>1. k \in ContimeKeys /\ k.time >= drop /\ result[k] = Replay(s, R)
        BY <1>1
    <2>2. Replay(s, R) \in Snapshots
        BY AfterBoundType, EventSubset, ReplayType DEF SoundStart
    <2>3. \A e \in UpToIn(es, k) : e \in AfterBound(bound, es) => e \in R
        BY DEF UpToIn
    <2>4. \A b \in bound : KeyLeq(b, k)
        BY <1>1 DEF KeyLeq
    <2>5. R \in SUBSET AfterBound(bound, es) /\ (\A j \in R : KeyLeq(j, k))
          /\ UpToIn(es, k) \in SUBSET es
        BY DEF UpToIn
    <2> HIDE DEF R
    <2>6. /\ Replay(s, R).inOrder
          /\ Reflects(Replay(s, R), k, UpToIn(es, k), es, cps, drop)
        BY <2>1, <2>3, <2>4, <2>5, ReplaySound
    <2>7. Reflects(Replay(s, R), k, UpToIn(es, k), es, result, drop)
        BY <1>3, <2>2, <2>6, ReflectsMonotone
    <2>8. QED BY <2>1, <2>6, <2>7
<1>5. ASSUME NEW k \in DOMAIN cps, k \notin closed
      PROVE  /\ result[k].inOrder
             /\ Reflects(result[k], k, UpToIn(es, k), es, result, drop)
    <2>1. result[k] = cps[k] /\ cps[k] \in Snapshots
        BY <1>5 DEF CheckpointMap
    <2>2. cps[k].inOrder /\ Reflects(cps[k], k, UpToIn(es, k), es, cps, drop)
        BY DEF AllSound
    <2>3. Reflects(cps[k], k, UpToIn(es, k), es, result, drop)
        BY <1>3, <2>1, <2>2, ReflectsMonotone
    <2>4. QED BY <2>1, <2>2, <2>3
<1>6. QED BY <1>4, <1>5 DEF AllSound
-----------------------------------------------------------------------------
(***************************************************************************)
(* apply_event_in_place and apply_snapshot keep every checkpoint sound.    *)
(***************************************************************************)

\* Removing the checkpoints at or after a key, and adding that key to the
\* events or not, leaves the others sound.
LEMMA DropFromSound ==
    ASSUME NEW es \in SUBSET ContimeKeys, NEW cps, CheckpointMap(cps),
           NEW drop \in Int, AllSound(cps, es, drop),
           NEW key \in ContimeKeys, NEW es2, es \subseteq es2,
           es2 \subseteq es \cup {key}
    PROVE  AllSound(DropFrom(cps, key), es2, drop)
<1> DEFINE kept == DropFrom(cps, key)
<1>1. /\ DOMAIN kept = {c \in DOMAIN cps : KeyLess(c, key)}
      /\ \A c \in DOMAIN kept : kept[c] = cps[c]
    BY DropFromType
<1> SUFFICES ASSUME NEW k \in DOMAIN kept
             PROVE  /\ kept[k].inOrder
                    /\ Reflects(kept[k], k, UpToIn(es2, k), es2, kept, drop)
    BY DEF AllSound
<1> HIDE DEF kept
<1>2. /\ k \in DOMAIN cps /\ k \in ContimeKeys /\ KeyLess(k, key)
      /\ kept[k] = cps[k] /\ cps[k] \in Snapshots
    BY <1>1 DEF CheckpointMap
<1>3. cps[k].inOrder /\ Reflects(cps[k], k, UpToIn(es, k), es, cps, drop)
    BY <1>2 DEF AllSound
<1>4. UpToIn(es2, k) \in SUBSET UpToIn(es, k)
    BY <1>2, KeyLessAntisymmetric DEF UpToIn
<1>5. Reflects(cps[k], k, UpToIn(es2, k), es2, kept, drop)
    BY <1>1, <1>2, <1>3, <1>4, ReflectsMonotone
<1>6. QED BY <1>2, <1>3, <1>5

LEMMA SlowPathSound ==
    ASSUME NEW es, EventSet(es), NEW cps, CheckpointMap(cps), NEW drop \in Int,
           AllSound(cps, es, drop), NEW base \in Snapshots, base.inOrder,
           Behind(base, drop), NEW key \in ContimeKeys,
           \A e \in es \cup {key} : e.time >= drop
    PROVE  AllSound(SlowPath(key, base, cps, es \cup {key}), es \cup {key}, drop)
<1> DEFINE es2    == es \cup {key}
           kept   == DropFrom(cps, key)
           bound  == BoundAtLast(DOMAIN kept)
           start  == ReplayStart(base, kept, bound)
           closed == Closed(AfterBound(bound, es2))
           result == replay_and_checkpoint(start, bound, kept, es2)
<1>1. EventSet(es2) /\ es \in SUBSET ContimeKeys
    BY FS_AddElement DEF EventSet
<1>2. CheckpointMap(kept) /\ AllSound(kept, es2, drop)
    BY <1>1, DropFromType, DropFromSound
<1> HIDE DEF kept, es2
<1>3. SoundStart(start, bound, es2, kept, drop)
    BY <1>2, StartSound
<1>4. Bounded(kept, bound)
    BY <1>2, CheckpointDomain, BoundAtLastIsLast DEF Bounded
<1>5. Extends(result, kept, closed, start, bound, es2)
    BY DEF replay_and_checkpoint, Extends, Closed
<1>6. Retained(es2, drop)
    BY DEF es2, Retained
<1> HIDE DEF bound, start, closed, result
<1>7. AllSound(result, es2, drop)
    BY <1>1, <1>2, <1>3, <1>4, <1>5, <1>6, ExtendSound
<1>8. QED BY <1>7 DEF SlowPath, result, start, bound, kept, es2

\* The latest event follows every checkpoint, so all of them can stay.
LEMMA FastPathSound ==
    ASSUME NEW es, EventSet(es), NEW cps, CheckpointMap(cps), NEW drop \in Int,
           AllSound(cps, es, drop), NEW base \in Snapshots, base.inOrder,
           Behind(base, drop), NEW key \in ContimeKeys,
           \A e \in es \cup {key} : e.time >= drop,
           key \notin es, \A k \in es : ~KeyLess(key, k),
           \A c \in DOMAIN cps : \E e \in es : KeyLeq(c, e)
    PROVE  AllSound(FastPath(key, base, cps, es \cup {key}), es \cup {key}, drop)
<1> DEFINE es2   == es \cup {key}
           bound == BoundAtLast(DOMAIN cps)
           start == ReplayStart(base, cps, bound)
           range == AfterBound(bound, es2)
           result == FastPath(key, base, cps, es2)
<1>1. EventSet(es2) /\ es \in SUBSET ContimeKeys /\ es2 \in SUBSET ContimeKeys
    BY FS_AddElement DEF EventSet
<1>2. \A e \in es : KeyLess(e, key)
    BY <1>1, KeyLessTotal
<1>3. \A c \in DOMAIN cps : KeyLess(c, key)
    BY <1>1, <1>2, KeyLeqLess DEF CheckpointMap
<1>4. DropFrom(cps, key) = cps
    BY <1>3 DEF DropFrom, CheckpointMap
<1>5. AllSound(cps, es2, drop)
    BY <1>1, <1>4, DropFromSound
<1>6. SoundStart(start, bound, es2, cps, drop)
    BY <1>5, StartSound
<1>7. Bounded(cps, bound)
    BY CheckpointDomain, BoundAtLastIsLast DEF Bounded
<1>8. bound \in SUBSET DOMAIN cps
    BY CheckpointDomain, BoundAtLastIsLast
<1>9. key \in range
    BY <1>3, <1>8 DEF AfterBound
<1>10. range = {j \in range : KeyLeq(j, key)}
    BY <1>2 DEF AfterBound, KeyLeq
<1>11. Retained(es2, drop)
    BY DEF Retained
<1>12. CASE Cardinality(range) % CheckpointInterval = 0
    <2>1. result = [k \in DOMAIN cps \cup {key} |->
                       IF k = key THEN Replay(start, range) ELSE cps[k]]
        BY <1>12 DEF FastPath
    <2>2. Extends(result, cps, {key}, start, bound, es2)
        BY <1>9, <1>10, <2>1 DEF Extends
    <2> HIDE DEF result, es2, bound, start
    <2>3. AllSound(result, es2, drop)
        BY <1>1, <1>5, <1>6, <1>7, <1>11, <2>2, ExtendSound
    <2>4. QED BY <2>3 DEF result, es2
<1>13. CASE Cardinality(range) % CheckpointInterval # 0
    <2>1. result = cps
        BY <1>13 DEF FastPath
    <2>2. QED BY <1>5, <2>1
<1>14. QED BY <1>12, <1>13

LEMMA ApplyEventSound ==
    ASSUME NEW es, EventSet(es), NEW cps, CheckpointMap(cps), NEW drop \in Int,
           AllSound(cps, es, drop), NEW base \in Snapshots, base.inOrder,
           Behind(base, drop), NEW key \in ContimeKeys,
           \A e \in es \cup {key} : e.time >= drop,
           \A c \in DOMAIN cps : \E e \in es : KeyLeq(c, e)
    PROVE  LET result == apply_event_in_place(key, base, cps, es)
           IN  /\ AllSound(result, es \cup {key}, drop)
               /\ \A c \in DOMAIN result : \E e \in es \cup {key} : KeyLeq(c, e)
<1> DEFINE es2    == es \cup {key}
           result == apply_event_in_place(key, base, cps, es)
<1>1. CASE key \in es
    BY <1>1 DEF apply_event_in_place
<1>2. CASE key \notin es /\ \A k \in es : ~KeyLess(key, k)
    <2>1. result = FastPath(key, base, cps, es2)
        BY <1>2 DEF apply_event_in_place
    <2>2. AllSound(result, es2, drop)
        BY <1>2, <2>1, FastPathSound
    <2>3. \A c \in DOMAIN result : c \in DOMAIN cps \cup {key}
        BY <2>1 DEF FastPath
    <2>4. QED BY <2>2, <2>3 DEF KeyLeq
<1>3. CASE key \notin es /\ ~\A k \in es : ~KeyLess(key, k)
    <2>1. result = SlowPath(key, base, cps, es2)
        BY <1>3 DEF apply_event_in_place
    <2>2. AllSound(result, es2, drop)
        BY <2>1, SlowPathSound
    <2>3. \A c \in DOMAIN result : c \in DOMAIN cps \cup es2
        BY <2>1 DEF SlowPath, replay_and_checkpoint, DropFrom, Closed, AfterBound
    <2>4. QED BY <2>2, <2>3 DEF KeyLeq
<1>4. QED BY <1>1, <1>2, <1>3

\* Inserting an authoritative snapshot and replaying on top of it.
LEMMA CorrectSound ==
    ASSUME NEW es, EventSet(es), NEW cps, CheckpointMap(cps), NEW drop \in Int,
           AllSound(cps, es, drop), NEW key \in ContimeKeys,
           Retained(es, drop),
           NEW auth \in Snapshots, auth.inOrder, auth.anchor = {key},
           auth.applied = {},
           NEW corrected, CheckpointMap(corrected),
           DOMAIN corrected = DOMAIN DropFrom(cps, key) \cup {key},
           corrected[key] = auth,
           \A k \in DOMAIN DropFrom(cps, key) : corrected[k] = DropFrom(cps, key)[k]
    PROVE  AllSound(replay_and_checkpoint(auth, {key}, corrected, es), es, drop)
<1> DEFINE kept   == DropFrom(cps, key)
           closed == Closed(AfterBound({key}, es))
           result == replay_and_checkpoint(auth, {key}, corrected, es)
<1>1. /\ CheckpointMap(kept) /\ AllSound(kept, es, drop)
      /\ DOMAIN kept = {c \in DOMAIN cps : KeyLess(c, key)}
    <2>1. CheckpointMap(kept) /\ DOMAIN kept = {c \in DOMAIN cps : KeyLess(c, key)}
        <3>1. CheckpointMap(DropFrom(cps, key))
            BY DropFromType
        <3>2. DOMAIN DropFrom(cps, key) = {c \in DOMAIN cps : KeyLess(c, key)}
            BY DEF DropFrom
        <3>3. QED BY <3>1, <3>2
    <2>2. es \in SUBSET ContimeKeys /\ es \subseteq es /\ es \subseteq es \cup {key}
        BY DEF EventSet
    <2> HIDE DEF kept
    <2>3. AllSound(DropFrom(cps, key), es, drop)
        BY <2>2, DropFromSound
    <2>4. QED BY <2>1, <2>3 DEF kept
<1> HIDE DEF kept
<1>2. /\ DOMAIN corrected = DOMAIN kept \cup {key}
      /\ corrected[key] = auth
      /\ \A k \in DOMAIN kept : k # key /\ corrected[k] = kept[k]
    BY <1>1, KeyLessIrreflexive DEF kept, CheckpointMap
<1>3. Reflects(auth, key, UpToIn(es, key), es, corrected, drop)
    BY KeyLessAntisymmetric DEF Reflects, UpToIn, KeyLeq, EventSet
<1>4. AllSound(corrected, es, drop)
    <2>1. ASSUME NEW k \in DOMAIN kept
          PROVE  /\ corrected[k].inOrder
                 /\ Reflects(corrected[k], k, UpToIn(es, k), es, corrected, drop)
        <3>1. /\ kept[k] \in Snapshots /\ kept[k].inOrder
              /\ Reflects(kept[k], k, UpToIn(es, k), es, kept, drop)
            BY <1>1 DEF AllSound, CheckpointMap
        <3>2. k \in ContimeKeys /\ ~KeyLeq(key, k)
            BY <1>1, KeyLessAntisymmetric DEF CheckpointMap
        <3>3. \A c \in DOMAIN corrected :
                 KeyLeq(c, k) /\ c \in corrected[c].anchor
                    => c \in DOMAIN kept /\ c \in kept[c].anchor
            BY <1>2, <3>2
        <3>4. Reflects(kept[k], k, UpToIn(es, k), es, corrected, drop)
            BY <3>1, <3>3, ReflectsMonotone
        <3>5. QED BY <1>2, <3>1, <3>4
    <2>2. QED BY <1>2, <1>3, <2>1 DEF AllSound
<1>5. SoundStart(auth, {key}, es, corrected, drop)
    BY <1>3 DEF SoundStart
<1>6. Bounded(corrected, {key})
    BY <1>1, <1>2 DEF KeyLeq, Bounded
<1>7. Extends(result, corrected, closed, auth, {key}, es)
    BY DEF replay_and_checkpoint, Extends, Closed
<1> HIDE DEF closed, result
<1>8. AllSound(result, es, drop)
    BY <1>4, <1>5, <1>6, <1>7, ExtendSound
<1>9. QED BY <1>8 DEF result
-----------------------------------------------------------------------------
(***************************************************************************)
(* Which answers an operation leaves alone.                                *)
(***************************************************************************)

LEMMA LastKeyUnique ==
    ASSUME NEW S, EventSet(S), NEW k \in S, \A j \in S : KeyLeq(j, k)
    PROVE  LastKey(S) = k /\ BoundAtLast(S) = {k}
<1>1. /\ LastKey(S) \in S /\ KeyLeq(k, LastKey(S)) /\ KeyLeq(LastKey(S), k)
      /\ LastKey(S) \in ContimeKeys /\ k \in ContimeKeys
    BY LastKeyMaximal DEF EventSet
<1>2. LastKey(S) = k
    BY <1>1, KeyLessAntisymmetric DEF KeyLeq
<1>3. QED BY <1>2 DEF BoundAtLast

\* Replaying a range in two parts is replaying it at once.
LEMMA ReplayCompose ==
    ASSUME NEW s \in Snapshots, NEW R, EventSet(R), NEW S, EventSet(S),
           \A j \in R, k \in S : KeyLess(j, k)
    PROVE  Replay(Replay(s, R), S) = Replay(s, R \cup S)
<1>1. CASE R = {} \/ S = {}
    BY <1>1 DEF Replay
<1>2. CASE R # {} /\ S # {}
    <2> DEFINE r == Replay(s, R)
               inOrder == s.inOrder /\ \A j \in s.applied, k \in R : KeyLess(j, k)
               later == r.inOrder /\ \A j \in r.applied, k \in S : KeyLess(j, k)
               both == s.inOrder /\ \A j \in s.applied, k \in R \cup S : KeyLess(j, k)
    <2>1. r = [s EXCEPT !.applied = s.applied \cup R,
                        !.items = s.items + Cardinality(R),
                        !.inOrder = inOrder, !.time = LastKey(R).time]
        BY <1>2 DEF Replay
    <2>2. Replay(r, S) = [r EXCEPT !.applied = r.applied \cup S,
                                   !.items = r.items + Cardinality(S),
                                   !.inOrder = later, !.time = LastKey(S).time]
        BY <1>2 DEF Replay
    <2>3. Replay(s, R \cup S) = [s EXCEPT !.applied = s.applied \cup (R \cup S),
                                !.items = s.items + Cardinality(R \cup S),
                                !.inOrder = both,
                                !.time = LastKey(R \cup S).time]
        BY <1>2 DEF Replay
    <2>4. EventSet(R \cup S) /\ Cardinality(R \cup S) = Cardinality(R) + Cardinality(S)
        <3>1. R \cap S = {}
            BY KeyLessIrreflexive DEF EventSet
        <3>2. /\ IsFiniteSet(R \cup S)
              /\ Cardinality(R \cup S) = Cardinality(R) + Cardinality(S) - Cardinality({})
            BY <3>1, FS_Union DEF EventSet
        <3>3. Cardinality({}) = 0 /\ Cardinality(R) \in Nat /\ Cardinality(S) \in Nat
            BY FS_EmptySet, FS_CardinalityType DEF EventSet
        <3>4. QED BY <3>2, <3>3 DEF EventSet
    <2>5. LastKey(R \cup S) = LastKey(S)
        <3>1. LastKey(S) \in S /\ \A j \in S : KeyLeq(j, LastKey(S))
            BY <1>2, LastKeyMaximal DEF EventSet
        <3>2. \A j \in R \cup S : KeyLeq(j, LastKey(S))
            BY <3>1 DEF KeyLeq
        <3>3. QED BY <2>4, <3>1, <3>2, LastKeyUnique
    <2>6. /\ Cardinality(R) \in Nat /\ Cardinality(S) \in Nat /\ s.items \in Nat
        BY FS_CardinalityType DEF EventSet, Snapshots
    <2>7. inOrder \in BOOLEAN /\ later \in BOOLEAN /\ both \in BOOLEAN
        <3>1. r \in Snapshots
            BY ReplayType
        <3> HIDE DEF r
        <3>2. QED BY <3>1 DEF Snapshots
    <2>8. /\ r.applied = s.applied \cup R /\ r.inOrder = inOrder
          /\ r.items = s.items + Cardinality(R)
        <3> HIDE DEF inOrder, r
        <3>1. QED BY <2>1 DEF Snapshots
    <2>9. later <=> both
        <3>1. later <=> inOrder /\ \A j \in s.applied \cup R, k \in S : KeyLess(j, k)
            BY <2>8 DEF later
        <3> HIDE DEF later, r
        <3>2. QED BY <3>1
    <2>10. later = both
        <3> HIDE DEF later, both
        <3>1. QED BY <2>7, <2>9
    <2> HIDE DEF inOrder, later, both
    <2>11. Replay(r, S) = [s EXCEPT !.applied = r.applied \cup S,
                                    !.items = r.items + Cardinality(S),
                                    !.inOrder = later, !.time = LastKey(S).time]
        <3> HIDE DEF r
        <3>1. QED BY <2>1, <2>2 DEF Snapshots
    <2>12. /\ r.applied \cup S = s.applied \cup (R \cup S)
           /\ r.items + Cardinality(S) = s.items + Cardinality(R \cup S)
        BY <2>4, <2>6, <2>8
    <2>13. QED BY <2>3, <2>5, <2>10, <2>11, <2>12
<1>3. QED BY <1>1, <1>2

\* What a query at a key finds (src/history.rs:216-229).
Found(base, cps, es, key) ==
    LET bound == BoundAtLast({c \in DOMAIN cps : KeyLeq(c, key)})
    IN  Replay(ReplayStart(base, cps, bound),
               {k \in AfterBound(bound, es) : KeyLess(k, key)})

\* Only checkpoints up to the key and events before it matter.
LEMMA FoundLocal ==
    ASSUME NEW base, NEW cps, CheckpointMap(cps), NEW cps2, NEW es, NEW es2,
           NEW key,
           {c \in DOMAIN cps2 : KeyLeq(c, key)} = {c \in DOMAIN cps : KeyLeq(c, key)},
           \A c \in DOMAIN cps : KeyLeq(c, key) => cps2[c] = cps[c],
           \A k : KeyLess(k, key) => (k \in es2 <=> k \in es)
    PROVE  Found(base, cps2, es2, key) = Found(base, cps, es, key)
<1> DEFINE older == {c \in DOMAIN cps : KeyLeq(c, key)}
           bound == BoundAtLast(older)
<1>1. EventSet(older)
    BY CheckpointDomain, EventSubset
<1>2. {k \in AfterBound(bound, es2) : KeyLess(k, key)}
        = {k \in AfterBound(bound, es) : KeyLess(k, key)}
    BY DEF AfterBound
<1>3. ReplayStart(base, cps2, bound) = ReplayStart(base, cps, bound)
    <2>1. CASE older = {}
        BY <1>1, <2>1, BoundAtLastIsLast DEF ReplayStart
    <2>2. CASE older # {}
        <3>1. PICK c \in older : bound = {c} /\ LastKey(bound) = c
            BY <1>1, <2>2, BoundAtLastIsLast
        <3>2. QED BY <3>1 DEF ReplayStart
    <2>3. QED BY <2>1, <2>2
<1>4. QED BY <1>2, <1>3 DEF Found

\* Nor does it matter whether a replay that starts at the newest checkpoint
\* took further ones.
LEMMA FoundExtended ==
    ASSUME NEW base \in Snapshots, NEW cps, CheckpointMap(cps), NEW es, EventSet(es),
           NEW closed, NEW result,
           Extends(result, cps, closed,
                   ReplayStart(base, cps, BoundAtLast(DOMAIN cps)),
                   BoundAtLast(DOMAIN cps), es),
           CheckpointMap(result), NEW key \in ContimeKeys, key \notin DOMAIN result
    PROVE  Found(base, result, es, key) = Found(base, cps, es, key)
<1> DEFINE bound == BoundAtLast(DOMAIN cps)
           start == ReplayStart(base, cps, bound)
           range == AfterBound(bound, es)
<1>1. EventSet(DOMAIN cps) /\ EventSet(DOMAIN result) /\ EventSet(range)
    BY CheckpointDomain, AfterBoundType
<1>2. /\ bound \in SUBSET DOMAIN cps
      /\ \A c \in DOMAIN cps : \E b \in bound : KeyLeq(c, b)
      /\ \A b, d \in bound : b = d
    BY <1>1, BoundAtLastIsLast
<1>3. /\ closed \in SUBSET range
      /\ DOMAIN result = DOMAIN cps \cup closed
      /\ \A k \in DOMAIN result :
            result[k] = IF k \in closed THEN Replay(start, {j \in range : KeyLeq(j, k)})
                        ELSE cps[k]
    BY DEF Extends
<1>4. \A k \in range : \A b \in bound : KeyLess(b, k)
    BY DEF AfterBound
<1>5. \A k \in range : k \in es /\ k \in ContimeKeys
    BY <1>1 DEF AfterBound, EventSet
<1> HIDE DEF range
<1>6. \A k \in closed, c \in DOMAIN cps : KeyLess(c, k)
    BY <1>1, <1>2, <1>3, <1>4, <1>5, KeyLeqLess DEF EventSet
<1>7. CASE \E k \in closed : KeyLeq(k, key)
    <2> DEFINE older == {c \in DOMAIN result : KeyLeq(c, key)}
    <2>1. EventSet(older) /\ older # {}
        BY <1>1, <1>3, <1>7, EventSubset
    <2>2. PICK b \in older : /\ BoundAtLast(older) = {b} /\ LastKey(BoundAtLast(older)) = b
                             /\ \A j \in older : KeyLeq(j, b)
        BY <2>1, BoundAtLastIsLast
    <2>3. b \in closed /\ b \in range /\ b \in ContimeKeys /\ KeyLess(b, key)
        <3>1. PICK k \in closed : KeyLeq(k, key)
            BY <1>7
        <3>2. k \in older /\ KeyLeq(k, b)
            BY <1>3, <2>2, <3>1
        <3>3. k \in ContimeKeys /\ b \in ContimeKeys /\ b \in DOMAIN cps \cup closed
            BY <1>3, <1>5, <2>1 DEF EventSet
        <3>4. b \notin DOMAIN cps
            BY <1>6, <3>1, <3>2, <3>3, KeyLessAntisymmetric
        <3>5. KeyLess(b, key)
            BY <2>2 DEF KeyLeq
        <3>6. QED BY <1>3, <1>5, <3>3, <3>4, <3>5
    <2> DEFINE R == {j \in range : KeyLeq(j, b)}
               S == {j \in range : KeyLess(b, j) /\ KeyLess(j, key)}
    <2>4. EventSet(R) /\ EventSet(S) /\ \A j \in R, k \in S : KeyLess(j, k)
        BY <1>1, <1>5, <2>3, EventSubset, KeyLeqLess
    <2>5. start \in Snapshots
        BY ReplayStartType
    <2>6. R \cup S = {j \in range : KeyLess(j, key)}
        BY <1>5, <2>3, KeyLessTotal, KeyLeqLess DEF KeyLeq
    <2>7. {k \in AfterBound({b}, es) : KeyLess(k, key)} = S
        <3>1. \A k \in es : KeyLess(b, k) => k \in range
            BY <1>1, <1>2, <1>4, <2>3, KeyLessTransitive DEF AfterBound, range, EventSet
        <3>2. QED BY <1>5, <3>1 DEF AfterBound
    <2>8. ReplayStart(base, result, BoundAtLast(older)) = Replay(start, R)
        BY <1>3, <2>2, <2>3 DEF ReplayStart
    <2>9. Found(base, result, es, key) = Replay(Replay(start, R), S)
        BY <2>2, <2>7, <2>8 DEF Found
    <2>10. {c \in DOMAIN cps : KeyLeq(c, key)} = DOMAIN cps
        BY <1>1, <1>6, <2>3, KeyLessTransitive DEF KeyLeq, EventSet
    <2>11. Found(base, cps, es, key) = Replay(start, {j \in range : KeyLess(j, key)})
        BY <2>10 DEF Found, range
    <2> HIDE DEF R, S, start
    <2>12. Replay(Replay(start, R), S) = Replay(start, R \cup S)
        BY <2>4, <2>5, ReplayCompose
    <2>13. QED BY <2>6, <2>9, <2>11, <2>12
<1>8. CASE ~\E k \in closed : KeyLeq(k, key)
    <2>1. {c \in DOMAIN result : KeyLeq(c, key)} = {c \in DOMAIN cps : KeyLeq(c, key)}
        BY <1>3, <1>8
    <2>2. \A c \in DOMAIN cps : KeyLeq(c, key) => result[c] = cps[c]
        BY <1>3, <1>8
    <2>3. QED BY <2>1, <2>2, FoundLocal
<1>9. QED BY <1>7, <1>8

\* An event changes no answer at a key before its own.
LEMMA ApplyEventLocal ==
    ASSUME NEW base \in Snapshots, NEW cps, CheckpointMap(cps), NEW es, EventSet(es),
           NEW k \in ContimeKeys, NEW key \in ContimeKeys, KeyLess(key, k),
           key \notin DOMAIN apply_event_in_place(k, base, cps, es)
    PROVE  Found(base, apply_event_in_place(k, base, cps, es), es \cup {k}, key)
             = Found(base, cps, es, key)
<1> DEFINE es2    == es \cup {k}
           result == apply_event_in_place(k, base, cps, es)
<1>1. ~KeyLeq(k, key) /\ ~KeyLess(k, key)
    BY KeyLessAntisymmetric DEF KeyLeq
<1>2. \A e : KeyLess(e, key) => (e \in es2 <=> e \in es)
    BY <1>1
<1>3. CASE k \in es
    BY <1>3 DEF apply_event_in_place
<1>4. CASE k \notin es /\ \A e \in es : ~KeyLess(k, e)
    <2>1. result = FastPath(k, base, cps, es2)
        BY <1>4 DEF apply_event_in_place
    <2>2. /\ DOMAIN result \in {DOMAIN cps, DOMAIN cps \cup {k}}
          /\ \A c \in DOMAIN cps : c # k => result[c] = cps[c]
        BY <2>1 DEF FastPath
    <2> HIDE DEF result, es2
    <2>3. {c \in DOMAIN result : KeyLeq(c, key)} = {c \in DOMAIN cps : KeyLeq(c, key)}
        BY <1>1, <2>2
    <2>4. \A c \in DOMAIN cps : KeyLeq(c, key) => result[c] = cps[c]
        BY <1>1, <2>2
    <2>5. Found(base, result, es2, key) = Found(base, cps, es, key)
        BY <1>2, <2>3, <2>4, FoundLocal
    <2>6. QED BY <2>5 DEF result, es2
<1>5. CASE k \notin es /\ ~\A e \in es : ~KeyLess(k, e)
    <2> DEFINE kept   == DropFrom(cps, k)
               bound  == BoundAtLast(DOMAIN kept)
               start  == ReplayStart(base, kept, bound)
    <2>1. result = replay_and_checkpoint(start, bound, kept, es2)
        BY <1>5 DEF apply_event_in_place, SlowPath
    <2>2. /\ CheckpointMap(kept)
          /\ DOMAIN kept = {c \in DOMAIN cps : KeyLess(c, k)}
          /\ \A c \in DOMAIN kept : kept[c] = cps[c]
        BY DropFromType
    <2>3. CheckpointMap(result) /\ EventSet(es2)
        BY ApplyEventType
    <2>4. Extends(result, kept, Closed(AfterBound(bound, es2)), start, bound, es2)
        BY <2>1 DEF replay_and_checkpoint, Extends, Closed
    <2>5. \A c \in DOMAIN cps : KeyLeq(c, key) => KeyLess(c, k)
        BY KeyLeqLess DEF CheckpointMap
    <2>6. {c \in DOMAIN kept : KeyLeq(c, key)} = {c \in DOMAIN cps : KeyLeq(c, key)}
        BY <2>2, <2>5
    <2> HIDE DEF kept, result, es2
    <2>7. Found(base, result, es2, key) = Found(base, kept, es2, key)
        BY <2>2, <2>3, <2>4, FoundExtended DEF result
    <2>8. Found(base, kept, es2, key) = Found(base, cps, es, key)
        BY <1>2, <2>2, <2>5, <2>6, FoundLocal
    <2>9. QED BY <2>7, <2>8 DEF result, es2
<1>6. QED BY <1>3, <1>4, <1>5

\* Nor does an authoritative snapshot.
LEMMA CorrectLocal ==
    ASSUME NEW base, NEW cps, CheckpointMap(cps), NEW es, EventSet(es),
           NEW auth, NEW corrected, NEW k \in ContimeKeys,
           DOMAIN corrected = DOMAIN DropFrom(cps, k) \cup {k},
           \A c \in DOMAIN DropFrom(cps, k) : corrected[c] = cps[c],
           NEW key \in ContimeKeys, KeyLess(key, k)
    PROVE  Found(base, replay_and_checkpoint(auth, {k}, corrected, es), es, key)
             = Found(base, cps, es, key)
<1> DEFINE result == replay_and_checkpoint(auth, {k}, corrected, es)
           closed == Closed(AfterBound({k}, es))
<1>1. /\ DOMAIN result = DOMAIN corrected \cup closed
      /\ \A c \in DOMAIN corrected : c \notin closed => result[c] = corrected[c]
    BY DEF replay_and_checkpoint
<1>2. \A c \in closed : c \in ContimeKeys /\ KeyLess(k, c)
    BY DEF Closed, AfterBound, EventSet
<1>3. \A c \in closed \cup {k} : ~KeyLeq(c, key)
    BY <1>2, KeyLessTransitive, KeyLessAntisymmetric
<1>4. \A c \in DOMAIN cps : KeyLeq(c, key) => c \in DOMAIN DropFrom(cps, k)
    BY KeyLeqLess DEF CheckpointMap, DropFrom
<1>5. \A c \in DOMAIN DropFrom(cps, k) : c \in DOMAIN cps
    BY DEF DropFrom
<1> HIDE DEF result, closed
<1>6. {c \in DOMAIN result : KeyLeq(c, key)} = {c \in DOMAIN cps : KeyLeq(c, key)}
    BY <1>1, <1>3, <1>4, <1>5
<1>7. \A c \in DOMAIN cps : KeyLeq(c, key) => result[c] = cps[c]
    BY <1>1, <1>3, <1>4
<1>8. Found(base, result, es, key) = Found(base, cps, es, key)
    BY <1>6, <1>7, FoundLocal
<1>9. QED BY <1>8 DEF result

-----------------------------------------------------------------------------
(***************************************************************************)
(* Types.                                                                  *)
(***************************************************************************)
LEMMA TypeParts ==
    TypeOK <=> /\ base_snapshot \in Snapshots
               /\ CheckpointMap(checkpoints)
               /\ EventSet(events)
               /\ current_time \in Int
               /\ reconciliation_rx \in Seq(Reconciliation)
               /\ Len(reconciliation_rx) <= ReconciliationCapacity
               /\ reply \subseteq [time : Int, snapshot : Snapshots]
               /\ panicked \in BOOLEAN
BY DEF TypeOK, CheckpointMap, EventSet

LEMMA FreshType ==
    ASSUME NEW p \in Payloads, NEW bound \in SUBSET ContimeKeys, NEW t \in Int
    PROVE  Fresh(p, bound, t) \in Snapshots
BY DEF Fresh, Snapshots

LEMMA EmptyMapType ==
    ASSUME NEW s
    PROVE  CheckpointMap([k \in {} |-> s]) /\ EventSet({})
BY FS_EmptySet DEF CheckpointMap, EventSet

LEMMA SnapshotKeyType ==
    ASSUME NEW t \in Int
    PROVE  /\ Key(t, SnapshotId) \in ContimeKeys
           /\ Key(t, SnapshotId).time = t
BY KeyType, ApplyAssumption

LEMMA TrySendType ==
    ASSUME TypeOK, NEW from \in Int, NEW to \in Int, try_send(from, to)
    PROVE  /\ reconciliation_rx' \in Seq(Reconciliation)
           /\ Len(reconciliation_rx') <= ReconciliationCapacity
<1> DEFINE r == [from_time |-> from, to_time |-> to]
<1>1. r \in Reconciliation /\ reconciliation_rx \in Seq(Reconciliation)
    BY DEF Reconciliation, TypeOK
<1> HIDE DEF r
<1>2. /\ Append(reconciliation_rx, r) \in Seq(Reconciliation)
      /\ Len(Append(reconciliation_rx, r)) = Len(reconciliation_rx) + 1
      /\ Len(reconciliation_rx) \in Nat
    BY <1>1
<1>3. ReconciliationCapacity \in Nat
    BY HistoryAssumption
<1>4. reconciliation_rx' = IF Len(reconciliation_rx) < ReconciliationCapacity
                           THEN Append(reconciliation_rx, r)
                           ELSE reconciliation_rx
    BY DEF try_send, r
<1>5. QED BY <1>1, <1>2, <1>3, <1>4 DEF TypeOK

\* The checkpoints a corrected history keeps.
LEMMA CorrectedType ==
    ASSUME TypeOK, NEW t \in Int, NEW p \in Payloads
    PROVE  LET key  == Key(t, SnapshotId)
               kept == DropFrom(checkpoints, key)
               auth == Fresh(p, {key}, t)
           IN  CheckpointMap([k \in DOMAIN kept \cup {key} |->
                                 IF k = key THEN auth ELSE kept[k]])
<1> DEFINE key  == Key(t, SnapshotId)
           kept == DropFrom(checkpoints, key)
           auth == Fresh(p, {key}, t)
<1>1. key \in ContimeKeys
    BY SnapshotKeyType
<1>2. auth \in Snapshots
    BY <1>1, FreshType
<1>3. CheckpointMap(kept)
    BY TypeParts, DropFromType
<1> HIDE DEF key, kept, auth
<1>4. CheckpointMap([k \in DOMAIN kept \cup {key} |->
                        IF k = key THEN auth ELSE kept[k]])
    BY <1>1, <1>2, <1>3, InsertCheckpointType
<1>5. QED BY <1>4 DEF key, kept, auth

LEMMA AnswerType ==
    ASSUME TypeOK, NEW t \in Int
    PROVE  AnswerAt(t) \in Snapshots
<1> DEFINE key   == Key(t, SnapshotId)
           older == {c \in DOMAIN checkpoints : KeyLeq(c, key)}
           bound == BoundAtLast(older)
           range == {k \in AfterBound(bound, events) : KeyLess(k, key)}
           found == Replay(ReplayStart(base_snapshot, checkpoints, bound), range)
<1>1. EventSet(range)
    BY TypeParts, AfterBoundType, EventSubset
<1>2. ReplayStart(base_snapshot, checkpoints, bound) \in Snapshots
    BY TypeParts, ReplayStartType
<1> HIDE DEF range, bound
<1>3. found \in Snapshots
    BY <1>1, <1>2, ReplayType
<1> HIDE DEF found
<1>4. [found EXCEPT !.time = t] \in Snapshots
    BY <1>3 DEF Snapshots
<1>5. AnswerAt(t) = [found EXCEPT !.time = t]
    BY DEF AnswerAt, found, range, bound, older, key
<1>6. QED BY <1>4, <1>5

LEMMA InitType == Init => TypeOK
<1> SUFFICES ASSUME NEW p \in Payloads, new(p) PROVE TypeOK
    BY DEF Init
<1>1. Fresh(p, {}, 0) \in Snapshots
    BY FreshType
<1>2. CheckpointMap(checkpoints) /\ EventSet(events)
    BY EmptyMapType DEF new
<1>3. /\ reconciliation_rx \in Seq(Reconciliation)
      /\ Len(reconciliation_rx) <= ReconciliationCapacity
    BY EmptySeq, HistoryAssumption DEF new
<1>4. /\ base_snapshot \in Snapshots
      /\ current_time \in Int
      /\ reply \subseteq [time : Int, snapshot : Snapshots]
      /\ panicked \in BOOLEAN
    <2>1. base_snapshot = Fresh(p, {}, 0) /\ current_time = 0
        BY DEF new
    <2>2. reply = {} /\ panicked = FALSE
        BY DEF new
    <2>3. base_snapshot \in Snapshots /\ current_time \in Int
        BY <1>1, <2>1
    <2>4. reply \subseteq [time : Int, snapshot : Snapshots]
        BY <2>2
    <2>5. panicked \in BOOLEAN
        BY <2>2, Zenon
    <2>6. QED BY <2>3, <2>4, <2>5
<1>5. QED BY <1>2, <1>3, <1>4, TypeParts

LEMMA AdvanceType ==
    ASSUME TypeOK, NEW d \in AdvanceSteps, advance(d)
    PROVE  TypeOK'
<1> DEFINE drop_key == Key(DropTime', 0)
           dropped  == {c \in DOMAIN checkpoints : KeyLess(c, drop_key)}
<1>1. current_time' \in Int
    BY HistoryAssumption DEF advance, TypeOK
<1>2. EventSet(events')
    BY TypeParts, EventSubset DEF advance
<1>3. CheckpointMap(checkpoints')
    <2>1. checkpoints' = [c \in DOMAIN checkpoints \ dropped |-> checkpoints[c]]
        BY DEF advance
    <2> HIDE DEF dropped
    <2>2. IsFiniteSet(DOMAIN checkpoints \ dropped)
        BY TypeParts, FS_Subset DEF CheckpointMap
    <2>3. QED BY <2>1, <2>2, TypeParts DEF CheckpointMap
<1>4. base_snapshot' \in Snapshots
    <2>1. base_snapshot' = ReplayStart(base_snapshot, checkpoints,
                                       BoundAtLast(dropped))
        BY DEF advance
    <2>2. QED BY <2>1, TypeParts, ReplayStartType
<1>5. QED BY <1>1, <1>2, <1>3, <1>4 DEF TypeOK, CheckpointMap, EventSet, advance

LEMMA ApplyEventActionType ==
    ASSUME TypeOK, NEW k \in EventKeys, apply_event(k)
    PROVE  TypeOK'
<1>1. k \in ContimeKeys /\ k.time \in Int
    BY HistoryAssumption DEF ContimeKeys
<1>2. CheckpointMap(checkpoints') /\ EventSet(events')
    BY <1>1, TypeParts, ApplyEventType DEF apply_event
<1>3. /\ reconciliation_rx' \in Seq(Reconciliation)
      /\ Len(reconciliation_rx') <= ReconciliationCapacity
    <2>1. CASE events # {} /\ k.time < LastKey(events).time
        <3>1. LastKey(events).time \in Int
            BY <2>1, TypeParts, LastKeyMaximal DEF EventSet, ContimeKeys
        <3>2. QED BY <1>1, <2>1, <3>1, TrySendType DEF apply_event
    <2>2. CASE ~(events # {} /\ k.time < LastKey(events).time)
        BY <2>2 DEF apply_event, TypeOK
    <2>3. QED BY <2>1, <2>2
<1>4. QED BY <1>2, <1>3 DEF TypeOK, CheckpointMap, EventSet, apply_event

LEMMA ApplySnapshotType ==
    ASSUME TypeOK, NEW id, NEW t \in SnapshotTimes, NEW p \in Payloads,
           apply_snapshot(id, t, p)
    PROVE  TypeOK'
<1> DEFINE key       == Key(t, SnapshotId)
           kept      == DropFrom(checkpoints, key)
           auth      == Fresh(p, {key}, t)
           corrected == [k \in DOMAIN kept \cup {key} |->
                            IF k = key THEN auth ELSE kept[k]]
           last      == IF events = {} THEN t ELSE LastKey(events).time
<1>1. t \in Int /\ key \in ContimeKeys
    BY HistoryAssumption, SnapshotKeyType
<1>2. CheckpointMap(corrected)
    BY <1>1, CorrectedType
<1>3. auth \in Snapshots
    BY <1>1, FreshType
<1>4. /\ checkpoints' = replay_and_checkpoint(auth, {key}, corrected, events)
      /\ try_send(t, last)
    BY DEF apply_snapshot
<1>5. last \in Int
    BY <1>1, TypeParts, LastKeyMaximal DEF EventSet, ContimeKeys
<1> HIDE DEF key, kept, auth, corrected, last
<1>6. CheckpointMap(checkpoints')
    BY <1>2, <1>3, <1>4, TypeParts, ReplayAndCheckpointType
<1>7. /\ reconciliation_rx' \in Seq(Reconciliation)
      /\ Len(reconciliation_rx') <= ReconciliationCapacity
    BY <1>1, <1>4, <1>5, TrySendType
<1>8. QED BY <1>6, <1>7 DEF TypeOK, CheckpointMap, EventSet, apply_snapshot

LEMMA RecvType ==
    ASSUME TypeOK, recv
    PROVE  TypeOK'
<1>1. reconciliation_rx \in Seq(Reconciliation) /\ reconciliation_rx # <<>>
    BY DEF recv, TypeOK
<1>2. /\ reconciliation_rx' \in Seq(Reconciliation)
      /\ Len(reconciliation_rx') = Len(reconciliation_rx) - 1
    BY <1>1, HeadTailProperties DEF recv
<1>3. Len(reconciliation_rx') <= ReconciliationCapacity
    BY <1>1, <1>2, LenProperties, HistoryAssumption DEF TypeOK
<1>4. QED BY <1>2, <1>3 DEF recv, TypeOK

LEMMA NextType == TypeOK /\ [Next]_vars => TypeOK'
<1> SUFFICES ASSUME TypeOK, [Next]_vars PROVE TypeOK'
    OBVIOUS
<1>1. ASSUME NEW d \in AdvanceSteps, advance(d) PROVE TypeOK'
    BY <1>1, AdvanceType
<1>2. ASSUME NEW k \in EventKeys, apply_event(k) PROVE TypeOK'
    BY <1>2, ApplyEventActionType
<1>3. ASSUME NEW id \in SnapshotIds, NEW t \in SnapshotTimes, NEW p \in Payloads,
             apply_snapshot(id, t, p)
      PROVE  TypeOK'
    BY <1>3, ApplySnapshotType
<1>4. ASSUME NEW t \in QueryTimes, snapshot_at(t) PROVE TypeOK'
    <2>1. t \in Int /\ AnswerAt(t) \in Snapshots
        BY HistoryAssumption, AnswerType
    <2>2. reply' \subseteq [time : Int, snapshot : Snapshots]
        BY <1>4, <2>1 DEF snapshot_at
    <2>3. QED BY <1>4, <2>2 DEF snapshot_at, TypeOK
<1>5. ASSUME NEW t \in QueryTimes, snapshot_at_panics(t) PROVE TypeOK'
    BY <1>5 DEF snapshot_at_panics, TypeOK
<1>6. CASE recv
    BY <1>6, RecvType
<1>7. ASSUME UNCHANGED vars PROVE TypeOK'
    BY <1>7 DEF vars, TypeOK
<1>8. ASSUME NEW id \in SnapshotIds, apply_snapshot_foreign(id) PROVE TypeOK'
    BY <1>7, <1>8 DEF apply_snapshot_foreign
<1>9. QED BY <1>1, <1>2, <1>3, <1>4, <1>5, <1>6, <1>7, <1>8 DEF Next

\* A history never leaves its types: whatever the inputs, the maps stay
\* finite, a replayed snapshot is a snapshot, and the notification channel
\* holds at most its capacity.
THEOREM TypeCorrect == Spec => []TypeOK
<1>1. QED BY InitType, NextType, PTL DEF Spec
-----------------------------------------------------------------------------
LEMMA AnswerIsFound ==
    ASSUME NEW t
    PROVE  AnswerAt(t) =
             [Found(base_snapshot, checkpoints, events, Key(t, SnapshotId))
                 EXCEPT !.time = t]
BY DEF AnswerAt, Found

LEMMA TimeOrder ==
    ASSUME NEW a \in ContimeKeys, NEW b \in ContimeKeys, a.time < b.time
    PROVE  KeyLess(a, b)
BY DEF KeyLess

\* try_send leaves its notification in the channel unless that is full.
LEMMA TrySendAnnounces ==
    ASSUME TypeOK, NEW from, NEW to, try_send(from, to), NEW t,
           from <= t, t <= to
    PROVE  \/ Len(reconciliation_rx) = ReconciliationCapacity
           \/ /\ Len(reconciliation_rx') = Len(reconciliation_rx) + 1
              /\ Covers(reconciliation_rx'[Len(reconciliation_rx')], t)
<1> DEFINE r == [from_time |-> from, to_time |-> to]
<1>1. reconciliation_rx \in Seq(Reconciliation) /\ Len(reconciliation_rx) \in Nat
    BY LenProperties DEF TypeOK
<1>2. CASE Len(reconciliation_rx) < ReconciliationCapacity
    <2>1. reconciliation_rx' = Append(reconciliation_rx, r)
        BY <1>2 DEF try_send
    <2>2. /\ Len(reconciliation_rx') = Len(reconciliation_rx) + 1
          /\ reconciliation_rx'[Len(reconciliation_rx) + 1] = r
        BY <1>1, <2>1
    <2>3. Covers(r, t)
        BY DEF Covers
    <2>4. QED BY <2>2, <2>3
<1>3. CASE ~(Len(reconciliation_rx) < ReconciliationCapacity)
    BY <1>1, <1>3, HistoryAssumption DEF TypeOK
<1>4. QED BY <1>2, <1>3

Announced(t) ==
    \/ Len(reconciliation_rx) = ReconciliationCapacity
    \/ /\ Len(reconciliation_rx') = Len(reconciliation_rx) + 1
       /\ Covers(reconciliation_rx'[Len(reconciliation_rx')], t)

\* What arrives for a time at or before t is announced up to the latest event.
LEMMA EventAnnounced ==
    ASSUME TypeOK, NEW k \in EventKeys, apply_event(k), NEW t \in QueryTimes,
           NEW e \in events, t < e.time, k.time <= t
    PROVE  Announced(t)
<1>1. k \in ContimeKeys /\ t \in Int /\ EventSet(events)
    BY HistoryAssumption, TypeParts
<1>2. /\ KeyLeq(e, LastKey(events)) /\ e \in ContimeKeys
      /\ LastKey(events) \in ContimeKeys
    BY <1>1, LastKeyMaximal DEF EventSet
<1>3. k.time \in Int /\ e.time \in Int /\ LastKey(events).time \in Int
      /\ e.time <= LastKey(events).time
    BY <1>1, <1>2 DEF ContimeKeys, KeyLeq, KeyLess
<1>4. k.time < LastKey(events).time /\ t <= LastKey(events).time
    BY <1>1, <1>3
<1>5. try_send(k.time, LastKey(events).time)
    BY <1>4 DEF apply_event
<1>6. QED BY <1>4, <1>5, TrySendAnnounces DEF Announced

LEMMA SnapshotAnnounced ==
    ASSUME TypeOK, NEW id, NEW s \in SnapshotTimes, NEW p, apply_snapshot(id, s, p),
           NEW t \in QueryTimes, NEW e \in events, t < e.time, s <= t
    PROVE  Announced(t)
<1>1. t \in Int /\ EventSet(events)
    BY HistoryAssumption, TypeParts
<1>2. /\ KeyLeq(e, LastKey(events)) /\ e \in ContimeKeys
      /\ LastKey(events) \in ContimeKeys
    BY <1>1, LastKeyMaximal DEF EventSet
<1>3. t <= LastKey(events).time
    BY <1>1, <1>2 DEF ContimeKeys, KeyLeq, KeyLess
<1>4. try_send(s, LastKey(events).time)
    BY DEF apply_snapshot
<1>5. QED BY <1>3, <1>4, TrySendAnnounces DEF Announced

\* An event after the query time does not reach the answer.
LEMMA ApplyEventAnnounced ==
    ASSUME TypeOK, NEW k \in EventKeys, apply_event(k), NEW t \in QueryTimes,
           NEW e \in events, t < e.time, ~AtCheckpoint(t)'
    PROVE  AnswerAt(t)' = AnswerAt(t) \/ Announced(t)
<1> DEFINE key == Key(t, SnapshotId)
<1>1. /\ k \in ContimeKeys /\ t \in Int /\ key \in ContimeKeys /\ key.time = t
      /\ EventSet(events) /\ CheckpointMap(checkpoints) /\ base_snapshot \in Snapshots
    BY HistoryAssumption, SnapshotKeyType, TypeParts
<1>2. CASE k.time <= t
    BY <1>2, EventAnnounced
<1>3. CASE t < k.time
    <2>1. KeyLess(key, k)
        BY <1>1, <1>3, TimeOrder
    <2>2. /\ checkpoints' = apply_event_in_place(k, base_snapshot, checkpoints, events)
          /\ events' = events \cup {k} /\ base_snapshot' = base_snapshot
          /\ key \notin DOMAIN checkpoints'
        BY DEF apply_event, AtCheckpoint
    <2> HIDE DEF key
    <2>3. Found(base_snapshot', checkpoints', events', key)
            = Found(base_snapshot, checkpoints, events, key)
        BY <1>1, <2>1, <2>2, ApplyEventLocal
    <2>4. AnswerAt(t)' = [Found(base_snapshot', checkpoints', events', key)
                             EXCEPT !.time = t]
        BY DEF AnswerAt, Found, key
    <2>5. QED BY <2>3, <2>4, AnswerIsFound DEF key
<1>4. QED BY <1>1, <1>2, <1>3 DEF ContimeKeys

LEMMA ApplySnapshotAnnounced ==
    ASSUME TypeOK, NEW id, NEW s \in SnapshotTimes, NEW p \in Payloads,
           apply_snapshot(id, s, p), NEW t \in QueryTimes,
           NEW e \in events, t < e.time
    PROVE  AnswerAt(t)' = AnswerAt(t) \/ Announced(t)
<1> DEFINE key       == Key(t, SnapshotId)
           k         == Key(s, SnapshotId)
           kept      == DropFrom(checkpoints, k)
           auth      == Fresh(p, {k}, s)
           corrected == [c \in DOMAIN kept \cup {k} |->
                            IF c = k THEN auth ELSE kept[c]]
<1>1. /\ t \in Int /\ key \in ContimeKeys /\ key.time = t
      /\ s \in Int /\ k \in ContimeKeys /\ k.time = s
      /\ EventSet(events) /\ CheckpointMap(checkpoints)
    BY HistoryAssumption, SnapshotKeyType, TypeParts
<1>2. CASE s <= t
    BY <1>2, SnapshotAnnounced
<1>3. CASE t < s
    <2>1. KeyLess(key, k)
        BY <1>1, <1>3, TimeOrder
    <2>2. /\ checkpoints' = replay_and_checkpoint(auth, {k}, corrected, events)
          /\ events' = events /\ base_snapshot' = base_snapshot
        BY DEF apply_snapshot
    <2>3. \A c \in DOMAIN kept : /\ c \in DOMAIN checkpoints /\ KeyLess(c, k)
                                 /\ kept[c] = checkpoints[c]
        BY DEF DropFrom
    <2>4. /\ DOMAIN corrected = DOMAIN kept \cup {k}
          /\ \A c \in DOMAIN kept : corrected[c] = checkpoints[c]
        BY <1>1, <2>3, KeyLessIrreflexive DEF CheckpointMap
    <2> HIDE DEF key, k, auth, corrected
    <2>5. Found(base_snapshot, checkpoints', events, key)
            = Found(base_snapshot, checkpoints, events, key)
        BY <1>1, <2>1, <2>2, <2>4, CorrectLocal
    <2>6. AnswerAt(t)' = [Found(base_snapshot', checkpoints', events', key)
                             EXCEPT !.time = t]
        BY DEF AnswerAt, Found, key
    <2>7. QED BY <2>2, <2>5, <2>6, AnswerIsFound DEF key
<1>4. QED BY <1>1, <1>2, <1>3

(***************************************************************************)
(* Whatever is sent, a step that changes what a query between known event  *)
(* times answers leaves a notification for it, unless the channel is full. *)
(* Checkpoints the step takes on the way do not show in any answer.        *)
(***************************************************************************)
THEOREM ChangesAreAnnounced == Spec => HistoryChangesAreAnnounced
<1> DEFINE A == \A t \in QueryTimes :
                   /\ \A d \in AdvanceSteps : ~advance(d)
                   /\ \E k \in events : t < k.time
                   /\ ~AtCheckpoint(t) /\ ~AtCheckpoint(t)'
                   /\ AnswerAt(t)' # AnswerAt(t)
                   => Announced(t)
<1>1. TypeOK /\ [Next]_vars => [A]_vars
    <2> SUFFICES ASSUME TypeOK, Next, NEW t \in QueryTimes,
                        \A d \in AdvanceSteps : ~advance(d),
                        NEW e \in events, t < e.time, ~AtCheckpoint(t)',
                        AnswerAt(t)' # AnswerAt(t)
                 PROVE  Announced(t)
        OBVIOUS
    <2>1. ASSUME NEW k \in EventKeys, apply_event(k) PROVE Announced(t)
        BY <2>1, ApplyEventAnnounced
    <2>2. ASSUME NEW id, NEW s \in SnapshotTimes, NEW p \in Payloads,
                 apply_snapshot(id, s, p)
          PROVE  Announced(t)
        BY <2>2, ApplySnapshotAnnounced
    <2>3. ASSUME UNCHANGED <<base_snapshot, checkpoints, events>>
          PROVE  AnswerAt(t)' = AnswerAt(t)
        BY <2>3 DEF AnswerAt
    <2>4. QED BY <2>1, <2>2, <2>3
              DEF Next, vars, apply_snapshot_foreign, snapshot_at,
                  snapshot_at_panics, recv
<1>2. QED BY <1>1, TypeCorrect, PTL DEF Spec, HistoryChangesAreAnnounced, Announced

LEMMA AdvanceInvisible ==
    ASSUME TypeOK, NEW t \in QueryTimes, NEW d \in AdvanceSteps, advance(d),
           t >= DropTime',
           \A e \in events \ events' :
              \E c \in DOMAIN checkpoints : KeyLeq(e, c) /\ c.time < DropTime'
    PROVE  AnswerAt(t)' = AnswerAt(t)
<1> DEFINE key      == Key(t, SnapshotId)
           drop_key == Key(DropTime', 0)
           dropped  == {c \in DOMAIN checkpoints : KeyLess(c, drop_key)}
           older    == {c \in DOMAIN checkpoints : KeyLeq(c, key)}
           newer    == {c \in DOMAIN checkpoints' : KeyLeq(c, key)}
<1>1. /\ t \in Int /\ key \in ContimeKeys /\ key.time = t
      /\ EventSet(events) /\ CheckpointMap(checkpoints)
    BY HistoryAssumption, SnapshotKeyType, TypeParts
<1>2. DropTime' \in Int
    BY HistoryAssumption DEF TypeOK, DropTime, advance
<1>3. /\ events' = {k \in events : ~KeyLess(k, drop_key)}
      /\ checkpoints' = [c \in DOMAIN checkpoints \ dropped |-> checkpoints[c]]
      /\ base_snapshot' = ReplayStart(base_snapshot, checkpoints, BoundAtLast(dropped))
    BY DEF advance
<1>4. drop_key \in ContimeKeys /\ \A k \in ContimeKeys : KeyLess(k, drop_key) <=> k.time < DropTime'
    <2>1. drop_key \in ContimeKeys /\ drop_key.time = DropTime' /\ drop_key.id = 0
        BY <1>2, KeyType
    <2> HIDE DEF drop_key
    <2>2. QED BY <1>2, <2>1 DEF KeyLess, ContimeKeys
<1>5. ~KeyLess(key, drop_key)
    BY <1>1, <1>2, <1>4
<1> HIDE DEF key, drop_key
<1>6. /\ EventSet(older) /\ EventSet(newer) /\ EventSet(dropped)
      /\ newer = older \ dropped /\ dropped \in SUBSET older
    <2>1. \A c \in dropped : KeyLeq(c, key)
        BY <1>1, <1>4, <1>5, KeyLessTransitive, KeyLessTotal DEF CheckpointMap, KeyLeq
    <2>2. newer = older \ dropped
        BY <1>3
    <2>3. EventSet(DOMAIN checkpoints)
        BY <1>1, CheckpointDomain
    <2>4. older \in SUBSET DOMAIN checkpoints /\ newer \in SUBSET DOMAIN checkpoints
          /\ dropped \in SUBSET DOMAIN checkpoints /\ dropped \in SUBSET older
        BY <2>1, <2>2
    <2> HIDE DEF older, newer, dropped
    <2>5. QED BY <2>2, <2>3, <2>4, EventSubset
<1>7. \A c \in dropped, k \in ContimeKeys : ~KeyLess(k, drop_key) => KeyLess(c, k)
    BY <1>1, <1>4, KeyLessTotal, KeyLessTransitive DEF CheckpointMap
<1>8. /\ \A c \in newer : c \in ContimeKeys /\ ~KeyLess(c, drop_key)
                          /\ checkpoints'[c] = checkpoints[c]
      /\ \A c \in dropped : c \in ContimeKeys
    BY <1>1, <1>3 DEF CheckpointMap
<1>9. \A e \in events \ events' : \E c \in dropped : KeyLeq(e, c)
    <2> SUFFICES ASSUME NEW e \in events \ events'
                 PROVE  \E c \in dropped : KeyLeq(e, c)
        OBVIOUS
    <2>1. PICK c \in DOMAIN checkpoints : KeyLeq(e, c) /\ c.time < DropTime'
        OBVIOUS
    <2>2. KeyLess(c, drop_key)
        BY <1>1, <1>4, <2>1 DEF CheckpointMap
    <2>3. QED BY <2>1, <2>2
<1>10. events' \in SUBSET events /\ events \in SUBSET ContimeKeys
       /\ \A e \in events' : ~KeyLess(e, drop_key)
    BY <1>1, <1>3 DEF EventSet
<1> HIDE DEF older, newer, dropped
<1> DEFINE bound  == BoundAtLast(older)
           bound2 == BoundAtLast(newer)
<1>11. /\ ReplayStart(base_snapshot', checkpoints', bound2)
             = ReplayStart(base_snapshot, checkpoints, bound)
       /\ {k \in AfterBound(bound2, events') : KeyLess(k, key)}
             = {k \in AfterBound(bound, events) : KeyLess(k, key)}
    <2>1. CASE newer # {}
        <3>1. PICK b \in newer : /\ bound2 = {b} /\ LastKey(bound2) = b
                                 /\ \A j \in newer : KeyLeq(j, b)
            BY <1>6, <2>1, BoundAtLastIsLast
        <3>2. b \in older /\ \A j \in older : KeyLeq(j, b)
            BY <1>6, <1>7, <1>8, <3>1 DEF KeyLeq
        <3>3. bound = bound2
            BY <1>6, <3>1, <3>2, LastKeyUnique
        <3>4. \A e \in events \ events' : ~KeyLess(b, e)
            <4>1. \A c \in dropped : KeyLess(c, b)
                BY <1>7, <1>8, <3>1
            <4>2. QED BY <1>8, <1>9, <1>10, <3>1, <4>1, KeyLeqLess, KeyLessAntisymmetric DEF KeyLeq
        <3>5. AfterBound(bound2, events') = AfterBound(bound2, events)
            BY <1>10, <3>1, <3>4 DEF AfterBound
        <3>6. checkpoints'[b] = checkpoints[b]
            BY <1>8
        <3>7. QED BY <3>1, <3>3, <3>5, <3>6 DEF ReplayStart
    <2>2. CASE newer = {}
        <3>1. older = dropped /\ bound2 = {}
            BY <1>6, <2>2, BoundAtLastIsLast
        <3>2. ReplayStart(base_snapshot', checkpoints', bound2)
                = ReplayStart(base_snapshot, checkpoints, bound)
            BY <1>3, <3>1 DEF ReplayStart
        <3>3. AfterBound(bound2, events') = AfterBound(bound, events)
            <4>1. AfterBound({}, events') = events'
                BY DEF AfterBound
            <4>2. CASE dropped = {}
                <5>1. bound = {} /\ events' = events
                    BY <1>6, <1>9, <1>10, <3>1, <4>2, BoundAtLastIsLast
                <5>2. QED BY <3>1, <5>1
            <4>3. CASE dropped # {}
                <5>1. PICK b \in dropped : /\ bound = {b} /\ \A j \in dropped : KeyLeq(j, b)
                    BY <1>6, <3>1, <4>3, BoundAtLastIsLast
                <5>2. \A e \in events' : KeyLess(b, e)
                    BY <1>7, <1>10
                <5>3. \A e \in events \ events' : ~KeyLess(b, e)
                    BY <1>8, <1>9, <1>10, <5>1, KeyLeqTransitive, KeyLessAntisymmetric
                <5>4. QED BY <1>10, <3>1, <4>1, <5>1, <5>2, <5>3 DEF AfterBound
            <4>4. QED BY <4>2, <4>3
        <3>4. QED BY <3>2, <3>3
    <2>3. QED BY <2>1, <2>2
<1>12. AnswerAt(t) = [Replay(ReplayStart(base_snapshot, checkpoints, bound),
                            {k \in AfterBound(bound, events) : KeyLess(k, key)})
                        EXCEPT !.time = t]
    BY DEF AnswerAt, older, key
<1>13. AnswerAt(t)' = [Replay(ReplayStart(base_snapshot', checkpoints', bound2),
                             {k \in AfterBound(bound2, events') : KeyLess(k, key)})
                         EXCEPT !.time = t]
    BY DEF AnswerAt, newer, key
<1>14. QED BY <1>11, <1>12, <1>13

(***************************************************************************)
(* Whatever is sent, an advance that drops no event after the newest       *)
(* checkpoint it drops changes no answer inside the horizon it leaves.     *)
(***************************************************************************)
THEOREM PruningStaysInvisible == Spec => PruningIsInvisible
<1> DEFINE A == \A t \in QueryTimes :
                   /\ \E d \in AdvanceSteps : advance(d)
                   /\ t >= DropTime'
                   /\ \A e \in events \ events' :
                         \E c \in DOMAIN checkpoints : KeyLeq(e, c) /\ c.time < DropTime'
                   => AnswerAt(t)' = AnswerAt(t)
<1>1. TypeOK /\ [Next]_vars => [A]_vars
    <2> SUFFICES ASSUME TypeOK, NEW t \in QueryTimes,
                        NEW d \in AdvanceSteps, advance(d), t >= DropTime',
                        \A e \in events \ events' :
                           \E c \in DOMAIN checkpoints :
                              KeyLeq(e, c) /\ c.time < DropTime'
                 PROVE  AnswerAt(t)' = AnswerAt(t)
        OBVIOUS
    <2>1. QED BY AdvanceInvisible
<1>2. QED BY <1>1, TypeCorrect, PTL DEF Spec, PruningIsInvisible

-----------------------------------------------------------------------------
(***************************************************************************)
(* Soundness of checkpoints and answers.                                   *)
(***************************************************************************)
LEMMA ConsistentParts ==
    Consistent <=> /\ TypeOK
                   /\ Retained(events, DropTime)
                   /\ base_snapshot.inOrder
                   /\ Behind(base_snapshot, DropTime)
                   /\ NoCheckpointAhead
                   /\ AllSound(checkpoints, events, DropTime)
BY DEF Consistent, EventsRetained, Retained, BaseBehind, Behind, AllSound,
       CheckpointsSound, StateAt, UpTo, UpToIn

LEMMA DropTimeType ==
    ASSUME TypeOK
    PROVE  DropTime \in Int
BY HistoryAssumption DEF TypeOK, DropTime

LEMMA InitConsistent == Init => Consistent
<1> SUFFICES ASSUME NEW p \in Payloads, new(p) PROVE Consistent
    BY DEF Init
<1>1. TypeOK
    BY InitType DEF Init
<1>2. /\ base_snapshot.inOrder
      /\ base_snapshot.anchor = {} /\ base_snapshot.applied = {}
    BY DEF new, Fresh
<1>3. DOMAIN checkpoints = {} /\ events = {}
    BY DEF new
<1>4. QED BY <1>1, <1>2, <1>3
          DEF Consistent, EventsRetained, BaseBehind, NoCheckpointAhead, CheckpointsSound

LEMMA ApplyEventConsistent ==
    ASSUME Consistent, NEW k \in EventKeys, apply_event(k), k.time >= DropTime
    PROVE  Consistent'
<1>1. TypeOK /\ TypeOK' /\ DropTime \in Int
    BY ApplyEventActionType, DropTimeType DEF Consistent
<1>2. /\ checkpoints' = apply_event_in_place(k, base_snapshot, checkpoints, events)
      /\ events' = events \cup {k}
      /\ base_snapshot' = base_snapshot /\ DropTime' = DropTime
    BY DEF apply_event, DropTime
<1>3. k \in ContimeKeys /\ EventSet(events) /\ CheckpointMap(checkpoints)
      /\ base_snapshot \in Snapshots
    BY <1>1, TypeParts, HistoryAssumption
<1>4. /\ Behind(base_snapshot, DropTime) /\ base_snapshot.inOrder
      /\ AllSound(checkpoints, events, DropTime)
      /\ \A e \in events \cup {k} : e.time >= DropTime
      /\ \A c \in DOMAIN checkpoints : \E e \in events : KeyLeq(c, e)
    BY ConsistentParts DEF Retained, NoCheckpointAhead
<1>5. /\ AllSound(checkpoints', events', DropTime)
      /\ \A c \in DOMAIN checkpoints' : \E e \in events' : KeyLeq(c, e)
    BY <1>1, <1>2, <1>3, <1>4, ApplyEventSound
<1>6. AllSound(checkpoints', events', DropTime')
    BY <1>2, <1>5
<1>7. QED BY <1>1, <1>2, <1>4, <1>5, <1>6
          DEF Consistent, EventsRetained, BaseBehind, Behind, AllSound,
              NoCheckpointAhead, CheckpointsSound, StateAt, UpTo, UpToIn

LEMMA ApplySnapshotConsistent ==
    ASSUME Consistent, NEW id, NEW t \in SnapshotTimes, NEW p \in Payloads,
           apply_snapshot(id, t, p),
           \E e \in events : KeyLeq(Key(t, SnapshotId), e)
    PROVE  Consistent'
<1> DEFINE key       == Key(t, SnapshotId)
           kept      == DropFrom(checkpoints, key)
           auth      == Fresh(p, {key}, t)
           corrected == [k \in DOMAIN kept \cup {key} |->
                            IF k = key THEN auth ELSE kept[k]]
<1>1. TypeOK /\ TypeOK' /\ DropTime \in Int
    BY ApplySnapshotType, DropTimeType DEF Consistent
<1>2. /\ checkpoints' = replay_and_checkpoint(auth, {key}, corrected, events)
      /\ events' = events /\ base_snapshot' = base_snapshot
      /\ DropTime' = DropTime
    BY DEF apply_snapshot, DropTime
<1>3. key \in ContimeKeys /\ auth \in Snapshots
    BY SnapshotKeyType, FreshType, HistoryAssumption
<1>4. CheckpointMap(corrected)
    BY <1>1, CorrectedType, HistoryAssumption
<1>5. auth.inOrder /\ auth.anchor = {key} /\ auth.applied = {}
    BY DEF Fresh
<1>6. /\ EventSet(events) /\ CheckpointMap(checkpoints)
      /\ AllSound(checkpoints, events, DropTime) /\ Retained(events, DropTime)
    BY <1>1, TypeParts, ConsistentParts
<1>7. \A c \in DOMAIN kept : c \in DOMAIN checkpoints /\ KeyLess(c, key)
    BY DEF DropFrom
<1>8. /\ DOMAIN corrected = DOMAIN kept \cup {key}
      /\ corrected[key] = auth
      /\ \A k \in DOMAIN kept : corrected[k] = kept[k]
    BY <1>3, <1>6, <1>7, KeyLessIrreflexive DEF CheckpointMap
<1>9. DOMAIN checkpoints' \in SUBSET (DOMAIN checkpoints \cup {key} \cup events)
    BY <1>2, <1>7, <1>8 DEF replay_and_checkpoint, Closed, AfterBound
<1> HIDE DEF corrected, auth
<1>10. AllSound(checkpoints', events, DropTime)
    BY <1>1, <1>2, <1>3, <1>4, <1>5, <1>6, <1>8, CorrectSound
<1>11. \A c \in DOMAIN checkpoints' : \E e \in events : KeyLeq(c, e)
    BY <1>9 DEF Consistent, NoCheckpointAhead, KeyLeq
<1>12. QED BY <1>1, <1>2, <1>10, <1>11
           DEF Consistent, EventsRetained, BaseBehind, AllSound,
               NoCheckpointAhead, CheckpointsSound, StateAt, UpTo, UpToIn

\* Pruning drops what is older than the new horizon, and promotes the newest
\* checkpoint among it, which is older than the horizon too.
LEMMA AdvanceConsistent ==
    ASSUME Consistent, NEW d \in AdvanceSteps, advance(d)
    PROVE  Consistent'
<1> DEFINE drop_key == Key(DropTime', 0)
           dropped  == {c \in DOMAIN checkpoints : KeyLess(c, drop_key)}
           bound    == BoundAtLast(dropped)
<1>1. TypeOK /\ TypeOK' /\ DropTime \in Int /\ DropTime' \in Int
    <2>1. TypeOK /\ TypeOK'
        BY AdvanceType DEF Consistent
    <2>2. DropTime \in Int
        BY <2>1, DropTimeType
    <2>3. DropTime' \in Int
        BY <2>1, HistoryAssumption DEF TypeOK, DropTime
    <2>4. QED BY <2>1, <2>2, <2>3
<1>2. DropTime <= DropTime'
    BY <1>1, HistoryAssumption DEF advance, DropTime, TypeOK
<1>3. /\ events' = {k \in events : ~KeyLess(k, drop_key)}
      /\ checkpoints' = [c \in DOMAIN checkpoints \ dropped |-> checkpoints[c]]
      /\ base_snapshot' = ReplayStart(base_snapshot, checkpoints, bound)
    BY DEF advance
<1>4. \A k \in ContimeKeys : KeyLess(k, drop_key) <=> k.time < DropTime'
    <2>1. drop_key.time = DropTime' /\ drop_key.id = 0
        BY <1>1, KeyType
    <2> HIDE DEF drop_key
    <2>2. QED BY <1>1, <2>1 DEF KeyLess, ContimeKeys
<1>5. /\ EventSet(events) /\ CheckpointMap(checkpoints)
      /\ AllSound(checkpoints, events, DropTime) /\ Retained(events, DropTime)
      /\ Behind(base_snapshot, DropTime) /\ base_snapshot.inOrder
      /\ base_snapshot \in Snapshots
    BY <1>1, TypeParts, ConsistentParts
<1> HIDE DEF drop_key
<1>6. \A e \in events' : e.time >= DropTime'
    BY <1>1, <1>3, <1>4, <1>5 DEF EventSet, ContimeKeys
<1>7. \A e \in events : e \in events' \/ e.time < DropTime'
    BY <1>3, <1>4, <1>5 DEF EventSet
<1>8. AllSound(checkpoints', events', DropTime')
    <2> SUFFICES ASSUME NEW k \in DOMAIN checkpoints'
                 PROVE  /\ checkpoints'[k].inOrder
                        /\ Reflects(checkpoints'[k], k, UpToIn(events', k),
                                    events', checkpoints', DropTime')
        BY DEF AllSound
    <2>1. k \in DOMAIN checkpoints /\ checkpoints'[k] = checkpoints[k]
        BY <1>3
    <2>2. /\ checkpoints[k] \in Snapshots /\ checkpoints[k].inOrder
          /\ Reflects(checkpoints[k], k, UpToIn(events, k), events, checkpoints, DropTime)
        BY <1>5, <2>1 DEF AllSound, CheckpointMap
    <2>3. UpToIn(events', k) \in SUBSET UpToIn(events, k)
        BY <1>3 DEF UpToIn
    <2>4. \A c \in DOMAIN checkpoints' :
             KeyLeq(c, k) /\ c \in checkpoints'[c].anchor
                => c \in DOMAIN checkpoints /\ c \in checkpoints[c].anchor
        BY <1>3
    <2>5. Reflects(checkpoints[k], k, UpToIn(events', k),
                   events', checkpoints', DropTime')
        BY <1>1, <1>2, <1>7, <2>2, <2>3, <2>4, ReflectsMonotone
    <2>6. QED BY <2>1, <2>2, <2>5
<1>9. NoCheckpointAhead'
    <2> SUFFICES ASSUME NEW c \in DOMAIN checkpoints'
                 PROVE  \E e \in events' : KeyLeq(c, e)
        BY DEF NoCheckpointAhead
    <2>1. c \in DOMAIN checkpoints /\ ~KeyLess(c, drop_key) /\ c \in ContimeKeys
        BY <1>3, <1>5 DEF CheckpointMap
    <2>2. PICK e \in events : KeyLeq(c, e)
        BY <2>1 DEF Consistent, NoCheckpointAhead
    <2>3. c.time <= e.time /\ e \in ContimeKeys
        BY <1>5, <2>1, <2>2 DEF KeyLeq, KeyLess, ContimeKeys, EventSet
    <2>4. ~KeyLess(e, drop_key)
        BY <1>1, <1>4, <2>1, <2>3 DEF ContimeKeys
    <2>5. QED BY <1>3, <2>2, <2>4
<1>10. base_snapshot'.inOrder /\ Behind(base_snapshot', DropTime')
    <2>1. EventSet(dropped) /\ dropped \in SUBSET DOMAIN checkpoints
        BY <1>5, CheckpointDomain, EventSubset
    <2>2. CASE dropped = {}
        <3>1. base_snapshot' = base_snapshot
            BY <1>3, <2>1, <2>2, BoundAtLastIsLast DEF ReplayStart
        <3>2. \A k \in base_snapshot.anchor \cup base_snapshot.applied :
                 k.time \in Int /\ k.time < DropTime
            BY <1>5 DEF Behind, Snapshots, ContimeKeys
        <3>3. QED BY <1>1, <1>2, <1>5, <3>1, <3>2 DEF Behind
    <2>3. CASE dropped # {}
        <3>1. PICK c \in dropped : bound = {c} /\ LastKey(bound) = c
            BY <2>1, <2>3, BoundAtLastIsLast
        <3>2. base_snapshot' = checkpoints[c] /\ c \in DOMAIN checkpoints
            BY <1>3, <3>1 DEF ReplayStart
        <3>3. c \in ContimeKeys /\ c.time < DropTime'
            BY <1>4, <1>5, <3>2 DEF CheckpointMap
        <3>4. /\ checkpoints[c].inOrder /\ checkpoints[c] \in Snapshots
              /\ \A k \in checkpoints[c].anchor \cup checkpoints[c].applied : KeyLeq(k, c)
              /\ \A a \in checkpoints[c].anchor, e \in checkpoints[c].applied : KeyLess(a, e)
            BY <1>5, <3>2 DEF AllSound, Reflects, CheckpointMap
        <3>5. \A k \in checkpoints[c].anchor \cup checkpoints[c].applied : k.time < DropTime'
            BY <1>1, <3>3, <3>4 DEF KeyLeq, KeyLess, Snapshots, ContimeKeys
        <3>6. QED BY <3>2, <3>4, <3>5 DEF Behind
    <2>4. QED BY <2>2, <2>3
<1>11. QED BY <1>1, <1>6, <1>8, <1>9, <1>10
           DEF Consistent, EventsRetained, BaseBehind, Behind, AllSound,
               CheckpointsSound, StateAt, UpTo, UpToIn

LEMMA NextConsistent ==
    ASSUME ~LateEvents, ~AheadSnapshots
    PROVE  Consistent /\ [Next]_vars => Consistent'
<1> SUFFICES ASSUME Consistent, [Next]_vars PROVE Consistent'
    OBVIOUS
<1>1. ASSUME NEW d \in AdvanceSteps, advance(d) PROVE Consistent'
    BY <1>1, AdvanceConsistent
<1>2. ASSUME NEW k \in EventKeys, MaySendEvent(k), apply_event(k)
      PROVE  Consistent'
    BY <1>2, ApplyEventConsistent DEF MaySendEvent
<1>3. ASSUME NEW id \in SnapshotIds, NEW t \in SnapshotTimes, NEW p \in Payloads,
             MaySendSnapshot(t), apply_snapshot(id, t, p)
      PROVE  Consistent'
    BY <1>3, ApplySnapshotConsistent DEF MaySendSnapshot
<1>4. ASSUME UNCHANGED <<base_snapshot, checkpoints, events, current_time>>
      PROVE  Consistent'
    <2>1. TypeOK /\ TypeOK'
        BY NextType DEF Consistent
    <2>2. QED BY <1>4, <2>1
              DEF Consistent, EventsRetained, BaseBehind, NoCheckpointAhead,
                  CheckpointsSound, StateAt, UpTo, DropTime
<1>5. QED BY <1>1, <1>2, <1>3, <1>4
          DEF Next, vars, apply_snapshot_foreign, snapshot_at,
              snapshot_at_panics, recv

Before(k) == {e \in events : KeyLess(e, k)}

\* Every query inside the horizon is answered from a sound start.
LEMMA ConsistentAnswers ==
    ASSUME Consistent, NEW t \in QueryTimes, t >= DropTime
    PROVE  /\ AnswerAt(t).inOrder
           /\ StateAt(AnswerAt(t), Key(t, SnapshotId), Before(Key(t, SnapshotId)))
<1> DEFINE key   == Key(t, SnapshotId)
           older == {c \in DOMAIN checkpoints : KeyLeq(c, key)}
           bound == BoundAtLast(older)
           start == ReplayStart(base_snapshot, checkpoints, bound)
           R     == {k \in AfterBound(bound, events) : KeyLess(k, key)}
           found == Replay(start, R)
<1>1. TypeOK /\ DropTime \in Int /\ key \in ContimeKeys /\ key.time = t
    BY SnapshotKeyType, DropTimeType, HistoryAssumption DEF Consistent
<1>2. /\ EventSet(events) /\ CheckpointMap(checkpoints)
      /\ AllSound(checkpoints, events, DropTime)
      /\ \A e \in events : e.time >= DropTime
      /\ Behind(base_snapshot, DropTime) /\ base_snapshot.inOrder
      /\ base_snapshot \in Snapshots
    BY <1>1, TypeParts, ConsistentParts DEF Retained
<1>3. SoundStart(start, bound, events, checkpoints, DropTime)
    BY <1>2, StartSound
<1>4. EventSet(older)
    BY <1>2, CheckpointDomain, EventSubset
<1>5. \A b \in bound : KeyLeq(b, key)
    BY <1>4, BoundAtLastIsLast
<1>6. \A c \in DOMAIN checkpoints : KeyLeq(c, key) => \E b \in bound : KeyLeq(c, b)
    <2>1. \A c \in older : \E b \in bound : KeyLeq(c, b)
        <3> HIDE DEF older
        <3>1. QED BY <1>4, BoundAtLastIsLast
    <2>2. QED BY <2>1
<1>7. /\ R \in SUBSET AfterBound(bound, events)
      /\ \A j \in R : KeyLeq(j, key)
      /\ Before(key) \in SUBSET events
      /\ \A e \in Before(key) : e \in AfterBound(bound, events) => e \in R
    BY DEF Before, KeyLeq
<1>8. start \in Snapshots /\ EventSet(R)
    <2>1. EventSet(AfterBound(bound, events))
        BY <1>2, AfterBoundType
    <2>2. QED BY <1>3, <2>1, EventSubset DEF SoundStart
<1> HIDE DEF bound, start, R, key
<1>9. found.inOrder /\ Reflects(found, key, Before(key), events, checkpoints, DropTime)
    BY <1>1, <1>2, <1>3, <1>5, <1>6, <1>7, ReplaySound
<1>10. found \in Snapshots
    BY <1>8, ReplayType
<1>11. AnswerAt(t) = [found EXCEPT !.time = t]
    BY DEF AnswerAt, found, bound, start, R, key
<1> HIDE DEF found
<1>12. /\ AnswerAt(t).inOrder = found.inOrder
       /\ AnswerAt(t).anchor = found.anchor
       /\ AnswerAt(t).applied = found.applied
    BY <1>10, <1>11 DEF Snapshots
<1>13. QED BY <1>9, <1>12 DEF StateAt, Reflects, key

(***************************************************************************)
(* No sequence of events, duplicates, corrections and prunings breaks the  *)
(* inductive invariant of a history.                                       *)
(***************************************************************************)
THEOREM StaysConsistent ==
    ASSUME ~LateEvents, ~AheadSnapshots
    PROVE  Spec => []Consistent
BY InitConsistent, NextConsistent, PTL DEF Spec

(***************************************************************************)
(* No sequence of events, duplicates, late arrivals, corrections and       *)
(* prunings leaves a stale checkpoint behind.                              *)
(***************************************************************************)
THEOREM CheckpointsStaySound ==
    ASSUME ~LateEvents, ~AheadSnapshots
    PROVE  Spec => []CheckpointsSound
<1>1. Consistent => CheckpointsSound
    BY DEF Consistent
<1>2. QED BY <1>1, StaysConsistent, PTL

(***************************************************************************)
(* Every query inside the horizon is answered with all retained events from*)
(* before its time and none after its key, on top of the newest            *)
(* authoritative state.                                                    *)
(***************************************************************************)
THEOREM AnswersStaySound ==
    ASSUME ~LateEvents, ~AheadSnapshots
    PROVE  Spec => []AnswersSound
<1>1. Consistent => AnswersSound
    <2> SUFFICES ASSUME Consistent, NEW t \in QueryTimes, t >= DropTime
                 PROVE  StateAt(AnswerAt(t), Key(t, SnapshotId), Earlier(t))
        BY DEF AnswersSound
    <2>1. StateAt(AnswerAt(t), Key(t, SnapshotId), Before(Key(t, SnapshotId)))
        BY ConsistentAnswers
    <2>2. Earlier(t) \in SUBSET Before(Key(t, SnapshotId))
        BY DEF Earlier, Before, Key, KeyLess
    <2>3. QED BY <2>1, <2>2 DEF StateAt, Reflects
<1>2. QED BY <1>1, StaysConsistent, PTL

(***************************************************************************)
(* apply_to never sees an event after a newer one, nor one event twice, in *)
(* any checkpoint and in any answer inside the horizon.                    *)
(***************************************************************************)
THEOREM EventsStayInOrder ==
    ASSUME ~LateEvents, ~AheadSnapshots
    PROVE  Spec => []AppliedInOrder
<1>1. Consistent => AppliedInOrder
    BY ConsistentAnswers DEF AppliedInOrder, Consistent, BaseBehind
<1>2. QED BY <1>1, StaysConsistent, PTL
=============================================================================
