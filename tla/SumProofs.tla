----------------------------- MODULE SumProofs ------------------------------
(***************************************************************************)
(* Sums over finite sets: their value on the empty set, one step, and what *)
(* follows from the two.  Induction over a finite set takes the form of a  *)
(* smallest set for which a statement fails.                               *)
(***************************************************************************)
EXTENDS Sums, Sequences, SequenceTheorems, FiniteSetTheorems, TLAPS
-----------------------------------------------------------------------------
(***************************************************************************)
(* A non-empty collection of subsets of a finite set has a smallest one.   *)
(***************************************************************************)
LEMMA SmallestSet ==
    ASSUME NEW S, IsFiniteSet(S), NEW C \in SUBSET SUBSET S, C # {}
    PROVE  \E s \in C : \A t \in C : t \subseteq s => t = s
<1>1. C \subseteq FiniteSubsetsOf(S)
    BY FS_Subset DEF FiniteSubsetsOf
<1>2. IsWellFoundedOn(StrictSubsetOrdering(S), FiniteSubsetsOf(S))
    BY FS_StrictSubsetOrderingWellFounded
<1>3. PICK s \in C : \A t \in C : <<t, s>> \notin StrictSubsetOrdering(S)
    BY <1>1, <1>2, WFMin, Zenon
<1>4. QED BY <1>3 DEF StrictSubsetOrdering

First(s) == CHOOSE x \in s : TRUE

LEMMA FirstType == ASSUME NEW s, s # {} PROVE First(s) \in s
BY DEF First

Partial(f, S, g) ==
    g = [s \in SUBSET S |-> IF s = {} THEN 0
                            ELSE f[First(s)] + g[s \ {First(s)}]]

LEMMA SumIsPartial ==
    ASSUME NEW f, NEW S
    PROVE  SumOver(f, S) = (CHOOSE g : Partial(f, S, g))[S]
BY DEF SumOver, MapThenSumSet, MapThenFoldSet, Partial, First

LEMMA PartialStep ==
    ASSUME NEW f, NEW S, NEW g, Partial(f, S, g), NEW s \in SUBSET S
    PROVE  /\ s = {} => g[s] = 0
           /\ s # {} => /\ First(s) \in s
                        /\ g[s] = f[First(s)] + g[s \ {First(s)}]
BY FirstType DEF Partial

LEMMA PartialAgrees ==
    ASSUME NEW f, NEW S, IsFiniteSet(S), NEW T \in SUBSET S,
           NEW g, Partial(f, S, g), NEW h, Partial(f, T, h),
           NEW s \in SUBSET T
    PROVE  g[s] = h[s]
<1> DEFINE C == {t \in SUBSET T : g[t] # h[t]}
<1> SUFFICES ASSUME C # {} PROVE FALSE
    OBVIOUS
<1>1. IsFiniteSet(T) /\ C \in SUBSET SUBSET T
    BY FS_Subset
<1>2. PICK t \in C : \A u \in C : u \subseteq t => u = t
    <2> HIDE DEF C
    <2> QED BY <1>1, SmallestSet
<1>3. t # {}
    BY PartialStep
<1>4. t \ {First(t)} \in SUBSET T /\ t \ {First(t)} \notin C
    BY <1>2, <1>3, FirstType
<1>5. g[t \ {First(t)}] = h[t \ {First(t)}]
    BY <1>4
<1>6. QED BY <1>3, <1>5, PartialStep

LEMMA PartialExists ==
    ASSUME NEW f, NEW S, IsFiniteSet(S)
    PROVE  \E g : Partial(f, S, g)
<1> DEFINE C == {t \in SUBSET S : ~ \E g : Partial(f, t, g)}
<1> SUFFICES ASSUME C # {} PROVE FALSE
    OBVIOUS
<1>1. PICK t \in C : \A u \in C : u \subseteq t => u = t
    <2>1. C \in SUBSET SUBSET S
        OBVIOUS
    <2> HIDE DEF C
    <2> QED BY <2>1, SmallestSet
<1> DEFINE P(u) == CHOOSE g : Partial(f, u, g)
           G == [s \in SUBSET t |->
                    IF s = {} THEN 0
                    ELSE f[First(s)] + P(s \ {First(s)})[s \ {First(s)}]]
<1>2. ASSUME NEW u \in SUBSET t, u # t PROVE Partial(f, u, P(u))
    BY <1>1, <1>2
<1>3. ASSUME NEW u \in SUBSET t, u # t PROVE G[u] = P(u)[u]
    <2>1. CASE u = {}
        BY <1>2, <1>3, <2>1, PartialStep
    <2>2. CASE u # {}
        <3> DEFINE v == u \ {First(u)}
        <3>1. v \in SUBSET u /\ v # u /\ v \in SUBSET t /\ v # t /\ First(u) \in u
            BY <2>2, FirstType
        <3>2. Partial(f, u, P(u)) /\ Partial(f, v, P(v))
            BY <1>2, <1>3, <3>1
        <3>3. P(u)[v] = P(v)[v]
            <4>1. IsFiniteSet(u)
                BY FS_Subset
            <4> HIDE DEF v, P
            <4> QED BY <3>1, <3>2, <4>1, PartialAgrees
        <3>4. P(u)[u] = f[First(u)] + P(u)[v]
            <4> HIDE DEF P
            <4> QED BY <2>2, <3>2, PartialStep
        <3>5. QED BY <2>2, <3>3, <3>4
    <2>3. QED BY <2>1, <2>2
<1>4. Partial(f, t, G)
    <2>1. ASSUME NEW s \in SUBSET t, s # {}
          PROVE  P(s \ {First(s)})[s \ {First(s)}] = G[s \ {First(s)}]
        <3>1. s \ {First(s)} \in SUBSET t /\ s \ {First(s)} # t
            BY <2>1, FirstType
        <3> HIDE DEF P, G
        <3> QED BY <1>3, <3>1
    <2>2. G = [s \in SUBSET t |-> IF s = {} THEN 0
                                  ELSE f[First(s)] + G[s \ {First(s)}]]
        <3> DEFINE Body(s) == IF s = {} THEN 0 ELSE f[First(s)] + G[s \ {First(s)}]
                   Old(s) == IF s = {} THEN 0
                     ELSE f[First(s)] + P(s \ {First(s)})[s \ {First(s)}]
        <3>1. \A s \in SUBSET t : Old(s) = Body(s)
            <4> HIDE DEF G, P
            <4> QED BY <2>1
        <3>2. G = [s \in SUBSET t |-> Old(s)]
            OBVIOUS
        <3>3. G = [s \in SUBSET t |-> Body(s)]
            <4> HIDE DEF G, Old, Body
            <4> QED BY <3>1, <3>2, Zenon
        <3>4. QED BY <3>3
    <2>3. QED BY <2>2 DEF Partial
<1>5. QED BY <1>1, <1>4

-----------------------------------------------------------------------------
(***************************************************************************)
(* Sums.                                                                   *)
(***************************************************************************)
LEMMA SumEmpty ==
    ASSUME NEW f
    PROVE  SumOver(f, {}) = 0
<1> DEFINE g == CHOOSE g : Partial(f, {}, g)
<1>1. IsFiniteSet({})
    BY FS_EmptySet
<1>2. Partial(f, {}, g)
    BY <1>1, PartialExists
<1>3. g[{}] = 0
    <2> HIDE DEF g
    <2> QED BY <1>2, PartialStep
<1>4. QED BY <1>3, SumIsPartial

LEMMA SumFirst ==
    ASSUME NEW f, NEW S, IsFiniteSet(S), S # {}
    PROVE  /\ First(S) \in S
           /\ SumOver(f, S) = f[First(S)] + SumOver(f, S \ {First(S)})
<1> DEFINE T == S \ {First(S)}
           P(u) == CHOOSE g : Partial(f, u, g)
<1>1. First(S) \in S /\ T \in SUBSET S /\ IsFiniteSet(T)
    BY FirstType, FS_Subset
<1>2. Partial(f, S, P(S)) /\ Partial(f, T, P(T))
    BY <1>1, PartialExists
<1>3. P(S)[S] = f[First(S)] + P(S)[T] /\ P(S)[T] = P(T)[T]
    <2>1. P(S)[S] = f[First(S)] + P(S)[T]
        <3> HIDE DEF P
        <3> QED BY <1>2, PartialStep
    <2> HIDE DEF P, T
    <2>2. QED BY <1>1, <1>2, <2>1, PartialAgrees
<1>4. QED BY <1>1, <1>3, SumIsPartial

LEMMA SumType ==
    ASSUME NEW f, NEW S, IsFiniteSet(S), \A x \in S : f[x] \in Int
    PROVE  SumOver(f, S) \in Int
<1> DEFINE C == {t \in SUBSET S : SumOver(f, t) \notin Int}
<1> SUFFICES ASSUME C # {} PROVE FALSE
    OBVIOUS
<1>1. PICK t \in C : \A u \in C : u \subseteq t => u = t
    <2>1. C \in SUBSET SUBSET S
        OBVIOUS
    <2> HIDE DEF C
    <2> QED BY <2>1, SmallestSet
<1>2. t # {} /\ IsFiniteSet(t)
    <2>1. SumOver(f, {}) \in Int
        BY SumEmpty
    <2>2. QED BY <2>1, FS_Subset
<1>3. /\ First(t) \in t
      /\ SumOver(f, t) = f[First(t)] + SumOver(f, t \ {First(t)})
    BY <1>2, SumFirst
<1>4. SumOver(f, t \ {First(t)}) \in Int
    BY <1>1, <1>3
<1>5. QED BY <1>3, <1>4

(***************************************************************************)
(* The order of the terms does not matter.                                 *)
(***************************************************************************)
LEMMA SumStep ==
    ASSUME NEW f, NEW S, IsFiniteSet(S), \A x \in S : f[x] \in Int, NEW x \in S
    PROVE  SumOver(f, S) = f[x] + SumOver(f, S \ {x})
<1> DEFINE C == {t \in SUBSET S :
                    \E y \in t : SumOver(f, t) # f[y] + SumOver(f, t \ {y})}
<1> SUFFICES ASSUME C # {} PROVE FALSE
    OBVIOUS
<1>1. PICK t \in C : \A u \in C : u \subseteq t => u = t
    <2>1. C \in SUBSET SUBSET S
        OBVIOUS
    <2> HIDE DEF C
    <2> QED BY <2>1, SmallestSet
<1>2. PICK y \in t : SumOver(f, t) # f[y] + SumOver(f, t \ {y})
    OBVIOUS
<1> DEFINE z == First(t)
           rest == (t \ {y}) \ {z}
<1>3. IsFiniteSet(t) /\ z \in t /\ SumOver(f, t) = f[z] + SumOver(f, t \ {z})
    BY <1>2, FS_Subset, SumFirst
<1>4. z # y
    BY <1>2, <1>3
<1>5. rest = (t \ {z}) \ {y}
    OBVIOUS
<1>6. SumOver(f, t \ {z}) = f[y] + SumOver(f, rest)
    BY <1>1, <1>2, <1>3, <1>4, <1>5
<1>7. SumOver(f, t \ {y}) = f[z] + SumOver(f, rest)
    BY <1>1, <1>2, <1>3, <1>4
<1>8. f[y] \in Int /\ f[z] \in Int /\ SumOver(f, rest) \in Int
    <2>1. IsFiniteSet(rest) /\ rest \subseteq S
        BY <1>3, FS_Subset
    <2>2. QED BY <1>2, <1>3, <2>1, SumType
<1>9. QED
    <2> HIDE DEF rest, z
    <2> QED BY <1>2, <1>3, <1>6, <1>7, <1>8

(***************************************************************************)
(* A sum depends on the terms alone, grows with them, and is at most as    *)
(* many times the largest one as there are terms.                          *)
(***************************************************************************)
LEMMA SumMonotone ==
    ASSUME NEW f, NEW g, NEW S, IsFiniteSet(S),
           \A x \in S : f[x] \in Int /\ g[x] \in Int /\ f[x] <= g[x]
    PROVE  SumOver(f, S) <= SumOver(g, S)
<1> DEFINE C == {t \in SUBSET S : ~(SumOver(f, t) <= SumOver(g, t))}
<1> SUFFICES ASSUME C # {} PROVE FALSE
    OBVIOUS
<1>1. PICK t \in C : \A u \in C : u \subseteq t => u = t
    <2>1. C \in SUBSET SUBSET S
        OBVIOUS
    <2> HIDE DEF C
    <2> QED BY <2>1, SmallestSet
<1>2. t # {} /\ IsFiniteSet(t)
    <2>1. SumOver(f, {}) <= SumOver(g, {})
        BY SumEmpty
    <2>2. QED BY <2>1, FS_Subset
<1>3. PICK x \in t : TRUE
    BY <1>2
<1>4. /\ SumOver(f, t) = f[x] + SumOver(f, t \ {x})
      /\ SumOver(g, t) = g[x] + SumOver(g, t \ {x})
    BY <1>2, SumStep
<1>5. SumOver(f, t \ {x}) <= SumOver(g, t \ {x})
    BY <1>1, <1>3
<1>6. SumOver(f, t \ {x}) \in Int /\ SumOver(g, t \ {x}) \in Int
    BY <1>2, FS_Subset, SumType
<1>7. f[x] \in Int /\ g[x] \in Int /\ f[x] <= g[x]
    OBVIOUS
<1>8. ~(SumOver(f, t) <= SumOver(g, t))
    OBVIOUS
<1>9. QED
    <2> HIDE DEF C
    <2> QED BY <1>4, <1>5, <1>6, <1>7, <1>8

LEMMA SumSame ==
    ASSUME NEW f, NEW g, NEW S, IsFiniteSet(S),
           \A x \in S : f[x] \in Int /\ g[x] = f[x]
    PROVE  SumOver(g, S) = SumOver(f, S)
<1>1. SumOver(f, S) <= SumOver(g, S) /\ SumOver(g, S) <= SumOver(f, S)
    BY SumMonotone
<1>2. SumOver(f, S) \in Int /\ SumOver(g, S) \in Int
    BY SumType
<1>3. QED BY <1>1, <1>2

LEMMA SumUpdate ==
    ASSUME NEW f, NEW g, NEW S, IsFiniteSet(S), NEW x \in S,
           \A y \in S : f[y] \in Int, g[x] \in Int,
           \A y \in S \ {x} : g[y] = f[y]
    PROVE  SumOver(g, S) = SumOver(f, S) - f[x] + g[x]
<1>1. /\ SumOver(f, S) = f[x] + SumOver(f, S \ {x})
      /\ SumOver(g, S) = g[x] + SumOver(g, S \ {x})
    BY SumStep
<1>2. IsFiniteSet(S \ {x}) /\ f[x] \in Int
    BY FS_Subset
<1>3. SumOver(g, S \ {x}) = SumOver(f, S \ {x}) /\ SumOver(f, S \ {x}) \in Int
    BY <1>2, SumSame, SumType
<1>4. QED BY <1>1, <1>2, <1>3

LEMMA SumBounded ==
    ASSUME NEW f, NEW S, IsFiniteSet(S), NEW b \in Nat,
           \A x \in S : f[x] \in Int /\ f[x] <= b
    PROVE  SumOver(f, S) <= b * Cardinality(S)
<1> DEFINE C == {t \in SUBSET S : ~(SumOver(f, t) <= b * Cardinality(t))}
<1> SUFFICES ASSUME C # {} PROVE FALSE
    OBVIOUS
<1>1. PICK t \in C : \A u \in C : u \subseteq t => u = t
    <2>1. C \in SUBSET SUBSET S
        OBVIOUS
    <2> HIDE DEF C
    <2> QED BY <2>1, SmallestSet
<1>2. t # {} /\ IsFiniteSet(t)
    BY SumEmpty, FS_EmptySet, FS_Subset
<1>3. PICK x \in t : TRUE
    BY <1>2
<1> DEFINE n == Cardinality(t \ {x})
           m == SumOver(f, t \ {x})
<1>4. n \in Nat /\ Cardinality(t) = n + 1
    <2>1. n = Cardinality(t) - 1 /\ Cardinality(t) \in Nat
        BY <1>2, FS_RemoveElement, FS_CardinalityType
    <2>2. n \in Nat
        BY <1>2, FS_Subset, FS_CardinalityType
    <2>3. QED BY <2>1, <2>2
<1>5. SumOver(f, t) = f[x] + m
    BY <1>2, SumStep
<1>6. m <= b * n /\ m \in Int
    <2>1. m <= b * n
        BY <1>1, <1>3
    <2>2. QED BY <1>2, <2>1, FS_Subset, SumType
<1>7. f[x] \in Int /\ f[x] <= b /\ ~(SumOver(f, t) <= b * Cardinality(t))
    OBVIOUS
<1>8. b * (n + 1) = b * n + b /\ b * n \in Nat
    <2> HIDE DEF n
    <2> QED BY <1>4
<1>9. QED
    <2> HIDE DEF C, n, m
    <2> QED BY <1>4, <1>5, <1>6, <1>7, <1>8

LEMMA SumDisjoint ==
    ASSUME NEW f, NEW S, IsFiniteSet(S), NEW T, IsFiniteSet(T), S \cap T = {},
           \A x \in S \cup T : f[x] \in Int
    PROVE  SumOver(f, S \cup T) = SumOver(f, S) + SumOver(f, T)
<1> DEFINE C == {t \in SUBSET S :
                    SumOver(f, t \cup T) # SumOver(f, t) + SumOver(f, T)}
<1> SUFFICES ASSUME C # {} PROVE FALSE
    OBVIOUS
<1>1. PICK t \in C : \A u \in C : u \subseteq t => u = t
    <2>1. C \in SUBSET SUBSET S
        OBVIOUS
    <2> HIDE DEF C
    <2> QED BY <2>1, SmallestSet
<1>2. SumOver(f, T) \in Int
    BY SumType
<1>3. t # {}
    <2>1. SumOver(f, {} \cup T) = SumOver(f, {}) + SumOver(f, T)
        BY <1>2, SumEmpty
    <2>2. QED BY <2>1
<1>4. PICK x \in t : TRUE
    BY <1>3
<1>5. IsFiniteSet(t) /\ IsFiniteSet(t \cup T)
    BY FS_Subset, FS_Union
<1>6. (t \cup T) \ {x} = (t \ {x}) \cup T
    BY <1>4
<1>7. /\ SumOver(f, t) = f[x] + SumOver(f, t \ {x})
      /\ SumOver(f, t \cup T) = f[x] + SumOver(f, (t \ {x}) \cup T)
    BY <1>4, <1>5, <1>6, SumStep
<1>8. SumOver(f, (t \ {x}) \cup T) = SumOver(f, t \ {x}) + SumOver(f, T)
    BY <1>1, <1>4
<1>9. f[x] \in Int /\ SumOver(f, t \ {x}) \in Int
    BY <1>5, FS_Subset, SumType
<1>10. SumOver(f, t \cup T) # SumOver(f, t) + SumOver(f, T)
    OBVIOUS
<1>11. QED
    <2> HIDE DEF C
    <2> QED BY <1>2, <1>7, <1>8, <1>9, <1>10

LEMMA SumPlus ==
    ASSUME NEW f, NEW g, NEW h, NEW S, IsFiniteSet(S),
           \A x \in S : f[x] \in Int /\ g[x] \in Int /\ h[x] = f[x] + g[x]
    PROVE  SumOver(h, S) = SumOver(f, S) + SumOver(g, S)
<1> DEFINE C == {t \in SUBSET S : SumOver(h, t) # SumOver(f, t) + SumOver(g, t)}
<1> SUFFICES ASSUME C # {} PROVE FALSE
    OBVIOUS
<1>1. PICK t \in C : \A u \in C : u \subseteq t => u = t
    <2>1. C \in SUBSET SUBSET S
        OBVIOUS
    <2> HIDE DEF C
    <2> QED BY <2>1, SmallestSet
<1>2. t # {} /\ IsFiniteSet(t)
    <2>1. SumOver(h, {}) = SumOver(f, {}) + SumOver(g, {})
        BY SumEmpty
    <2>2. QED BY <2>1, FS_Subset
<1>3. PICK x \in t : TRUE
    BY <1>2
<1>4. f[x] \in Int /\ g[x] \in Int /\ h[x] = f[x] + g[x]
    OBVIOUS
<1>5. /\ SumOver(f, t) = f[x] + SumOver(f, t \ {x})
      /\ SumOver(g, t) = g[x] + SumOver(g, t \ {x})
      /\ SumOver(h, t) = h[x] + SumOver(h, t \ {x})
    BY <1>2, SumStep
<1>6. SumOver(h, t \ {x}) = SumOver(f, t \ {x}) + SumOver(g, t \ {x})
    BY <1>1, <1>3
<1>7. SumOver(f, t \ {x}) \in Int /\ SumOver(g, t \ {x}) \in Int
    BY <1>2, FS_Subset, SumType
<1>8. SumOver(h, t) # SumOver(f, t) + SumOver(g, t)
    OBVIOUS
<1>9. QED
    <2> HIDE DEF C
    <2> QED BY <1>4, <1>5, <1>6, <1>7, <1>8

LEMMA SumOfZeros ==
    ASSUME NEW f, NEW S, IsFiniteSet(S), \A x \in S : f[x] = 0
    PROVE  SumOver(f, S) = 0
<1>1. SumOver(f, S) = SumOver(f, S) + SumOver(f, S)
    BY SumPlus
<1>2. PICK m \in Int : m = SumOver(f, S)
    BY SumType
<1>3. m = m + m
    BY <1>1, <1>2
<1>4. m = 0
    BY <1>3
<1>5. QED BY <1>2, <1>4

LEMMA SumNatural ==
    ASSUME NEW f, NEW S, IsFiniteSet(S), \A x \in S : f[x] \in Nat
    PROVE  SumOver(f, S) \in Nat
<1> DEFINE zero == [x \in S |-> 0]
<1>1. SumOver(zero, S) = 0
    BY SumOfZeros
<1>2. SumOver(zero, S) <= SumOver(f, S)
    BY SumMonotone
<1>3. SumOver(f, S) \in Int
    BY SumType
<1>4. QED
    <2> HIDE DEF zero
    <2> QED BY <1>1, <1>2, <1>3

(***************************************************************************)
(* Terms counted from 2 instead of from 1.                                 *)
(***************************************************************************)
LEMMA SumShifted ==
    ASSUME NEW n \in Nat, NEW f, NEW g,
           \A i \in 1..n : f[i + 1] \in Int /\ g[i] = f[i + 1]
    PROVE  SumOver(g, 1..n) = SumOver(f, 2..(n + 1))
<1> DEFINE Up(t) == {i \in 2..(n + 1) : i - 1 \in t}
           C == {t \in SUBSET (1..n) : SumOver(g, t) # SumOver(f, Up(t))}
<1>1. Up(1..n) = 2..(n + 1)
    OBVIOUS
<1> SUFFICES ASSUME C # {} PROVE FALSE
    BY <1>1
<1>2. IsFiniteSet(1..n) /\ IsFiniteSet(2..(n + 1))
    BY FS_Interval
<1>3. PICK t \in C : \A u \in C : u \subseteq t => u = t
    <2> DEFINE D == 1..n
    <2>1. C \in SUBSET SUBSET D /\ IsFiniteSet(D)
        BY <1>2
    <2> HIDE DEF C, D
    <2> QED BY <2>1, SmallestSet
<1>4. t \subseteq 1..n /\ SumOver(g, t) # SumOver(f, Up(t))
    OBVIOUS
<1>5. t # {}
    <2>1. Up({}) = {}
        OBVIOUS
    <2>2. SumOver(g, {}) = SumOver(f, Up({}))
        <3> HIDE DEF Up
        <3> QED BY <2>1, SumEmpty
    <2>3. QED
        <3> HIDE DEF Up, C
        <3> QED BY <1>4, <2>2
<1>6. PICK x \in t : TRUE
    BY <1>5
<1>7. x \in 1..n /\ f[x + 1] \in Int /\ g[x] = f[x + 1]
    BY <1>4
<1>8. x + 1 \in Up(t) /\ Up(t) \ {x + 1} = Up(t \ {x})
    BY <1>4, <1>7
<1>9. IsFiniteSet(t) /\ IsFiniteSet(Up(t))
    BY <1>2, <1>4, FS_Subset
<1>10. \A i \in t : g[i] \in Int
    BY <1>4
<1>11. \A i \in Up(t) : f[i] \in Int
    <2>1. ASSUME NEW i \in Up(t) PROVE f[i] \in Int
        <3>1. i - 1 \in 1..n /\ (i - 1) + 1 = i
            BY <1>4
        <3>2. QED BY <3>1
    <2>2. QED BY <2>1
<1>12. SumOver(g, t) = g[x] + SumOver(g, t \ {x})
    <2> HIDE DEF Up, C
    <2> QED BY <1>6, <1>9, <1>10, SumStep
<1>13. SumOver(f, Up(t)) = f[x + 1] + SumOver(f, Up(t \ {x}))
    <2> HIDE DEF Up
    <2> QED BY <1>8, <1>9, <1>11, SumStep
<1>14. SumOver(g, t \ {x}) = SumOver(f, Up(t \ {x}))
    BY <1>3, <1>6
<1>15. QED
    <2> HIDE DEF Up, C
    <2> QED BY <1>4, <1>7, <1>12, <1>13, <1>14

-----------------------------------------------------------------------------
(***************************************************************************)
(* Sums of sequences.                                                      *)
(***************************************************************************)
LEMMA TotalEmpty == Total(<<>>) = 0
<1>1. DOMAIN <<>> = {}
    OBVIOUS
<1>2. QED BY <1>1, SumEmpty DEF Total

LEMMA TotalType ==
    ASSUME NEW s \in Seq(Int)
    PROVE  Total(s) \in Int
BY FS_Interval, SumType DEF Total

LEMMA TotalNatural ==
    ASSUME NEW s \in Seq(Nat)
    PROVE  Total(s) \in Nat
<1>1. IsFiniteSet(DOMAIN s) /\ \A i \in DOMAIN s : s[i] \in Nat
    BY FS_Interval
<1>2. QED BY <1>1, SumNatural DEF Total

LEMMA TotalAppend ==
    ASSUME NEW s \in Seq(Int), NEW x \in Int
    PROVE  Total(Append(s, x)) = Total(s) + x
<1> DEFINE a == Append(s, x)
           n == Len(s)
<1>1. /\ n \in Nat /\ a \in Seq(Int) /\ DOMAIN a = 1..(n + 1) /\ a[n + 1] = x
      /\ DOMAIN s = 1..n /\ \A i \in 1..n : a[i] = s[i] /\ s[i] \in Int
    BY AppendProperties, LenProperties, ElementOfSeq
<1>2. (1..(n + 1)) \ {n + 1} = 1..n /\ n + 1 \in 1..(n + 1)
    BY <1>1
<1> HIDE DEF a, n
<1>3. IsFiniteSet(1..(n + 1)) /\ IsFiniteSet(1..n) /\ \A i \in 1..(n + 1) : a[i] \in Int
    <2>1. IsFiniteSet(1..(n + 1)) /\ IsFiniteSet(1..n)
        BY <1>1, FS_Interval
    <2>2. QED BY <1>1, <2>1
<1>4. SumOver(a, 1..(n + 1)) = x + SumOver(a, 1..n)
    BY <1>1, <1>2, <1>3, SumStep
<1>5. SumOver(a, 1..n) = SumOver(s, 1..n) /\ SumOver(s, 1..n) \in Int
    BY <1>1, <1>3, SumSame, SumType
<1>6. QED BY <1>1, <1>4, <1>5 DEF Total, a

LEMMA TotalTail ==
    ASSUME NEW s \in Seq(Int), s # <<>>
    PROVE  Total(s) = Head(s) + Total(Tail(s))
<1> DEFINE r == Tail(s)
<1>1. PICK n \in Nat : Len(s) = n + 1
    <2>1. Len(s) \in Nat /\ Len(s) # 0
        BY EmptySeq
    <2>2. QED BY <2>1
<1>2. /\ DOMAIN s = 1..(n + 1) /\ DOMAIN r = 1..n
      /\ \A i \in 1..n : r[i] = s[i + 1] /\ s[i + 1] \in Int
      /\ \A i \in 1..(n + 1) : s[i] \in Int
      /\ Head(s) = s[1]
    BY <1>1
<1>3. (1..(n + 1)) \ {1} = 2..(n + 1) /\ 1 \in 1..(n + 1) /\ IsFiniteSet(1..(n + 1))
    <2>1. IsFiniteSet(1..(n + 1))
        BY FS_Interval
    <2>2. QED BY <2>1
<1> HIDE DEF r
<1>4. SumOver(s, 1..(n + 1)) = s[1] + SumOver(s, 2..(n + 1))
    <2> DEFINE D == 1..(n + 1)
    <2>1. SumOver(s, D) = s[1] + SumOver(s, D \ {1})
        <3>1. IsFiniteSet(D) /\ 1 \in D /\ \A i \in D : s[i] \in Int
            BY <1>2, <1>3
        <3> HIDE DEF D
        <3> QED BY <3>1, SumStep
    <2>2. QED BY <1>3, <2>1
<1>5. SumOver(r, 1..n) = SumOver(s, 2..(n + 1))
    BY <1>2, SumShifted
<1>6. QED BY <1>2, <1>4, <1>5 DEF Total, r

LEMMA TotalBounded ==
    ASSUME NEW s \in Seq(Int), NEW b \in Nat, \A i \in DOMAIN s : s[i] <= b
    PROVE  Total(s) <= b * Len(s)
<1>1. Len(s) \in Nat /\ DOMAIN s = 1..Len(s)
    OBVIOUS
<1>2. IsFiniteSet(1..Len(s)) /\ Cardinality(1..Len(s)) = Len(s)
    BY <1>1, FS_Interval
<1>3. \A i \in 1..Len(s) : s[i] \in Int /\ s[i] <= b
    BY <1>1
<1>4. QED BY <1>1, <1>2, <1>3, SumBounded DEF Total

(***************************************************************************)
(* Maxima.                                                                 *)
(***************************************************************************)
LEMMA LargestExists ==
    ASSUME NEW S, IsFiniteSet(S), S # {}, NEW above \in [S -> SUBSET S]
    PROVE  \E m \in S : \A x \in S : above[x] \subseteq above[m] => above[x] = above[m]
<1> DEFINE C == {above[m] : m \in S}
<1>1. PICK A \in C : \A B \in C : B \subseteq A => B = A
    <2>1. C \in SUBSET SUBSET S /\ C # {}
        OBVIOUS
    <2> HIDE DEF C
    <2> QED BY <2>1, SmallestSet
<1>2. QED BY <1>1

LEMMA MaxOfSet ==
    ASSUME NEW S, S \subseteq Int, IsFiniteSet(S), S # {}
    PROVE  Max(S) \in S /\ \A x \in S : x <= Max(S)
<1> DEFINE above == [m \in S |-> {x \in S : x > m}]
<1>1. PICK m \in S : \A x \in S : above[x] \subseteq above[m] => above[x] = above[m]
    <2>1. PICK T, f : T = S /\ f = above
        OBVIOUS
    <2>2. IsFiniteSet(T) /\ T # {} /\ f \in [T -> SUBSET T]
        BY <2>1
    <2>3. \E m \in T : \A x \in T : f[x] \subseteq f[m] => f[x] = f[m]
        BY <2>2, LargestExists
    <2> HIDE DEF above
    <2> QED BY <2>1, <2>3
<1>2. ASSUME NEW x \in S PROVE m >= x
    <2>1. SUFFICES ASSUME x > m PROVE FALSE
        OBVIOUS
    <2>2. above[x] \subseteq above[m]
        <3>1. ASSUME NEW y \in S, y > x PROVE y > m
            BY <2>1, <3>1
        <3>2. QED BY <3>1
    <2>3. x \in above[m] /\ x \notin above[x]
        BY <2>1
    <2>4. QED
        <3> HIDE DEF above
        <3> QED BY <1>1, <2>2, <2>3
<1>3. \E y \in S : \A x \in S : y >= x
    BY <1>2
<1>4. Max(S) \in S /\ \A x \in S : Max(S) >= x
    BY <1>3 DEF Max
<1>5. QED BY <1>4
=============================================================================
