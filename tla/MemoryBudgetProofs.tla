------------------------- MODULE MemoryBudgetProofs -------------------------
(***************************************************************************)
(* No delta is lost, and the counter stays within its bound, for any       *)
(* number of workers and clients, any sizes and any interleaving of the    *)
(* compare-exchange loops.                                                 *)
(***************************************************************************)
EXTENDS MemoryBudget, SumProofs
-----------------------------------------------------------------------------
(***************************************************************************)
(* The constants.                                                          *)
(***************************************************************************)
LEMMA LargestInputBounds ==
    /\ LargestInput \in Nat
    /\ \A n \in InputSizes, c \in CheckpointDeltas : SnapshotSize + n + c <= LargestInput
    /\ SnapshotSize <= LargestInput
<1> DEFINE Pairs == InputSizes \X CheckpointDeltas
           Sizes == {n + c : n \in InputSizes, c \in CheckpointDeltas}
           S == {0} \cup Sizes
           sum == [p \in Pairs |-> p[1] + p[2]]
<1>1. IsFiniteSet(Pairs)
    BY BudgetAssumption, FS_Product
<1>2. IsFiniteSet(Sizes)
    <2>1. sum \in Surjection(Pairs, Sizes)
        <3>1. \A p \in Pairs : sum[p] \in Sizes
            OBVIOUS
        <3>2. ASSUME NEW n \in InputSizes, NEW c \in CheckpointDeltas
              PROVE  \E p \in Pairs : sum[p] = n + c
            <4>1. <<n, c>> \in Pairs /\ sum[<<n, c>>] = n + c
                OBVIOUS
            <4>2. QED BY <4>1
        <3>3. \A s \in Sizes : \E p \in Pairs : sum[p] = s
            BY <3>2
        <3>4. QED BY <3>1, <3>3 DEF Surjection
    <2> HIDE DEF sum, Pairs, Sizes
    <2>2. QED BY <1>1, <2>1, FS_Surjection
<1>3. S \subseteq Int /\ IsFiniteSet(S) /\ S # {} /\ 0 \in S
    <2>1. Sizes \subseteq Int
        BY BudgetAssumption
    <2>2. IsFiniteSet(S)
        <3> HIDE DEF Sizes
        <3> QED BY <1>2, FS_Union, FS_Singleton
    <2>3. QED BY <2>1, <2>2
<1>4. Max(S) \in S /\ \A x \in S : x <= Max(S)
    <2> HIDE DEF S
    <2> QED BY <1>3, MaxOfSet
<1>5. LargestInput = SnapshotSize + Max(S)
    BY DEF LargestInput
<1>6. ASSUME NEW n \in InputSizes, NEW c \in CheckpointDeltas PROVE n + c <= Max(S)
    <2>1. n + c \in S
        OBVIOUS
    <2> HIDE DEF S
    <2> QED BY <1>4, <2>1
<1>7. Max(S) \in Int /\ 0 <= Max(S)
    <2> HIDE DEF S
    <2> QED BY <1>3, <1>4
<1>8. SnapshotSize \in Nat /\ InputSizes \subseteq Nat /\ CheckpointDeltas \subseteq Int
    BY BudgetAssumption
<1>9. ASSUME NEW n \in InputSizes, NEW c \in CheckpointDeltas
      PROVE  SnapshotSize + n + c <= LargestInput
    <2> HIDE DEF S
    <2> QED BY <1>5, <1>6, <1>7, <1>8
<1>10. QED
    <2> HIDE DEF S
    <2> QED BY <1>5, <1>7, <1>8, <1>9

LEMMA MostTargetsBounds ==
    /\ MostTargets \in Nat
    /\ \A targets \in TargetLists : Len(targets) <= MostTargets
<1> DEFINE S == {Len(targets) : targets \in TargetLists}
           len == [targets \in TargetLists |-> Len(targets)]
<1>1. len \in Surjection(TargetLists, S)
    BY DEF Surjection
<1>2. IsFiniteSet(S)
    <2> HIDE DEF len, S
    <2> QED BY <1>1, BudgetAssumption, FS_Surjection
<1>3. S \subseteq Nat /\ S # {}
    BY BudgetAssumption
<1>4. Max(S) \in S /\ \A x \in S : x <= Max(S)
    <2>1. S \subseteq Int
        BY <1>3
    <2> HIDE DEF S
    <2> QED BY <1>2, <1>3, <2>1, MaxOfSet
<1>5. QED BY <1>3, <1>4 DEF MostTargets

LEMMA OvershootType ==
    /\ Overshoot \in Nat
    /\ Cardinality(Workers) \in Nat /\ Cardinality(Clients) \in Nat
    /\ Overshoot = (LargestInput * (InboundCapacity + 1)) * Cardinality(Workers)
                   + (LargestInput * MostTargets) * Cardinality(Clients)
<1>1. Cardinality(Workers) \in Nat /\ Cardinality(Clients) \in Nat
    BY BudgetAssumption, FS_CardinalityType
<1>2. \A l, k, w, m, c \in Nat :
          /\ l * (w * (k + 1) + c * m) = (l * (k + 1)) * w + (l * m) * c
          /\ l * (w * (k + 1) + c * m) \in Nat
    OBVIOUS
<1>3. LargestInput \in Nat /\ MostTargets \in Nat /\ InboundCapacity \in Nat
    BY LargestInputBounds, MostTargetsBounds, BudgetAssumption
<1>4. QED BY <1>1, <1>2, <1>3 DEF Overshoot

LEMMA SizesFitTheWord ==
    \A n \in InputSizes : n \in Nat /\ Budget + Overshoot + n <= MaxWord
<1>1. PICK S : S = InputSizes
    OBVIOUS
<1>2. S \subseteq Int /\ IsFiniteSet(S) /\ S # {}
    BY <1>1, BudgetAssumption
<1>3. Max(S) \in S /\ \A n \in S : n <= Max(S)
    BY <1>2, MaxOfSet
<1>4. Max(InputSizes) \in Nat /\ \A n \in InputSizes : n \in Nat /\ n <= Max(InputSizes)
    BY <1>1, <1>3, BudgetAssumption
<1>5. QED BY <1>4, OvershootType, BudgetAssumption, WordSuffices

-----------------------------------------------------------------------------
(***************************************************************************)
(* Deltas and queues.                                                      *)
(***************************************************************************)
LEMMA MaxOfTwo ==
    ASSUME NEW a \in Int, NEW b \in Int
    PROVE  Max({a, b}) = IF a >= b THEN a ELSE b
BY DEF Max

LEMMA MinOfTwo ==
    ASSUME NEW a \in Int, NEW b \in Int
    PROVE  Min({a, b}) = IF a <= b THEN a ELSE b
BY DEF Min

LEMMA SaturatingAddIs ==
    ASSUME NEW n \in 0..MaxWord, NEW d \in Int
    PROVE  /\ SaturatingAdd(n, d) \in 0..MaxWord
           /\ SaturatingAdd(n, d) <= n + Max({0, d})
           /\ 0 <= n + d /\ n + d <= MaxWord => SaturatingAdd(n, d) = n + d
<1>1. MaxWord \in Nat
    BY BudgetAssumption
<1>2. Min({n + d, MaxWord}) = IF n + d <= MaxWord THEN n + d ELSE MaxWord
    BY <1>1, MinOfTwo
<1>3. /\ Max({0, d}) = IF 0 >= d THEN 0 ELSE d
      /\ \A m \in Int : Max({0, m}) = IF 0 >= m THEN 0 ELSE m
    BY MaxOfTwo
<1>4. PICK m \in Int : m = Min({n + d, MaxWord})
    BY <1>1, <1>2
<1>5. SaturatingAdd(n, d) = IF 0 >= m THEN 0 ELSE m
    BY <1>3, <1>4 DEF SaturatingAdd
<1>6. QED BY <1>1, <1>2, <1>3, <1>4, <1>5

LEMMA FunctionIsSeq ==
    ASSUME NEW T, NEW n \in Nat, NEW f \in [1..n -> T]
    PROVE  f \in Seq(T) /\ Len(f) = n /\ DOMAIN f = 1..n
<1>1. f \in Seq(T)
    BY SeqDef
<1>2. QED BY <1>1, LenProperties

LEMMA TailMatches ==
    ASSUME NEW T, NEW f \in Seq(T), f # <<>>, NEW g \in Seq(T),
           Len(g) = Len(f) - 1, \A i \in 1..Len(g) : g[i] = f[i + 1]
    PROVE  Tail(f) = g
BY HeadTailProperties, SeqEqual

LEMMA AppendMatches ==
    ASSUME NEW T, NEW f \in Seq(T), NEW x \in T, NEW g \in Seq(T),
           Len(g) = Len(f) + 1, \A i \in 1..Len(f) : g[i] = f[i], g[Len(f) + 1] = x
    PROVE  g = Append(f, x)
<1>1. /\ Append(f, x) \in Seq(T) /\ Len(Append(f, x)) = Len(f) + 1
      /\ \A i \in 1..Len(f) : Append(f, x)[i] = f[i]
      /\ Append(f, x)[Len(f) + 1] = x /\ Len(f) \in Nat
    BY AppendProperties, LenProperties
<1>2. \A i \in 1..Len(g) : g[i] = Append(f, x)[i]
    BY <1>1
<1>3. QED BY <1>1, <1>2, SeqEqual

LEMMA GrowthOf ==
    ASSUME NEW s \in Seq(Int)
    PROVE  /\ Growth(s) \in Seq(Nat) /\ Growth(s) \in Seq(Int)
           /\ Total(Growth(s)) \in Nat
           /\ s = <<>> => Total(Growth(s)) = 0
           /\ s # <<>> => Total(Growth(s)) = Max({0, Head(s)}) + Total(Growth(Tail(s)))
<1>1. ASSUME NEW t \in Seq(Int)
      PROVE  /\ Growth(t) \in Seq(Nat) /\ Growth(t) \in Seq(Int)
             /\ Len(Growth(t)) = Len(t) /\ Len(t) \in Nat
             /\ \A i \in 1..Len(t) : Growth(t)[i] = Max({0, t[i]})
    <2>1. Len(t) \in Nat /\ DOMAIN t = 1..Len(t) /\ \A i \in 1..Len(t) : t[i] \in Int
        BY LenProperties, ElementOfSeq
    <2>2. \A i \in 1..Len(t) : Max({0, t[i]}) \in Nat
        BY <2>1, MaxOfTwo
    <2>3. Growth(t) \in [1..Len(t) -> Nat] /\ Growth(t) \in [1..Len(t) -> Int]
        BY <2>1, <2>2 DEF Growth
    <2>4. \A i \in 1..Len(t) : Growth(t)[i] = Max({0, t[i]})
        BY <2>1 DEF Growth
    <2>5. QED BY <2>1, <2>3, <2>4, FunctionIsSeq
<1>2. ASSUME s # <<>>
      PROVE  /\ Growth(s) # <<>> /\ Head(Growth(s)) = Max({0, Head(s)})
             /\ Tail(Growth(s)) = Growth(Tail(s))
    <2>1. /\ Tail(s) \in Seq(Int) /\ Len(Tail(s)) = Len(s) - 1
          /\ \A i \in 1..Len(Tail(s)) : Tail(s)[i] = s[i + 1]
          /\ Head(s) = s[1] /\ Len(s) \in Nat /\ Len(s) > 0
        BY <1>2, HeadTailProperties, EmptySeq
    <2>2. /\ Growth(s) \in Seq(Nat) /\ Len(Growth(s)) = Len(s)
          /\ \A i \in 1..Len(s) : Growth(s)[i] = Max({0, s[i]})
        BY <1>1
    <2>3. /\ Growth(Tail(s)) \in Seq(Nat) /\ Len(Growth(Tail(s))) = Len(s) - 1
          /\ \A i \in 1..(Len(s) - 1) : Growth(Tail(s))[i] = Max({0, Tail(s)[i]})
        BY <1>1, <2>1
    <2>4. Growth(s) # <<>> /\ Head(Growth(s)) = Max({0, Head(s)})
        BY <2>1, <2>2
    <2>5. ASSUME NEW i \in 1..(Len(s) - 1) PROVE Growth(Tail(s))[i] = Growth(s)[i + 1]
        <3>1. i + 1 \in 1..Len(s) /\ i \in 1..Len(Tail(s))
            BY <2>1
        <3>2. Growth(s)[i + 1] = Max({0, s[i + 1]})
            BY <2>2, <3>1
        <3>3. Growth(Tail(s))[i] = Max({0, Tail(s)[i]}) /\ Tail(s)[i] = s[i + 1]
            BY <2>1, <2>3, <3>1
        <3>4. QED BY <3>2, <3>3
    <2>6. Tail(Growth(s)) = Growth(Tail(s))
        BY <2>2, <2>3, <2>4, <2>5, TailMatches
    <2>7. QED BY <2>4, <2>6
<1>3. ASSUME s = <<>> PROVE Growth(s) = <<>>
    <2>1. Growth(s) \in Seq(Nat) /\ Len(Growth(s)) = Len(s) /\ Len(s) = 0
        BY <1>1, <1>3
    <2>2. QED BY <2>1, EmptySeq
<1>4. Growth(s) \in Seq(Nat) /\ Growth(s) \in Seq(Int)
    BY <1>1
<1>5. QED BY <1>2, <1>3, <1>4, TotalNatural, TotalEmpty, TotalTail

LEMMA NoGrowth == Total(Growth(<<>>)) = 0
<1>1. <<>> \in Seq(Int)
    OBVIOUS
<1>2. QED BY <1>1, GrowthOf

LEMMA ChargesOf ==
    ASSUME NEW q \in Seq(InputSizes \cup {Advance})
    PROVE  /\ Total(Charges(q)) \in Nat
           /\ Total(Charges(q)) <= LargestInput * Len(q)
           /\ \A n \in InputSizes :
                 Total(Charges(Append(q, n))) = Total(Charges(q)) + LargestInput
           /\ Total(Charges(Append(q, Advance))) = Total(Charges(q))
           /\ q # <<>> => Total(Charges(q)) = Total(Charges(Tail(q)))
                            + IF Head(q) = Advance THEN 0 ELSE LargestInput
<1> DEFINE Messages == InputSizes \cup {Advance}
           Charge(x) == IF x = Advance THEN 0 ELSE LargestInput
<1>1. LargestInput \in Nat /\ \A x \in Messages : Charge(x) \in Nat
    BY LargestInputBounds
<1>2. \A n \in InputSizes : n # Advance
    BY BudgetAssumption DEF Advance
<1>3. ASSUME NEW t \in Seq(Messages)
      PROVE  /\ Charges(t) \in Seq(Nat) /\ Charges(t) \in Seq(Int)
             /\ Len(Charges(t)) = Len(t) /\ Len(t) \in Nat
             /\ DOMAIN Charges(t) = 1..Len(t)
             /\ \A i \in 1..Len(t) : t[i] \in Messages /\ Charges(t)[i] = Charge(t[i])
    <2>1. Len(t) \in Nat /\ DOMAIN t = 1..Len(t) /\ \A i \in 1..Len(t) : t[i] \in Messages
        <3> HIDE DEF Messages
        <3> QED BY LenProperties, ElementOfSeq
    <2>2. Charges(t) \in [1..Len(t) -> Nat] /\ Charges(t) \in [1..Len(t) -> Int]
        BY <1>1, <2>1 DEF Charges
    <2>3. \A i \in 1..Len(t) : Charges(t)[i] = Charge(t[i])
        BY <2>1 DEF Charges
    <2> HIDE DEF Messages, Charge
    <2>4. QED BY <2>1, <2>2, <2>3, FunctionIsSeq
<1>4. q \in Seq(Messages)
    OBVIOUS
<1>5. \A x \in Messages : Charges(Append(q, x)) = Append(Charges(q), Charge(x))
    <2> TAKE x \in Messages
    <2> HIDE DEF Messages, Charge
    <2>1. /\ Append(q, x) \in Seq(Messages) /\ Len(Append(q, x)) = Len(q) + 1
          /\ \A i \in 1..Len(q) : Append(q, x)[i] = q[i]
          /\ Append(q, x)[Len(q) + 1] = x /\ Len(q) \in Nat
        BY <1>4, AppendProperties, LenProperties
    <2>2. /\ Charges(Append(q, x)) \in Seq(Nat) /\ Len(Charges(Append(q, x))) = Len(q) + 1
          /\ \A i \in 1..(Len(q) + 1) : Charges(Append(q, x))[i] = Charge(Append(q, x)[i])
        BY <1>3, <2>1
    <2>3. /\ Charges(q) \in Seq(Nat) /\ Len(Charges(q)) = Len(q)
          /\ \A i \in 1..Len(q) : Charges(q)[i] = Charge(q[i])
        BY <1>3, <1>4
    <2>4. \A i \in 1..Len(q) : Charges(Append(q, x))[i] = Charges(q)[i]
        BY <2>1, <2>2, <2>3
    <2>5. Charges(Append(q, x))[Len(q) + 1] = Charge(x)
        BY <2>1, <2>2
    <2>6. QED BY <1>1, <2>2, <2>3, <2>4, <2>5, AppendMatches
<1>6. ASSUME q # <<>>
      PROVE  /\ Charges(q) # <<>>
             /\ Head(Charges(q)) = Charge(Head(q))
             /\ Tail(Charges(q)) = Charges(Tail(q))
             /\ Tail(q) \in Seq(Messages) /\ Head(q) \in Messages
    <2> HIDE DEF Messages, Charge
    <2>1. /\ Tail(q) \in Seq(Messages) /\ Len(Tail(q)) = Len(q) - 1
          /\ \A i \in 1..Len(Tail(q)) : Tail(q)[i] = q[i + 1]
          /\ Head(q) = q[1] /\ Len(q) \in Nat /\ Len(q) > 0 /\ Head(q) \in Messages
        BY <1>4, <1>6, HeadTailProperties, EmptySeq
    <2>2. /\ Charges(q) \in Seq(Nat) /\ Len(Charges(q)) = Len(q)
          /\ \A i \in 1..Len(q) : Charges(q)[i] = Charge(q[i])
        BY <1>3, <1>4
    <2>3. /\ Charges(Tail(q)) \in Seq(Nat) /\ Len(Charges(Tail(q))) = Len(q) - 1
          /\ \A i \in 1..(Len(q) - 1) : Charges(Tail(q))[i] = Charge(Tail(q)[i])
        BY <1>3, <2>1
    <2>4. Charges(q) # <<>> /\ Head(Charges(q)) = Charge(Head(q))
        BY <2>1, <2>2
    <2>5. \A i \in 1..(Len(q) - 1) : Charges(Tail(q))[i] = Charges(q)[i + 1]
        BY <2>1, <2>2, <2>3
    <2>6. Tail(Charges(q)) = Charges(Tail(q))
        BY <2>2, <2>3, <2>4, <2>5, TailMatches
    <2>7. QED BY <2>1, <2>4, <2>6
<1>7. Charges(q) \in Seq(Nat) /\ Charges(q) \in Seq(Int) /\ Len(Charges(q)) = Len(q)
    BY <1>3, <1>4
<1>8. Total(Charges(q)) \in Nat /\ Total(Charges(q)) <= LargestInput * Len(q)
    <2>1. \A i \in DOMAIN Charges(q) : Charges(q)[i] <= LargestInput
        BY <1>1, <1>3, <1>4
    <2>2. QED BY <1>1, <1>7, <2>1, TotalNatural, TotalBounded
<1>9. \A x \in Messages : Total(Charges(Append(q, x))) = Total(Charges(q)) + Charge(x)
    <2> TAKE x \in Messages
    <2>1. Charge(x) \in Int
        BY <1>1
    <2> HIDE DEF Messages, Charge
    <2>2. Total(Append(Charges(q), Charge(x))) = Total(Charges(q)) + Charge(x)
        BY <1>7, <2>1, TotalAppend
    <2>3. QED BY <1>5, <2>2
<1>10. ASSUME q # <<>>
       PROVE  Total(Charges(q)) = Total(Charges(Tail(q))) + Charge(Head(q))
    <2> HIDE DEF Messages, Charge
    <2>1. Total(Charges(q)) = Charge(Head(q)) + Total(Charges(Tail(q)))
        BY <1>6, <1>7, <1>10, TotalTail
    <2>2. Charges(Tail(q)) \in Seq(Int)
        BY <1>3, <1>6, <1>10
    <2>3. Total(Charges(Tail(q))) \in Int /\ Charge(Head(q)) \in Int
        BY <1>1, <1>6, <1>10, <2>2, TotalType
    <2>4. QED BY <2>1, <2>3
<1>11. QED BY <1>2, <1>8, <1>9, <1>10

LEMMA ShortTotals ==
    ASSUME NEW a \in Int, NEW b \in Int
    PROVE  Total(<<a>>) = a /\ Total(<<a, b>>) = a + b
<1>1. ASSUME NEW x \in Int PROVE Total(<<x>>) = x
    <2>1. <<x>> \in Seq(Int) /\ <<x>> # <<>> /\ Head(<<x>>) = x /\ Tail(<<x>>) = <<>>
        OBVIOUS
    <2>2. Total(<<x>>) = x + Total(<<>>)
        BY <2>1, TotalTail
    <2>3. QED BY <2>2, TotalEmpty
<1>2. Total(<<a, b>>) = a + Total(<<b>>)
    <2>1. /\ <<a, b>> \in Seq(Int) /\ <<a, b>> # <<>>
          /\ Head(<<a, b>>) = a /\ Tail(<<a, b>>) = <<b>>
        OBVIOUS
    <2>2. QED BY <2>1, TotalTail
<1>3. QED BY <1>1, <1>2

(***************************************************************************)
(* The deltas of one request: at most two, which together charge an input  *)
(* no more than LargestInput and an advance nothing, and which keep what   *)
(* the worker has added so far from falling below zero if their total does.*)
(***************************************************************************)
LEMMA DeltasOfInput ==
    ASSUME NEW n \in InputSizes, NEW deltas \in InputDeltas(n), NEW r \in Nat,
           r + Total(deltas) >= 0
    PROVE  /\ deltas \in Seq(Int) /\ Len(deltas) <= 2 /\ deltas # <<>>
           /\ Total(Growth(deltas)) <= LargestInput
           /\ Total(Tail(deltas)) <= r + Total(deltas)
<1>1. PICK d \in {0} \cup {n + c : c \in CheckpointDeltas} :
         deltas = <<d>> \/ deltas = <<SnapshotSize, d>>
    BY DEF InputDeltas
<1>2. n \in Nat /\ SnapshotSize \in Nat /\ d \in Int /\ LargestInput \in Nat
      /\ SnapshotSize + d <= LargestInput /\ SnapshotSize <= LargestInput
    BY BudgetAssumption, LargestInputBounds
<1>3. Max({0, d}) = (IF 0 >= d THEN 0 ELSE d) /\ Max({0, SnapshotSize}) = SnapshotSize
    BY <1>2, MaxOfTwo
<1>4. Total(Growth(<<d>>)) = Max({0, d}) /\ Total(<<d>>) = d
    <2>1. Total(Growth(<<>>)) = 0
        BY NoGrowth
    <2>2. <<d>> \in Seq(Int) /\ <<d>> # <<>> /\ Head(<<d>>) = d /\ Tail(<<d>>) = <<>>
        BY <1>2
    <2>3. Total(Growth(<<d>>)) = Max({0, d}) + Total(Growth(<<>>))
        BY <2>2, GrowthOf
    <2>4. Total(<<d>>) = d
        BY <1>2, ShortTotals
    <2>5. QED BY <1>2, <1>3, <2>1, <2>3, <2>4
<1>5. CASE deltas = <<d>>
    <2>1. deltas = <<d>> /\ Tail(deltas) = <<>> /\ Len(deltas) = 1 /\ deltas \in Seq(Int)
        BY <1>1, <1>2, <1>5
    <2>2. QED BY <1>2, <1>3, <1>4, <2>1, TotalEmpty
<1>6. CASE deltas = <<SnapshotSize, d>>
    <2>0. PICK b \in Int : b = SnapshotSize
        BY <1>2
    <2>1. /\ deltas = <<SnapshotSize, d>> /\ Tail(deltas) = <<d>> /\ Len(deltas) = 2
          /\ deltas \in Seq(Int) /\ deltas # <<>> /\ Head(deltas) = SnapshotSize
        <3>1. deltas = <<b, d>>
            BY <1>6, <2>0
        <3>2. QED BY <1>2, <2>0, <3>1
    <2>2. Total(Growth(deltas)) = Max({0, SnapshotSize}) + Max({0, d})
        BY <1>4, <2>1, GrowthOf
    <2>3. Total(deltas) = SnapshotSize + d
        <3>1. Total(<<b, d>>) = b + d
            BY <1>2, ShortTotals
        <3>2. QED BY <2>0, <2>1, <3>1
    <2>4. QED BY <1>2, <1>3, <1>4, <2>1, <2>2, <2>3
<1>7. QED BY <1>1, <1>5, <1>6

LEMMA DeltasOfAdvance ==
    ASSUME NEW r \in Nat, NEW deltas \in AdvanceDeltas(r), r + Total(deltas) >= 0
    PROVE  /\ deltas \in Seq(Int) /\ Len(deltas) <= 2 /\ deltas # <<>>
           /\ Total(Growth(deltas)) = 0
           /\ Total(Tail(deltas)) <= r + Total(deltas)
<1>1. PICK d \in 0..r, e \in 0..r : deltas = <<-d, -e>>
    BY DEF AdvanceDeltas
<1>2. Max({0, -d}) = 0 /\ Max({0, -e}) = 0
    BY MaxOfTwo
<1>3. /\ deltas \in Seq(Int) /\ Len(deltas) = 2 /\ deltas # <<>>
      /\ Head(deltas) = -d /\ Tail(deltas) = <<-e>>
      /\ <<-e>> \in Seq(Int) /\ <<-e>> # <<>> /\ Head(<<-e>>) = -e /\ Tail(<<-e>>) = <<>>
    BY <1>1
<1>4. Total(Growth(<<>>)) = 0
    BY NoGrowth
<1>5. Total(Growth(<<-e>>)) = Max({0, -e}) + Total(Growth(<<>>))
    BY <1>3, GrowthOf
<1>6. Total(Growth(deltas)) = Max({0, -d}) + Total(Growth(<<-e>>))
    BY <1>3, GrowthOf
<1>7. Total(deltas) = (-d) + (-e) /\ Total(Tail(deltas)) = -e
    <2>1. PICK a \in Int, b \in Int : a = -d /\ b = -e
        BY <1>1
    <2>2. Total(<<a, b>>) = a + b /\ Total(<<b>>) = b
        BY ShortTotals
    <2>3. QED BY <1>1, <1>3, <2>1, <2>2
<1>8. QED BY <1>1, <1>2, <1>3, <1>4, <1>5, <1>6, <1>7

-----------------------------------------------------------------------------
(***************************************************************************)
(* The three sums, and how they change with one worker or one client.      *)
(***************************************************************************)
TotalsOf(t) == [w \in Workers |-> Total(t[w])]
ComingOf(t, q) == [w \in Workers |-> Total(Growth(t[w])) + Total(Charges(q[w]))]
OwedOf(s) == [c \in Clients |-> Owed(s[c])]

Queues == [Workers -> Seq(InputSizes \cup {Advance})]
Todos == [Workers -> Seq(Int)]
Calls == [usage : 0..MaxWord, size : Nat, targets : Seq(Workers)]

LEMMA CommittedIs ==
    Committed = memory_usage + SumOver(ComingOf(todo, inbound), Workers)
                             + SumOver(OwedOf(sender), Clients)
BY DEF Committed, Coming, ComingOf, OwedOf

LEMMA NothingLostIs ==
    NothingLost <=> memory_usage + SumOver(TotalsOf(todo), Workers) = SumOver(reported, Workers)
BY DEF NothingLost, TotalsOf

LEMMA OwedType ==
    ASSUME NEW call \in Calls
    PROVE  /\ Owed(call) \in Nat /\ Owed(Idle) = 0 /\ Idle \in Calls
           /\ Fits(call) => Owed(call) = LargestInput * Len(call.targets)
           /\ ~Fits(call) => Owed(call) = 0
<1>1. call.targets \in Seq(Workers) /\ Len(call.targets) \in Nat
    BY LenProperties DEF Calls
<1>2. LargestInput \in Nat /\ MaxWord \in Nat
    BY LargestInputBounds, BudgetAssumption
<1>3. \A a, b \in Nat : a * b \in Nat /\ a * 0 = 0
    OBVIOUS
<1>4. Idle.targets = <<>> /\ Len(Idle.targets) = 0
    BY DEF Idle
<1>5. Owed(Idle) = 0
    BY <1>2, <1>3, <1>4 DEF Owed
<1>6. Idle \in Calls
    BY <1>2 DEF Idle, Calls
<1>7. QED BY <1>1, <1>2, <1>3, <1>5, <1>6 DEF Owed

LEMMA SumTypes ==
    ASSUME NEW t \in Todos, NEW q \in Queues, NEW s \in [Clients -> Calls]
    PROVE  /\ SumOver(TotalsOf(t), Workers) \in Int
           /\ SumOver(ComingOf(t, q), Workers) \in Nat
           /\ SumOver(OwedOf(s), Clients) \in Nat
<1>1. \A w \in Workers : /\ Total(t[w]) \in Int
                         /\ Total(Growth(t[w])) \in Nat /\ Total(Charges(q[w])) \in Nat
    BY TotalType, GrowthOf, ChargesOf DEF Todos, Queues
<1>2. \A c \in Clients : Owed(s[c]) \in Nat
    BY OwedType
<1>3. IsFiniteSet(Workers) /\ IsFiniteSet(Clients)
    BY BudgetAssumption
<1>4. /\ \A w \in Workers : TotalsOf(t)[w] \in Int
      /\ \A w \in Workers : ComingOf(t, q)[w] \in Nat
      /\ \A c \in Clients : OwedOf(s)[c] \in Nat
    BY <1>1, <1>2 DEF TotalsOf, ComingOf, OwedOf
<1>5. SumOver(TotalsOf(t), Workers) \in Int
    BY <1>3, <1>4, SumType
<1>6. SumOver(ComingOf(t, q), Workers) \in Nat /\ SumOver(OwedOf(s), Clients) \in Nat
    BY <1>3, <1>4, SumNatural
<1>7. QED BY <1>5, <1>6

LEMMA TotalsChange ==
    ASSUME NEW t \in Todos, NEW w \in Workers, NEW d \in Seq(Int)
    PROVE  SumOver(TotalsOf([t EXCEPT ![w] = d]), Workers)
               = SumOver(TotalsOf(t), Workers) - Total(t[w]) + Total(d)
<1>1. PICK u : u = [t EXCEPT ![w] = d]
    OBVIOUS
<1>2. u \in Todos /\ u[w] = d /\ \A v \in Workers \ {w} : u[v] = t[v]
    BY <1>1 DEF Todos
<1>3. \A v \in Workers : Total(t[v]) \in Int /\ Total(u[v]) \in Int
    BY <1>2, TotalType DEF Todos
<1>4. PICK f, g : f = TotalsOf(t) /\ g = TotalsOf(u)
    OBVIOUS
<1>5. /\ \A v \in Workers : f[v] = Total(t[v]) /\ f[v] \in Int
      /\ g[w] = Total(d) /\ g[w] \in Int
      /\ \A v \in Workers \ {w} : g[v] = f[v]
    BY <1>2, <1>3, <1>4 DEF TotalsOf
<1>6. SumOver(g, Workers) = SumOver(f, Workers) - f[w] + g[w]
    BY <1>5, BudgetAssumption, SumUpdate
<1>7. QED BY <1>1, <1>4, <1>5, <1>6

LEMMA ComingChange ==
    ASSUME NEW t \in Todos, NEW q \in Queues, NEW t2 \in Todos, NEW q2 \in Queues,
           NEW w \in Workers,
           \A v \in Workers \ {w} : t2[v] = t[v] /\ q2[v] = q[v]
    PROVE  SumOver(ComingOf(t2, q2), Workers) = SumOver(ComingOf(t, q), Workers)
               - (Total(Growth(t[w])) + Total(Charges(q[w])))
               + (Total(Growth(t2[w])) + Total(Charges(q2[w])))
<1>1. \A v \in Workers :
          /\ Total(Growth(t[v])) \in Nat /\ Total(Charges(q[v])) \in Nat
          /\ Total(Growth(t2[v])) \in Nat /\ Total(Charges(q2[v])) \in Nat
    BY GrowthOf, ChargesOf DEF Todos, Queues
<1>2. PICK f, g : f = ComingOf(t, q) /\ g = ComingOf(t2, q2)
    OBVIOUS
<1>3. /\ \A v \in Workers : f[v] = Total(Growth(t[v])) + Total(Charges(q[v])) /\ f[v] \in Int
      /\ g[w] = Total(Growth(t2[w])) + Total(Charges(q2[w])) /\ g[w] \in Int
      /\ \A v \in Workers \ {w} : g[v] = f[v]
    BY <1>1, <1>2 DEF ComingOf
<1>4. SumOver(g, Workers) = SumOver(f, Workers) - f[w] + g[w]
    BY <1>3, BudgetAssumption, SumUpdate
<1>5. QED BY <1>2, <1>3, <1>4

LEMMA OwedChange ==
    ASSUME NEW s \in [Clients -> Calls], NEW c \in Clients, NEW call \in Calls
    PROVE  SumOver(OwedOf([s EXCEPT ![c] = call]), Clients)
               = SumOver(OwedOf(s), Clients) - Owed(s[c]) + Owed(call)
<1>1. PICK u : u = [s EXCEPT ![c] = call]
    OBVIOUS
<1>2. u \in [Clients -> Calls] /\ u[c] = call /\ \A e \in Clients \ {c} : u[e] = s[e]
    BY <1>1
<1>3. \A e \in Clients : Owed(s[e]) \in Nat /\ Owed(u[e]) \in Nat
    BY <1>2, OwedType
<1>4. PICK f, g : f = OwedOf(s) /\ g = OwedOf(u)
    OBVIOUS
<1>5. /\ \A e \in Clients : f[e] = Owed(s[e]) /\ f[e] \in Int
      /\ g[c] = Owed(call) /\ g[c] \in Int
      /\ \A e \in Clients \ {c} : g[e] = f[e]
    BY <1>2, <1>3, <1>4 DEF OwedOf
<1>6. SumOver(g, Clients) = SumOver(f, Clients) - f[c] + g[c]
    BY <1>5, BudgetAssumption, SumUpdate
<1>7. QED BY <1>1, <1>4, <1>5, <1>6

(***************************************************************************)
(* Whatever fills the channels, all that may still come is Overshoot.      *)
(***************************************************************************)
LEMMA StillToCome ==
    ASSUME NEW t \in Todos, NEW q \in Queues, NEW s \in [Clients -> Calls],
           \A w \in Workers : /\ Len(q[w]) <= InboundCapacity
                              /\ Total(Growth(t[w])) <= LargestInput,
           \A c \in Clients : s[c] # Idle => Len(s[c].targets) <= MostTargets
    PROVE  SumOver(ComingOf(t, q), Workers) + SumOver(OwedOf(s), Clients) <= Overshoot
<1>1. LargestInput \in Nat /\ MostTargets \in Nat /\ InboundCapacity \in Nat
    BY LargestInputBounds, MostTargetsBounds, BudgetAssumption
<1>2. \A a, b, l \in Nat : a <= b => l * a <= l * b /\ l * a \in Nat /\ l * b \in Nat
    OBVIOUS
<1>3. \A l, k \in Nat : l + l * k = l * (k + 1) /\ l * (k + 1) \in Nat
    OBVIOUS
<1>4. PICK big \in Nat : big = LargestInput * (InboundCapacity + 1)
    BY <1>1, <1>3
<1>5. PICK most \in Nat : most = LargestInput * MostTargets
    BY <1>1, <1>2
<1>6. ASSUME NEW w \in Workers
      PROVE  ComingOf(t, q)[w] \in Int /\ ComingOf(t, q)[w] <= big
    <2>1. /\ Total(Growth(t[w])) \in Nat /\ Total(Charges(q[w])) \in Nat
          /\ Total(Charges(q[w])) <= LargestInput * Len(q[w])
        BY GrowthOf, ChargesOf DEF Todos, Queues
    <2>2. Len(q[w]) \in Nat
        BY LenProperties DEF Queues
    <2>3. LargestInput * Len(q[w]) <= LargestInput * InboundCapacity
          /\ LargestInput * Len(q[w]) \in Nat /\ LargestInput * InboundCapacity \in Nat
        BY <1>1, <1>2, <2>2
    <2>4. LargestInput + LargestInput * InboundCapacity = big
        BY <1>1, <1>3, <1>4
    <2>5. ComingOf(t, q)[w] = Total(Growth(t[w])) + Total(Charges(q[w]))
        BY DEF ComingOf
    <2>6. PICK x \in Nat, y \in Nat : x = LargestInput * Len(q[w])
                                      /\ y = LargestInput * InboundCapacity
        BY <2>3
    <2>7. QED BY <1>1, <2>1, <2>3, <2>4, <2>5, <2>6
<1>7. ASSUME NEW c \in Clients
      PROVE  OwedOf(s)[c] \in Int /\ OwedOf(s)[c] <= most
    <2>1. OwedOf(s)[c] = Owed(s[c]) /\ Owed(s[c]) \in Nat /\ Len(s[c].targets) \in Nat
        BY OwedType, LenProperties DEF OwedOf, Calls
    <2>2. CASE s[c] = Idle
        BY <2>1, <2>2, OwedType
    <2>3. CASE s[c] # Idle
        <3>1. LargestInput * Len(s[c].targets) <= most
            BY <1>1, <1>2, <1>5, <2>1, <2>3
        <3>2. Owed(s[c]) = 0 \/ Owed(s[c]) = LargestInput * Len(s[c].targets)
            BY OwedType
        <3>3. QED BY <2>1, <3>1, <3>2
    <2>4. QED BY <2>2, <2>3
<1>8. SumOver(ComingOf(t, q), Workers) <= big * Cardinality(Workers)
    BY <1>6, BudgetAssumption, SumBounded
<1>9. SumOver(OwedOf(s), Clients) <= most * Cardinality(Clients)
    BY <1>7, BudgetAssumption, SumBounded
<1>10. /\ SumOver(ComingOf(t, q), Workers) \in Nat /\ SumOver(OwedOf(s), Clients) \in Nat
       /\ big * Cardinality(Workers) \in Nat /\ most * Cardinality(Clients) \in Nat
    BY <1>2, OvershootType, SumTypes
<1>11. Overshoot = big * Cardinality(Workers) + most * Cardinality(Clients)
    BY <1>4, <1>5, OvershootType
<1>12. QED BY <1>8, <1>9, <1>10, <1>11

-----------------------------------------------------------------------------
(***************************************************************************)
(* The inductive step, action by action.                                   *)
(***************************************************************************)
LEMMA Accounted ==
    ASSUME BudgetAccounted
    PROVE  /\ memory_usage \in Nat /\ memory_usage <= MaxWord
           /\ sender \in [Clients -> Calls]
           /\ inbound \in Queues /\ todo \in Todos
           /\ current \in [Workers -> SUBSET (0..MaxWord)]
           /\ reported \in [Workers -> Nat] /\ requests \in Nat
           /\ SumOver(ComingOf(todo, inbound), Workers) \in Nat
           /\ SumOver(OwedOf(sender), Clients) \in Nat
           /\ SumOver(TotalsOf(todo), Workers) \in Int
           /\ SumOver(reported, Workers) \in Int
           /\ memory_usage + SumOver(TotalsOf(todo), Workers) = SumOver(reported, Workers)
           /\ Overshoot \in Nat /\ Budget \in Nat /\ MaxWord \in Nat
           /\ LargestInput \in Nat /\ MaxRequests \in Nat
<1>1. /\ memory_usage \in 0..MaxWord
      /\ sender \in [Clients -> Calls]
      /\ inbound \in Queues /\ todo \in Todos
      /\ current \in [Workers -> SUBSET (0..MaxWord)]
      /\ reported \in [Workers -> Nat] /\ requests \in Nat
    BY BudgetAssumption DEF BudgetAccounted, TypeOK, Calls, Queues, Todos
<1>2. SumOver(reported, Workers) \in Int
    BY <1>1, BudgetAssumption, SumType
<1>3. Overshoot \in Nat /\ Budget \in Nat /\ MaxWord \in Nat
      /\ LargestInput \in Nat /\ MaxRequests \in Nat
    BY OvershootType, LargestInputBounds, BudgetAssumption
<1>4. NothingLost
    BY DEF BudgetAccounted
<1>5. QED BY <1>1, <1>2, <1>3, <1>4, NothingLostIs, SumTypes

\* The counter is never larger than what is committed, nor than the bound.
LEMMA UsageBelow ==
    ASSUME BudgetAccounted
    PROVE  /\ Committed \in Nat /\ memory_usage <= Committed
           /\ Committed <= Budget + Overshoot
           /\ \A n \in InputSizes : memory_usage + n <= MaxWord
<1>1. Committed \in Nat /\ memory_usage <= Committed
    BY Accounted, CommittedIs
<1>2. Committed <= Budget + Overshoot
    BY <1>1, Accounted DEF BudgetAccounted
<1>3. QED BY <1>1, <1>2, Accounted, SizesFitTheWord

LEMMA LoadUsageAccounted ==
    ASSUME BudgetAccounted, NEW c \in Clients, LoadUsage(c)
    PROVE  BudgetAccounted'
<1>1. PICK n \in InputSizes, targets \in TargetLists :
         sender' = [sender EXCEPT ![c] = [usage |-> memory_usage, size |-> n,
                                          targets |-> targets]]
    BY DEF LoadUsage
<1> DEFINE call == [usage |-> memory_usage, size |-> n, targets |-> targets]
<1>2. /\ sender[c] = Idle /\ requests < MaxRequests /\ requests' = requests + 1
      /\ UNCHANGED <<memory_usage, inbound, todo, current, reported>>
    BY DEF LoadUsage
<1>3. /\ targets \in Seq(Workers) /\ targets # <<>> /\ Len(targets) <= MostTargets
      /\ n \in Nat
    BY BudgetAssumption, MostTargetsBounds
<1>4. call \in Calls
    BY <1>3, Accounted DEF Calls
<1>5. sender' \in [Clients -> Calls] /\ sender'[c] = call
      /\ \A e \in Clients \ {c} : sender'[e] = sender[e]
    BY <1>1, <1>4, Accounted
<1>6. TypeOK'
    <2>1. requests' \in 0..MaxRequests
        BY <1>2, Accounted
    <2> HIDE DEF call
    <2>2. QED BY <1>2, <1>5, <2>1 DEF BudgetAccounted, TypeOK, Calls
<1>7. CallsAreInputs'
    BY <1>3, <1>5 DEF BudgetAccounted, CallsAreInputs
<1>8. WorkersWithinBounds'
    BY <1>2 DEF BudgetAccounted, WorkersWithinBounds
<1>9. NothingLost'
    BY <1>2 DEF BudgetAccounted, NothingLost
<1>10. Committed' = memory_usage + SumOver(ComingOf(todo, inbound), Workers)
                                 + SumOver(OwedOf(sender'), Clients)
    BY <1>2 DEF Committed, Coming, ComingOf, OwedOf
<1>11. SumOver(OwedOf(sender'), Clients) = SumOver(OwedOf(sender), Clients) + Owed(call)
    <2> HIDE DEF call
    <2>1. sender' = [sender EXCEPT ![c] = call]
        BY <1>1 DEF call
    <2>2. SumOver(OwedOf(sender'), Clients)
              = SumOver(OwedOf(sender), Clients) - Owed(sender[c]) + Owed(call)
        BY <1>4, <2>1, Accounted, OwedChange
    <2>3. Owed(sender[c]) = 0 /\ Owed(call) \in Nat
        BY <1>2, <1>4, OwedType
    <2>4. QED BY <2>2, <2>3, Accounted
<1>12. CASE ~Fits(call)
    <2>1. Owed(call) = 0
        BY <1>4, <1>12, OwedType
    <2>2. Committed' = Committed
        BY <1>10, <1>11, <2>1, Accounted, CommittedIs
    <2>3. QED BY <1>6, <1>7, <1>8, <1>9, <2>2, Accounted DEF BudgetAccounted
<1>13. CASE Fits(call)
    <2>1. memory_usage + n <= MaxWord
        BY UsageBelow
    <2>2. (memory_usage + n) % (MaxWord + 1) < Budget
        BY <1>13 DEF Fits
    <2>3. \A a, b \in Nat : a < b => a % b = a
        OBVIOUS
    <2>4. memory_usage + n < Budget
        BY <1>3, <2>1, <2>2, <2>3, Accounted
    <2>5. SumOver(ComingOf(todo, inbound), Workers) + SumOver(OwedOf(sender'), Clients)
              <= Overshoot
        <3>1. \A w \in Workers : /\ Len(inbound[w]) <= InboundCapacity
                                 /\ Total(Growth(todo[w])) <= LargestInput
            BY DEF BudgetAccounted, WorkersWithinBounds
        <3>2. \A e \in Clients : sender'[e] # Idle => Len(sender'[e].targets) <= MostTargets
            BY <1>7 DEF CallsAreInputs
        <3>3. PICK s \in [Clients -> Calls] : s = sender'
            BY <1>5
        <3>4. \A e \in Clients : s[e] # Idle => Len(s[e].targets) <= MostTargets
            BY <3>2, <3>3
        <3>5. QED BY <3>1, <3>3, <3>4, Accounted, StillToCome
    <2>6. SumOver(OwedOf(sender'), Clients) \in Nat
        BY <1>5, Accounted, SumTypes
    <2>7. Committed' < Budget + Overshoot
        <3>1. PICK x \in Nat, y \in Nat :
                  /\ x = SumOver(ComingOf(todo, inbound), Workers)
                  /\ y = SumOver(OwedOf(sender'), Clients)
            BY <2>6, Accounted
        <3>2. Committed' = memory_usage + x + y /\ x + y <= Overshoot
            BY <1>10, <2>5, <3>1
        <3>3. memory_usage \in Nat /\ Overshoot \in Nat /\ Budget \in Nat
            BY Accounted
        <3> HIDE DEF call
        <3>4. QED BY <1>3, <2>4, <3>2, <3>3
    <2>8. QED BY <1>6, <1>7, <1>8, <1>9, <2>7 DEF BudgetAccounted
<1>14. QED BY <1>12, <1>13

LEMMA RefuseAccounted ==
    ASSUME BudgetAccounted, NEW c \in Clients, Refuse(c)
    PROVE  BudgetAccounted'
<1>1. /\ sender[c] # Idle /\ ~Fits(sender[c]) /\ sender' = [sender EXCEPT ![c] = Idle]
      /\ UNCHANGED <<memory_usage, inbound, todo, current, reported, requests>>
    BY DEF Refuse
<1>2. Idle \in Calls /\ Owed(Idle) = 0 /\ Owed(sender[c]) = 0
    BY <1>1, Accounted, OwedType
<1>3. sender' \in [Clients -> Calls] /\ sender'[c] = Idle
      /\ \A e \in Clients \ {c} : sender'[e] = sender[e]
    BY <1>1, <1>2, Accounted
<1>4. TypeOK'
    BY <1>1, <1>3, Accounted DEF BudgetAccounted, TypeOK, Calls
<1>5. CallsAreInputs'
    BY <1>3 DEF BudgetAccounted, CallsAreInputs
<1>6. WorkersWithinBounds' /\ NothingLost'
    BY <1>1 DEF BudgetAccounted, WorkersWithinBounds, NothingLost
<1>7. SumOver(OwedOf(sender'), Clients) = SumOver(OwedOf(sender), Clients)
    <2>1. SumOver(OwedOf(sender'), Clients)
              = SumOver(OwedOf(sender), Clients) - Owed(sender[c]) + Owed(Idle)
        BY <1>1, <1>2, Accounted, OwedChange
    <2>2. QED BY <1>2, <2>1, Accounted
<1>8. Committed' = memory_usage + SumOver(ComingOf(todo, inbound), Workers)
                                + SumOver(OwedOf(sender'), Clients)
    BY <1>1 DEF Committed, Coming, ComingOf, OwedOf
<1>9. Committed' = Committed
    BY <1>7, <1>8, CommittedIs
<1>10. QED BY <1>4, <1>5, <1>6, <1>9, Accounted, <1>1 DEF BudgetAccounted

LEMMA SendAccounted ==
    ASSUME BudgetAccounted, NEW c \in Clients, Send(c)
    PROVE  BudgetAccounted'
<1> DEFINE call == sender[c]
           w    == Head(call.targets)
           rest == Tail(call.targets)
           left == IF rest = <<>> THEN Idle ELSE [call EXCEPT !.targets = rest]
           added == Append(inbound[w], call.size)
<1>1. /\ call # Idle /\ Fits(call)
      /\ Len(inbound[w]) < InboundCapacity
      /\ inbound' = [inbound EXCEPT ![w] = added]
      /\ sender' = [sender EXCEPT ![c] = left]
      /\ UNCHANGED <<memory_usage, todo, current, reported, requests>>
    BY DEF Send
<1>2. call \in Calls /\ call.size \in InputSizes /\ call.targets # <<>>
      /\ Len(call.targets) <= MostTargets
    BY <1>1, Accounted DEF BudgetAccounted, CallsAreInputs
<1>3. /\ call.targets \in Seq(Workers) /\ w \in Workers /\ rest \in Seq(Workers)
      /\ Len(rest) = Len(call.targets) - 1 /\ Len(rest) \in Nat
      /\ Len(call.targets) \in Nat /\ Len(<<>>) = 0
    <2>1. PICK seq \in Seq(Workers) : seq = call.targets
        BY <1>2 DEF Calls
    <2>2. /\ Head(seq) \in Workers /\ Tail(seq) \in Seq(Workers)
          /\ Len(Tail(seq)) = Len(seq) - 1
        BY <1>2, <2>1, HeadTailProperties
    <2>3. Len(seq) \in Nat /\ Len(Tail(seq)) \in Nat /\ Len(<<>>) = 0
        BY <2>2, LenProperties
    <2>4. QED BY <2>1, <2>2, <2>3
<1>4. /\ left \in Calls
      /\ rest # <<>> => /\ left.size = call.size /\ left.usage = call.usage
                        /\ left.targets = rest
    BY <1>2, <1>3, OwedType DEF Calls
<1>5. sender' \in [Clients -> Calls] /\ sender'[c] = left
      /\ \A e \in Clients \ {c} : sender'[e] = sender[e]
    <2> HIDE DEF left
    <2> QED BY <1>1, <1>4, Accounted
<1>6. inbound[w] \in Seq(InputSizes \cup {Advance}) /\ added \in Seq(InputSizes \cup {Advance})
      /\ Len(added) = Len(inbound[w]) + 1
    <2>1. inbound[w] \in Seq(InputSizes \cup {Advance})
        BY <1>3, Accounted DEF Queues
    <2> HIDE DEF w
    <2>2. QED BY <1>2, <2>1, AppendProperties
<1>7. inbound' \in Queues /\ inbound'[w] = added
      /\ \A v \in Workers \ {w} : inbound'[v] = inbound[v]
    <2> HIDE DEF w, added
    <2> QED BY <1>1, <1>3, <1>6, Accounted DEF Queues
<1>8. TypeOK'
    BY <1>1, <1>5, <1>7, Accounted DEF BudgetAccounted, TypeOK, Calls, Queues
<1>9. CallsAreInputs'
    <2>1. left # Idle => /\ left.size \in InputSizes
                         /\ left.targets # <<>> /\ Len(left.targets) <= MostTargets
        <3>1. CASE rest = <<>>
            BY <3>1
        <3>2. CASE rest # <<>>
            <4>1. left.size \in InputSizes /\ left.targets = rest
                BY <1>2, <1>4, <3>2
            <4> HIDE DEF left, rest
            <4>2. QED BY <1>2, <1>3, <3>2, <4>1, MostTargetsBounds
        <3>3. QED BY <3>1, <3>2
    <2> HIDE DEF left, call
    <2>2. QED BY <1>5, <2>1 DEF BudgetAccounted, CallsAreInputs
<1>10. WorkersWithinBounds'
    <2>1. Len(inbound'[w]) <= InboundCapacity
        <3>1. Len(inbound[w]) \in Nat /\ InboundCapacity \in Nat
            BY <1>6, LenProperties, BudgetAssumption
        <3> HIDE DEF w, added
        <3>2. QED BY <1>1, <1>6, <1>7, <3>1
    <2> HIDE DEF w, added, call
    <2>2. \A v \in Workers : Len(inbound'[v]) <= InboundCapacity
        BY <1>7, <2>1 DEF BudgetAccounted, WorkersWithinBounds
    <2>3. QED BY <1>1, <2>2 DEF BudgetAccounted, WorkersWithinBounds
<1>11. NothingLost'
    BY <1>1 DEF BudgetAccounted, NothingLost
<1>12. Owed(left) + LargestInput = Owed(call)
    <2>1. Owed(call) = LargestInput * Len(call.targets)
        BY <1>1, <1>2, OwedType
    <2>2. \A l, a \in Nat, b \in Nat : b = a - 1 => l * b + l = l * a
        OBVIOUS
    <2>3. LargestInput * Len(rest) + LargestInput = LargestInput * Len(call.targets)
        BY <1>3, <2>2, Accounted
    <2>4. Owed(left) = LargestInput * Len(rest)
        <3>1. CASE rest = <<>>
            <4>1. LargestInput * Len(rest) = 0
                <5>1. Len(rest) = 0
                    BY <1>3, <3>1
                <5>2. \A a \in Nat : a * 0 = 0
                    OBVIOUS
                <5> HIDE DEF rest
                <5>3. QED BY <5>1, <5>2, LargestInputBounds
            <4>2. Owed(left) = 0
                BY <3>1, <1>2, OwedType
            <4>3. QED BY <4>1, <4>2
        <3>2. CASE rest # <<>>
            <4>1. Fits(left)
                BY <1>1, <1>4, <3>2 DEF Fits
            <4> HIDE DEF left, rest
            <4>2. QED BY <1>4, <3>2, <4>1, OwedType
        <3>3. QED BY <3>1, <3>2
    <2>5. QED BY <2>1, <2>3, <2>4
<1>13. SumOver(OwedOf(sender'), Clients) = SumOver(OwedOf(sender), Clients) - LargestInput
    <2> HIDE DEF left
    <2>1. SumOver(OwedOf(sender'), Clients)
              = SumOver(OwedOf(sender), Clients) - Owed(call) + Owed(left)
        BY <1>1, <1>4, Accounted, OwedChange
    <2>2. Owed(call) \in Nat /\ Owed(left) \in Nat
        BY <1>2, <1>4, OwedType
    <2>3. QED BY <1>12, <2>1, <2>2, Accounted
<1>14. SumOver(ComingOf(todo, inbound'), Workers)
           = SumOver(ComingOf(todo, inbound), Workers) + LargestInput
    <2>1. Total(Charges(added)) = Total(Charges(inbound[w])) + LargestInput
        BY <1>2, <1>6, ChargesOf
    <2>2. /\ Total(Charges(inbound[w])) \in Nat
          /\ Total(Growth(todo[w])) \in Nat
        BY <1>3, <1>6, Accounted, ChargesOf, GrowthOf DEF Todos
    <2> HIDE DEF w, added
    <2>3. PICK q \in Queues : q = inbound'
        BY <1>7
    <2>4. SumOver(ComingOf(todo, q), Workers) = SumOver(ComingOf(todo, inbound), Workers)
               - (Total(Growth(todo[w])) + Total(Charges(inbound[w])))
               + (Total(Growth(todo[w])) + Total(Charges(q[w])))
        BY <1>3, <1>7, <2>3, Accounted, ComingChange
    <2>5. QED BY <1>7, <2>1, <2>2, <2>3, <2>4, Accounted
<1>15. Committed' = memory_usage + SumOver(ComingOf(todo, inbound'), Workers)
                                 + SumOver(OwedOf(sender'), Clients)
    BY <1>1 DEF Committed, Coming, ComingOf, OwedOf
<1>16. Committed' = Committed
    BY <1>13, <1>14, <1>15, Accounted, CommittedIs
<1>17. QED BY <1>8, <1>9, <1>10, <1>11, <1>16 DEF BudgetAccounted

LEMMA SendAdvanceAccounted ==
    ASSUME BudgetAccounted, NEW c \in Clients, NEW w \in Workers, SendAdvance(c, w)
    PROVE  BudgetAccounted'
<1> DEFINE added == Append(inbound[w], Advance)
<1>1. /\ requests < MaxRequests /\ requests' = requests + 1
      /\ Len(inbound[w]) < InboundCapacity
      /\ inbound' = [inbound EXCEPT ![w] = added]
      /\ UNCHANGED <<memory_usage, sender, todo, current, reported>>
    BY DEF SendAdvance
<1>2. /\ inbound[w] \in Seq(InputSizes \cup {Advance})
      /\ added \in Seq(InputSizes \cup {Advance})
      /\ Len(added) = Len(inbound[w]) + 1
    <2>1. inbound[w] \in Seq(InputSizes \cup {Advance})
        BY Accounted DEF Queues
    <2>2. QED BY <2>1, AppendProperties
<1>3. inbound' \in Queues /\ inbound'[w] = added
      /\ \A v \in Workers \ {w} : inbound'[v] = inbound[v]
    <2> HIDE DEF added
    <2> QED BY <1>1, <1>2, Accounted DEF Queues
<1>4. TypeOK'
    <2>1. requests' \in 0..MaxRequests
        BY <1>1, Accounted
    <2> HIDE DEF added
    <2>2. QED BY <1>1, <1>3, <2>1 DEF BudgetAccounted, TypeOK, Queues
<1>5. CallsAreInputs' /\ NothingLost'
    BY <1>1 DEF BudgetAccounted, CallsAreInputs, NothingLost
<1>6. WorkersWithinBounds'
    <2> HIDE DEF added
    <2>1. Len(inbound'[w]) <= InboundCapacity
        <3>1. Len(inbound[w]) \in Nat /\ InboundCapacity \in Nat
            BY <1>2, LenProperties, BudgetAssumption
        <3>2. QED BY <1>1, <1>2, <1>3, <3>1
    <2>2. \A v \in Workers : Len(inbound'[v]) <= InboundCapacity
        BY <1>3, <2>1 DEF BudgetAccounted, WorkersWithinBounds
    <2>3. QED BY <1>1, <2>2 DEF BudgetAccounted, WorkersWithinBounds
<1>7. SumOver(ComingOf(todo, inbound'), Workers) = SumOver(ComingOf(todo, inbound), Workers)
    <2>1. Total(Charges(added)) = Total(Charges(inbound[w]))
        BY <1>2, ChargesOf
    <2>2. Total(Charges(inbound[w])) \in Nat /\ Total(Growth(todo[w])) \in Nat
        BY <1>2, Accounted, ChargesOf, GrowthOf DEF Todos
    <2> HIDE DEF added
    <2>3. PICK q \in Queues : q = inbound'
        BY <1>3
    <2>4. SumOver(ComingOf(todo, q), Workers) = SumOver(ComingOf(todo, inbound), Workers)
               - (Total(Growth(todo[w])) + Total(Charges(inbound[w])))
               + (Total(Growth(todo[w])) + Total(Charges(q[w])))
        BY <1>3, <2>3, Accounted, ComingChange
    <2>5. QED BY <1>3, <2>1, <2>2, <2>3, <2>4, Accounted
<1>8. Committed' = memory_usage + SumOver(ComingOf(todo, inbound'), Workers)
                                + SumOver(OwedOf(sender), Clients)
    BY <1>1 DEF Committed, Coming, ComingOf, OwedOf
<1>9. Committed' = Committed
    BY <1>7, <1>8, CommittedIs
<1>10. QED BY <1>4, <1>5, <1>6, <1>9 DEF BudgetAccounted

LEMMA HandleAccounted ==
    ASSUME BudgetAccounted, NEW w \in Workers, Handle(w)
    PROVE  BudgetAccounted'
<1> DEFINE head == Head(inbound[w])
           r == reported[w]
<1>1. PICK deltas \in IF head = Advance THEN AdvanceDeltas(r) ELSE InputDeltas(head) :
          /\ r + Total(deltas) >= 0
          /\ todo' = [todo EXCEPT ![w] = deltas]
          /\ reported' = [reported EXCEPT ![w] = @ + Total(deltas)]
    BY DEF Handle
<1>2. /\ todo[w] = <<>> /\ inbound[w] # <<>>
      /\ inbound' = [inbound EXCEPT ![w] = Tail(@)]
      /\ UNCHANGED <<memory_usage, sender, current, requests>>
    BY DEF Handle
<1>3. /\ inbound[w] \in Seq(InputSizes \cup {Advance})
      /\ Tail(inbound[w]) \in Seq(InputSizes \cup {Advance})
      /\ head \in InputSizes \cup {Advance}
      /\ Len(Tail(inbound[w])) = Len(inbound[w]) - 1 /\ Len(inbound[w]) \in Nat
    <2>1. inbound[w] \in Seq(InputSizes \cup {Advance})
        BY Accounted DEF Queues
    <2>2. QED BY <1>2, <2>1, HeadTailProperties, LenProperties
<1>4. r \in Nat
    BY Accounted
<1>5. /\ deltas \in Seq(Int) /\ Len(deltas) <= 2 /\ deltas # <<>>
      /\ Total(Tail(deltas)) <= r + Total(deltas)
      /\ Total(Growth(deltas)) <= IF head = Advance THEN 0 ELSE LargestInput
    <2> HIDE DEF head, r
    <2>1. CASE head = Advance
        <3>1. deltas \in AdvanceDeltas(r)
            BY <1>1, <2>1
        <3>2. QED BY <1>1, <1>4, <2>1, <3>1, DeltasOfAdvance
    <2>2. CASE head # Advance
        <3>1. head \in InputSizes /\ deltas \in InputDeltas(head)
            BY <1>1, <1>3, <2>2
        <3>2. QED BY <1>1, <1>4, <2>2, <3>1, DeltasOfInput
    <2>3. QED BY <2>1, <2>2
<1>6. Total(deltas) \in Int /\ Total(Growth(deltas)) \in Nat
    BY <1>5, TotalType, GrowthOf
<1>7. todo' \in Todos /\ todo'[w] = deltas
      /\ \A v \in Workers \ {w} : todo'[v] = todo[v]
    BY <1>1, <1>5, Accounted DEF Todos
<1>8. inbound' \in Queues /\ inbound'[w] = Tail(inbound[w])
      /\ \A v \in Workers \ {w} : inbound'[v] = inbound[v]
    BY <1>2, <1>3, Accounted DEF Queues
<1>9. reported' \in [Workers -> Nat] /\ reported'[w] = r + Total(deltas)
      /\ \A v \in Workers \ {w} : reported'[v] = reported[v]
    <2>1. PICK n \in Nat : n = r + Total(deltas)
        BY <1>1, <1>4, <1>6
    <2>2. reported' = [reported EXCEPT ![w] = n]
        BY <1>1, <2>1
    <2>3. QED BY <2>1, <2>2, Accounted
<1> HIDE DEF head, r
<1>10. TypeOK'
    BY <1>2, <1>7, <1>8, <1>9 DEF BudgetAccounted, TypeOK, Todos, Queues
<1>11. CallsAreInputs'
    BY <1>2 DEF BudgetAccounted, CallsAreInputs
<1>12. WorkersWithinBounds'
    <2>1. /\ Len(inbound'[w]) <= InboundCapacity
          /\ Total(Growth(todo'[w])) <= LargestInput
          /\ Len(todo'[w]) <= 2
          /\ Total(todo'[w]) <= reported'[w]
          /\ Total(Tail(todo'[w])) <= reported'[w]
          /\ todo'[w] # <<>>
        <3>1. Len(Tail(inbound[w])) <= InboundCapacity
            <4>1. Len(inbound[w]) <= InboundCapacity /\ InboundCapacity \in Nat
                BY BudgetAssumption DEF BudgetAccounted, WorkersWithinBounds
            <4>2. QED BY <1>3, <4>1
        <3>2. Total(Growth(deltas)) <= LargestInput
            BY <1>5, <1>6, Accounted
        <3>3. Total(deltas) <= r + Total(deltas)
            BY <1>4, <1>6
        <3>4. QED BY <1>5, <1>7, <1>8, <1>9, <3>1, <3>2, <3>3
    <2>2. QED BY <1>2, <1>7, <1>8, <1>9, <2>1 DEF BudgetAccounted, WorkersWithinBounds
<1>13. NothingLost'
    <2>1. SumOver(TotalsOf(todo'), Workers)
              = SumOver(TotalsOf(todo), Workers) - Total(todo[w]) + Total(deltas)
        BY <1>1, <1>5, Accounted, TotalsChange
    <2>2. Total(todo[w]) = 0
        BY <1>2, TotalEmpty
    <2>3. PICK f, g : f = reported /\ g = reported'
        OBVIOUS
    <2>4. /\ \A v \in Workers : f[v] \in Int
          /\ g[w] \in Int
          /\ \A v \in Workers \ {w} : g[v] = f[v]
        BY <1>9, <2>3, Accounted
    <2>5. SumOver(g, Workers) = SumOver(f, Workers) - f[w] + g[w]
        BY <2>4, BudgetAssumption, SumUpdate
    <2>6. SumOver(reported', Workers) = SumOver(reported, Workers) + Total(deltas)
        <3>1. f[w] = r /\ g[w] = r + Total(deltas)
            BY <1>9, <2>3 DEF r
        <3>2. SumOver(f, Workers) \in Int
            BY <2>3, Accounted
        <3>3. QED BY <1>4, <1>6, <2>3, <2>5, <3>1, <3>2
    <2>7. memory_usage + SumOver(TotalsOf(todo'), Workers) = SumOver(reported', Workers)
        BY <1>6, <2>1, <2>2, <2>6, Accounted
    <2>8. QED BY <1>2, <2>7 DEF NothingLost, TotalsOf
<1>14. SumOver(ComingOf(todo', inbound'), Workers) \in Nat
       /\ SumOver(ComingOf(todo', inbound'), Workers) <= SumOver(ComingOf(todo, inbound), Workers)
    <2>1. PICK t \in Todos, q \in Queues : t = todo' /\ q = inbound'
        BY <1>7, <1>8
    <2>2. SumOver(ComingOf(t, q), Workers) = SumOver(ComingOf(todo, inbound), Workers)
               - (Total(Growth(todo[w])) + Total(Charges(inbound[w])))
               + (Total(Growth(t[w])) + Total(Charges(q[w])))
        BY <1>7, <1>8, <2>1, Accounted, ComingChange
    <2>3. Total(Growth(todo[w])) = 0 /\ t[w] = deltas /\ q[w] = Tail(inbound[w])
        BY <1>2, <1>7, <1>8, <2>1, NoGrowth
    <2>4. Total(Charges(inbound[w])) = Total(Charges(Tail(inbound[w])))
                            + IF head = Advance THEN 0 ELSE LargestInput
        BY <1>2, <1>3, ChargesOf DEF head
    <2>5. Total(Charges(inbound[w])) \in Nat /\ Total(Charges(Tail(inbound[w]))) \in Nat
        BY <1>3, ChargesOf
    <2>6. SumOver(ComingOf(t, q), Workers) \in Nat
        BY Accounted, SumTypes
    <2>7. PICK now \in Nat, next \in Nat :
              now = SumOver(ComingOf(todo, inbound), Workers)
              /\ next = SumOver(ComingOf(t, q), Workers)
        BY <2>6, Accounted
    <2>8. next <= now
        <3>1. PICK g \in Nat, a \in Nat, b \in Nat :
                  /\ g = Total(Growth(deltas)) /\ a = Total(Charges(inbound[w]))
                  /\ b = Total(Charges(Tail(inbound[w])))
            BY <1>6, <2>5
        <3>2. g <= a - b
            <4>1. a = b + (IF head = Advance THEN 0 ELSE LargestInput)
                BY <2>4, <3>1
            <4>2. g <= IF head = Advance THEN 0 ELSE LargestInput
                BY <1>5, <3>1
            <4>3. LargestInput \in Nat
                BY Accounted
            <4>4. QED BY <4>1, <4>2, <4>3
        <3>3. next = now - (0 + a) + (g + b)
            BY <2>2, <2>3, <2>7, <3>1
        <3>4. QED BY <3>2, <3>3
    <2>9. QED BY <2>1, <2>7, <2>8
<1>15. Committed' = memory_usage + SumOver(ComingOf(todo', inbound'), Workers)
                                 + SumOver(OwedOf(sender), Clients)
    BY <1>2 DEF Committed, Coming, ComingOf, OwedOf
<1>16. Committed' <= Committed /\ Committed' \in Nat /\ Committed \in Nat
    BY <1>14, <1>15, Accounted, CommittedIs
<1>17. Committed' > 0 => Committed' < Budget + Overshoot
    <2>1. Committed > 0 => Committed < Budget + Overshoot
        BY DEF BudgetAccounted
    <2>2. Budget \in Nat /\ Overshoot \in Nat
        BY Accounted
    <2>3. PICK now \in Nat, next \in Nat : now = Committed /\ next = Committed'
        BY <1>16
    <2>4. QED BY <1>16, <2>1, <2>2, <2>3
<1>18. QED BY <1>10, <1>11, <1>12, <1>13, <1>17 DEF BudgetAccounted

LEMMA LoadAccounted ==
    ASSUME BudgetAccounted, NEW w \in Workers, Load(w) \/ Retry(w)
    PROVE  BudgetAccounted'
<1>1. /\ \/ current' = [current EXCEPT ![w] = {memory_usage}] /\ todo[w] # <<>>
         \/ current' = [current EXCEPT ![w] = {}]
      /\ UNCHANGED <<memory_usage, sender, inbound, todo, reported, requests>>
    BY DEF Load, Retry
<1>2. /\ current' \in [Workers -> SUBSET (0..MaxWord)]
      /\ current'[w] # {} => todo[w] # <<>>
      /\ \A v \in Workers \ {w} : current'[v] = current[v]
    BY <1>1, Accounted
<1>3. TypeOK'
    BY <1>1, <1>2 DEF BudgetAccounted, TypeOK
<1>4. WorkersWithinBounds'
    BY <1>1, <1>2 DEF BudgetAccounted, WorkersWithinBounds
<1>5. CallsAreInputs' /\ NothingLost' /\ Committed' = Committed
    BY <1>1 DEF BudgetAccounted, CallsAreInputs, NothingLost, Committed, Coming
<1>6. QED BY <1>3, <1>4, <1>5 DEF BudgetAccounted

LEMMA CompareExchangeAccounted ==
    ASSUME BudgetAccounted, NEW w \in Workers, CompareExchange(w)
    PROVE  BudgetAccounted'
<1> DEFINE d == Head(todo[w])
           rest == Tail(todo[w])
<1>1. /\ current[w] = {memory_usage}
      /\ memory_usage' = SaturatingAdd(memory_usage, d)
      /\ todo' = [todo EXCEPT ![w] = rest]
      /\ current' = [current EXCEPT ![w] = {}]
      /\ UNCHANGED <<sender, inbound, reported, requests>>
    BY DEF CompareExchange
<1>2. /\ todo[w] # <<>> /\ Total(Growth(todo[w])) <= LargestInput
      /\ Len(todo[w]) <= 2 /\ Total(rest) <= reported[w]
    BY <1>1 DEF BudgetAccounted, WorkersWithinBounds
<1>3. /\ todo[w] \in Seq(Int) /\ d \in Int /\ rest \in Seq(Int)
      /\ Len(rest) = Len(todo[w]) - 1 /\ Len(todo[w]) \in Nat
    <2>1. todo[w] \in Seq(Int)
        BY Accounted DEF Todos
    <2>2. QED BY <1>2, <2>1, HeadTailProperties, LenProperties
<1>4. /\ Total(todo[w]) = d + Total(rest)
      /\ Total(Growth(todo[w])) = Max({0, d}) + Total(Growth(rest))
      /\ Total(rest) \in Int /\ Total(Growth(rest)) \in Nat
      /\ Max({0, d}) \in Nat /\ d <= Max({0, d})
    <2>1. Total(todo[w]) = d + Total(rest)
        BY <1>2, <1>3, TotalTail
    <2>2. Total(Growth(todo[w])) = Max({0, d}) + Total(Growth(rest))
        BY <1>2, <1>3, GrowthOf
    <2>3. Total(rest) \in Int /\ Total(Growth(rest)) \in Nat
        BY <1>3, TotalType, GrowthOf
    <2>4. Max({0, d}) \in Nat /\ d <= Max({0, d})
        BY <1>3, MaxOfTwo
    <2>5. QED BY <2>1, <2>2, <2>3, <2>4
<1>5. todo' \in Todos /\ todo'[w] = rest
      /\ \A v \in Workers \ {w} : todo'[v] = todo[v]
    BY <1>1, <1>3, Accounted DEF Todos
<1> HIDE DEF d, rest
<1>6. PICK usage \in Nat : usage = memory_usage
    BY Accounted
<1>7. PICK totals \in Int : totals = SumOver(TotalsOf(todo), Workers)
    BY Accounted
<1>8. PICK coming \in Nat : coming = SumOver(ComingOf(todo, inbound), Workers)
    BY Accounted
<1>9. PICK owed \in Nat : owed = SumOver(OwedOf(sender), Clients)
    BY Accounted
<1>10. PICK top \in Nat : top = Max({0, d})
    BY <1>4
<1>11. PICK bound \in Nat : bound = Budget + Overshoot
    BY Accounted
<1>12. PICK r \in Nat : r = reported[w]
    BY Accounted
<1>13. PICK largest \in Nat : largest = LargestInput
    BY Accounted
<1>14. SumOver(TotalsOf(todo'), Workers) = SumOver(TotalsOf(todo), Workers) - d
    <2>1. SumOver(TotalsOf(todo'), Workers)
              = SumOver(TotalsOf(todo), Workers) - Total(todo[w]) + Total(rest)
        BY <1>1, <1>3, Accounted, TotalsChange
    <2>2. QED BY <1>3, <1>4, <1>7, <2>1
<1>15. SumOver(ComingOf(todo', inbound), Workers)
          = SumOver(ComingOf(todo, inbound), Workers) - Max({0, d})
      /\ SumOver(ComingOf(todo', inbound), Workers) \in Nat
    <2>1. PICK t \in Todos : t = todo'
        BY <1>5
    <2>2. SumOver(ComingOf(t, inbound), Workers) = SumOver(ComingOf(todo, inbound), Workers)
               - (Total(Growth(todo[w])) + Total(Charges(inbound[w])))
               + (Total(Growth(t[w])) + Total(Charges(inbound[w])))
        BY <1>5, <2>1, Accounted, ComingChange
    <2>3. t[w] = rest /\ Total(Charges(inbound[w])) \in Nat
        BY <1>5, <2>1, Accounted, ChargesOf DEF Queues
    <2>4. SumOver(ComingOf(t, inbound), Workers) \in Nat
        BY Accounted, SumTypes
    <2>5. QED BY <1>4, <2>1, <2>2, <2>3, <2>4, Accounted
<1>16. 0 <= memory_usage + d
    <2> DEFINE rem == [v \in Workers |-> reported[v] - Total(todo'[v])]
    <2>1. \A v \in Workers : Total(todo'[v]) \in Int /\ Total(todo'[v]) <= reported[v]
        <3>1. \A v \in Workers : Total(todo[v]) <= reported[v]
            BY DEF BudgetAccounted, WorkersWithinBounds
        <3>2. \A v \in Workers : Total(todo'[v]) <= reported[v]
            BY <1>2, <1>5, <3>1
        <3>3. PICK t \in Todos : t = todo'
            BY <1>5
        <3>4. \A v \in Workers : Total(t[v]) \in Int
            BY TotalType DEF Todos
        <3>5. QED BY <3>2, <3>3, <3>4
    <2>2. \A v \in Workers : rem[v] \in Nat /\ reported[v] \in Nat
        BY <2>1, Accounted
    <2>3. \A v \in Workers : TotalsOf(todo')[v] = Total(todo'[v])
        BY DEF TotalsOf
    <2>4. PICK f, g, h : f = TotalsOf(todo') /\ g = rem /\ h = reported
        OBVIOUS
    <2>5. \A v \in Workers : f[v] \in Int /\ g[v] \in Int /\ h[v] = f[v] + g[v]
        BY <2>1, <2>2, <2>3, <2>4
    <2>6. SumOver(h, Workers) = SumOver(f, Workers) + SumOver(g, Workers)
        BY <2>5, BudgetAssumption, SumPlus
    <2>7. SumOver(g, Workers) \in Nat
        BY <2>2, <2>4, BudgetAssumption, SumNatural
    <2>8. SumOver(h, Workers) = memory_usage + SumOver(TotalsOf(todo), Workers)
        BY <2>4, Accounted
    <2>9. SumOver(f, Workers) = SumOver(TotalsOf(todo), Workers) - d
        BY <1>14, <2>4
    <2> HIDE DEF rem
    <2>10. PICK gap \in Nat : gap = SumOver(g, Workers)
        BY <2>7
    <2>11. usage + totals = (totals - d) + gap
        BY <1>6, <1>7, <2>6, <2>8, <2>9, <2>10
    <2>12. QED BY <1>3, <1>6, <2>11
<1>17. memory_usage + d <= MaxWord
    <2>1. memory_usage + Max({0, d}) <= Committed
        <3>1. Committed = memory_usage + SumOver(ComingOf(todo, inbound), Workers)
                                       + SumOver(OwedOf(sender), Clients)
            BY CommittedIs
        <3>2. QED BY <1>4, <1>15, <3>1, Accounted
    <2>2. PICK n \in InputSizes : n \in Nat
        BY BudgetAssumption
    <2>3. Budget + Overshoot <= MaxWord
        BY <2>2, SizesFitTheWord, Accounted
    <2>4. PICK committed \in Nat, word \in Nat : committed = Committed /\ word = MaxWord
        BY Accounted, UsageBelow
    <2>5. committed <= bound /\ bound <= word /\ usage + top <= committed
        BY <1>6, <1>10, <1>11, <2>1, <2>3, <2>4, UsageBelow
    <2>6. usage + d <= word
        BY <1>3, <1>4, <1>6, <1>10, <2>5
    <2>7. QED BY <1>6, <2>4, <2>6
<1>18. memory_usage' = memory_usage + d /\ memory_usage' \in 0..MaxWord
    <2>1. memory_usage \in 0..MaxWord
        BY Accounted
    <2>2. QED BY <1>1, <1>3, <1>16, <1>17, <2>1, SaturatingAddIs
<1>19. current' \in [Workers -> SUBSET (0..MaxWord)] /\ current'[w] = {}
       /\ \A v \in Workers \ {w} : current'[v] = current[v]
    BY <1>1, Accounted
<1>20. TypeOK'
    BY <1>1, <1>5, <1>18, <1>19 DEF BudgetAccounted, TypeOK, Todos
<1>21. CallsAreInputs'
    BY <1>1 DEF BudgetAccounted, CallsAreInputs
<1>22. WorkersWithinBounds'
    <2>1. /\ Total(Growth(rest)) <= LargestInput
          /\ Len(rest) <= 2
          /\ Total(rest) <= reported[w]
        <3>1. PICK g \in Nat : g = Total(Growth(rest))
            BY <1>4
        <3>2. top + g <= largest
            BY <1>2, <1>4, <1>10, <1>13, <3>1
        <3>3. Total(Growth(rest)) <= LargestInput
            BY <1>10, <1>13, <3>1, <3>2
        <3>4. Len(rest) <= 2
            BY <1>2, <1>3
        <3>5. QED BY <1>2, <3>3, <3>4
    <2>2. rest # <<>> => Total(Tail(rest)) <= reported[w]
        <3>1. SUFFICES ASSUME rest # <<>> PROVE Total(Tail(rest)) <= reported[w]
            OBVIOUS
        <3>2. Tail(rest) \in Seq(Int) /\ Len(Tail(rest)) = Len(rest) - 1
              /\ Len(Tail(rest)) \in Nat
            BY <1>3, <3>1, HeadTailProperties, LenProperties
        <3>3. Tail(rest) = <<>>
            BY <1>2, <1>3, <3>2, EmptySeq
        <3>4. Total(Tail(rest)) = 0
            BY <3>3, TotalEmpty
        <3>5. QED BY <1>12, <3>4
    <2>3. QED BY <1>1, <1>5, <1>19, <2>1, <2>2 DEF BudgetAccounted, WorkersWithinBounds
<1>23. NothingLost'
    <2>1. memory_usage' + SumOver(TotalsOf(todo'), Workers) = SumOver(reported, Workers)
        BY <1>3, <1>14, <1>18, Accounted
    <2>2. QED BY <1>1, <2>1 DEF NothingLost, TotalsOf
<1>24. Committed' = memory_usage' + SumOver(ComingOf(todo', inbound), Workers)
                                  + SumOver(OwedOf(sender), Clients)
    BY <1>1 DEF Committed, Coming, ComingOf, OwedOf
<1>25. Committed' <= Committed /\ Committed' \in Nat /\ Committed \in Nat
    <2>1. Committed = memory_usage + SumOver(ComingOf(todo, inbound), Workers)
                                   + SumOver(OwedOf(sender), Clients)
        BY CommittedIs
    <2>2. Committed' = (usage + d) + (coming - top) + owed
        BY <1>15, <1>18, <1>24, <1>6, <1>8, <1>9, <1>10
    <2>3. d <= top /\ 0 <= usage + d /\ coming - top \in Nat
        BY <1>4, <1>15, <1>16, <1>6, <1>8, <1>10
    <2>4. Committed = usage + coming + owed
        BY <1>6, <1>8, <1>9, <2>1
    <2>5. QED BY <1>3, <2>2, <2>3, <2>4
<1>26. Committed' > 0 => Committed' < Budget + Overshoot
    <2>1. Committed > 0 => Committed < Budget + Overshoot
        BY DEF BudgetAccounted
    <2>2. Budget \in Nat /\ Overshoot \in Nat
        BY Accounted
    <2>3. PICK now \in Nat, next \in Nat : now = Committed /\ next = Committed'
        BY <1>25
    <2>4. QED BY <1>25, <2>1, <2>2, <2>3
<1>27. QED BY <1>20, <1>21, <1>22, <1>23, <1>26 DEF BudgetAccounted
-----------------------------------------------------------------------------
LEMMA InitAccounted == Init => BudgetAccounted
<1> SUFFICES ASSUME Init PROVE BudgetAccounted
    OBVIOUS
<1>1. /\ memory_usage = 0 /\ sender = [c \in Clients |-> Idle]
      /\ inbound = [w \in Workers |-> <<>>] /\ todo = [w \in Workers |-> <<>>]
      /\ current = [w \in Workers |-> {}] /\ reported = [w \in Workers |-> 0]
      /\ requests = 0
    BY DEF Init
<1>2. Idle \in Calls /\ Owed(Idle) = 0
    <2>1. Idle \in Calls
        BY BudgetAssumption DEF Idle, Calls
    <2>2. QED BY <2>1, OwedType
<1>3. /\ \A S : <<>> \in Seq(S)
      /\ Total(<<>>) = 0 /\ Total(Growth(<<>>)) = 0 /\ Total(Charges(<<>>)) = 0
    <2>1. \A S : <<>> \in Seq(S)
        OBVIOUS
    <2>2. Total(Charges(<<>>)) \in Nat /\ Total(Charges(<<>>)) <= LargestInput * 0
        <3>1. Len(<<>>) = 0
            OBVIOUS
        <3>2. QED BY <2>1, <3>1, ChargesOf
    <2>3. \A a \in Nat : a * 0 = 0
        OBVIOUS
    <2>4. Total(Charges(<<>>)) = 0
        BY <2>2, <2>3, LargestInputBounds
    <2>5. QED BY <2>1, <2>4, TotalEmpty, NoGrowth
<1>4. TypeOK
    BY <1>1, <1>2, <1>3, BudgetAssumption DEF TypeOK, Calls
<1>5. CallsAreInputs
    BY <1>1 DEF CallsAreInputs
<1>6. WorkersWithinBounds
    <2>1. Len(<<>>) = 0 /\ LargestInput \in Nat /\ InboundCapacity \in Nat
        BY LargestInputBounds, BudgetAssumption
    <2>2. QED BY <1>1, <1>3, <2>1 DEF WorkersWithinBounds
<1>7. /\ \A w \in Workers : /\ TotalsOf(todo)[w] = 0
                            /\ ComingOf(todo, inbound)[w] = 0 /\ reported[w] = 0
      /\ \A c \in Clients : OwedOf(sender)[c] = 0
    BY <1>1, <1>2, <1>3 DEF TotalsOf, ComingOf, OwedOf
<1>8. /\ SumOver(TotalsOf(todo), Workers) = 0 /\ SumOver(reported, Workers) = 0
      /\ SumOver(ComingOf(todo, inbound), Workers) = 0
      /\ SumOver(OwedOf(sender), Clients) = 0
    BY <1>7, BudgetAssumption, SumOfZeros
<1>9. NothingLost
    BY <1>1, <1>8, NothingLostIs
<1>10. Committed = 0
    BY <1>1, <1>8, CommittedIs
<1>11. QED BY <1>4, <1>5, <1>6, <1>9, <1>10 DEF BudgetAccounted

LEMMA NextAccounted == BudgetAccounted /\ [Next]_vars => BudgetAccounted'
<1> SUFFICES ASSUME BudgetAccounted, [Next]_vars PROVE BudgetAccounted'
    OBVIOUS
<1>1. ASSUME NEW c \in Clients, ClientStep(c) PROVE BudgetAccounted'
    <2>1. CASE LoadUsage(c)
        BY <2>1, LoadUsageAccounted
    <2>2. CASE Refuse(c)
        BY <2>2, RefuseAccounted
    <2>3. CASE Send(c)
        BY <2>3, SendAccounted
    <2>4. ASSUME NEW w \in Workers, SendAdvance(c, w) PROVE BudgetAccounted'
        BY <2>4, SendAdvanceAccounted
    <2>5. QED BY <1>1, <2>1, <2>2, <2>3, <2>4 DEF ClientStep
<1>2. ASSUME NEW w \in Workers, WorkerStep(w) PROVE BudgetAccounted'
    <2>1. CASE Handle(w)
        BY <2>1, HandleAccounted
    <2>2. CASE Load(w) \/ Retry(w)
        BY <2>2, LoadAccounted
    <2>3. CASE CompareExchange(w)
        BY <2>3, CompareExchangeAccounted
    <2>4. QED BY <1>2, <2>1, <2>2, <2>3 DEF WorkerStep
<1>3. CASE UNCHANGED vars
    BY <1>3 DEF vars, BudgetAccounted, TypeOK, CallsAreInputs, WorkersWithinBounds,
                NothingLost, Committed, Coming
<1>4. QED BY <1>1, <1>2, <1>3 DEF Next

(***************************************************************************)
(* The inductive invariant: what is committed to the counter, shown,       *)
(* queued or owed, is accounted for and short of the bound                 *)
(* (src/router.rs:53-57, 79-83 and 215-228).                               *)
(***************************************************************************)
THEOREM BudgetStaysAccounted == Spec => []BudgetAccounted
<1>1. QED BY InitAccounted, NextAccounted, PTL DEF Spec

(***************************************************************************)
(* No delta is lost between workers that add at once, and the saturation   *)
(* of fetch_saturating_add_signed never hides one.                         *)
(***************************************************************************)
THEOREM NothingIsLost == Spec => []NothingLost
<1>1. BudgetAccounted => NothingLost
    BY DEF BudgetAccounted
<1>2. QED BY <1>1, BudgetStaysAccounted, PTL

(***************************************************************************)
(* The counter passes the budget by less than Overshoot, whoever sends.    *)
(***************************************************************************)
THEOREM OvershootStaysBounded == Spec => []OvershootBounded
<1>1. BudgetAccounted => OvershootBounded
    <2>1. SUFFICES ASSUME BudgetAccounted, memory_usage > 0
                   PROVE  memory_usage < Budget + Overshoot
        BY DEF OvershootBounded
    <2>2. Committed > 0 => Committed < Budget + Overshoot
        BY <2>1 DEF BudgetAccounted
    <2>3. QED BY <2>1, <2>2, UsageBelow, Accounted
<1>2. QED BY <1>1, BudgetStaysAccounted, PTL
=============================================================================
