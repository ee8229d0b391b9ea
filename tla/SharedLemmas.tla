---------------------------- MODULE SharedLemmas ----------------------------
(***************************************************************************)
(* What the proofs of several components need to know about finite sets,   *)
(* about filtering a sequence and about the two ends of a sequence.        *)
(***************************************************************************)
EXTENDS Sublists, FiniteSetTheorems, WellFoundedInduction, TLAPS

\* Sets with nothing in common count apart.
LEMMA DisjointUnion ==
    ASSUME NEW S, IsFiniteSet(S), NEW T, IsFiniteSet(T), S \cap T = {}
    PROVE  /\ IsFiniteSet(S \cup T)
           /\ Cardinality(S \cup T) = Cardinality(S) + Cardinality(T)
<1>1. /\ IsFiniteSet(S \cup T)
      /\ Cardinality(S \cup T) = Cardinality(S) + Cardinality(T) - Cardinality(S \cap T)
  BY FS_Union
<1>2. Cardinality(S \cap T) = 0
  BY FS_EmptySet
<1>3. Cardinality(S) \in Nat /\ Cardinality(T) \in Nat
  BY FS_CardinalityType
<1> QED
  BY <1>1, <1>2, <1>3

LEMMA UpToIsFinite ==
    ASSUME NEW n \in Nat
    PROVE  IsFiniteSet(1..n) /\ Cardinality(1..n) = n
<1>1. 1 \in Int /\ n \in Int /\ (IF 1 > n THEN 0 ELSE n - 1 + 1) = n
  OBVIOUS
<1> QED
  BY <1>1, FS_Interval

Below(keep, j) == {k \in keep : k < j}

LEMMA FinitePositions ==
    ASSUME NEW E, NEW s \in Seq(E), NEW keep, keep \subseteq DOMAIN s
    PROVE  IsFiniteSet(keep) /\ Cardinality(keep) \in Nat
<1>1. IsFiniteSet(1..Len(s))
  BY FS_Interval
<1> QED
  BY <1>1, FS_Subset, FS_CardinalityType

\* Fewer are below a smaller position.
LEMMA BelowGrows ==
    ASSUME NEW E, NEW s \in Seq(E), NEW keep, keep \subseteq DOMAIN s, NEW i \in keep, NEW j \in keep,
           i < j
    PROVE  /\ Cardinality(Below(keep, i)) \in Nat
           /\ Cardinality(Below(keep, i)) < Cardinality(Below(keep, j))
           /\ Cardinality(Below(keep, j)) < Cardinality(keep)
<1>1. IsFiniteSet(keep)
  BY FinitePositions
<1>2. i \in Nat /\ j \in Nat
  OBVIOUS
<1>3. Below(keep, i) \subseteq Below(keep, j)
  BY <1>2 DEF Below
<1>4. i \in Below(keep, j) /\ i \notin Below(keep, i) /\ j \notin Below(keep, j)
  BY <1>2 DEF Below
<1>5. Below(keep, j) \subseteq keep
  BY DEF Below
<1>6. IsFiniteSet(Below(keep, j)) /\ Cardinality(Below(keep, j)) <= Cardinality(keep)
        /\ Cardinality(Below(keep, j)) # Cardinality(keep)
  BY <1>1, <1>4, <1>5, FS_Subset
<1>7. IsFiniteSet(Below(keep, i)) /\ Cardinality(Below(keep, i)) <= Cardinality(Below(keep, j))
        /\ Cardinality(Below(keep, j)) # Cardinality(Below(keep, i))
  BY <1>3, <1>4, <1>6, FS_Subset
<1>8. /\ Cardinality(Below(keep, i)) \in Nat /\ Cardinality(Below(keep, j)) \in Nat
      /\ Cardinality(keep) \in Nat
  BY <1>1, <1>6, <1>7, FS_CardinalityType
<1> QED
  BY <1>6, <1>7, <1>8

\* How many are below a position tells the position.
LEMMA BelowCounts ==
    ASSUME NEW E, NEW s \in Seq(E), NEW keep, keep \subseteq DOMAIN s, NEW j \in keep
    PROVE  /\ Cardinality(Below(keep, j)) \in Nat
           /\ Cardinality(Below(keep, j)) < Cardinality(keep)
<1>1. IsFiniteSet(keep) /\ Cardinality(keep) \in Nat
  BY FinitePositions
<1>2. Below(keep, j) \subseteq keep /\ j \notin Below(keep, j)
  BY DEF Below
<1>3. IsFiniteSet(Below(keep, j)) /\ Cardinality(Below(keep, j)) <= Cardinality(keep)
        /\ Cardinality(Below(keep, j)) # Cardinality(keep)
  BY <1>1, <1>2, FS_Subset
<1> QED
  BY <1>1, <1>3, FS_CardinalityType

\* Every number is that of a position.
LEMMA BelowReaches ==
    ASSUME NEW E, NEW s \in Seq(E), NEW keep, keep \subseteq DOMAIN s,
           NEW i \in 1..Cardinality(keep)
    PROVE  \E j \in keep : Cardinality(Below(keep, j)) = i - 1
<1> SUFFICES ASSUME \A j \in keep : Cardinality(Below(keep, j)) # i - 1
             PROVE  FALSE
  OBVIOUS
<1> DEFINE n == Cardinality(keep)
           others == (0 .. n-1) \ {i - 1}
           rank == [j \in keep |-> Cardinality(Below(keep, j))]
<1>1. IsFiniteSet(keep) /\ n \in Nat
  BY FinitePositions
<1>2. \A j \in keep : Cardinality(Below(keep, j)) \in Nat /\ Cardinality(Below(keep, j)) < n
  BY BelowCounts
<1>3. IsFiniteSet(0 .. n-1) /\ Cardinality(0 .. n-1) = n
  <2>1. n - 1 \in Int /\ 0 \in Int /\ (IF 0 > n - 1 THEN 0 ELSE (n - 1) - 0 + 1) = n
    BY <1>1
  <2> HIDE DEF n
  <2> QED
    BY <2>1, FS_Interval
<1>4. IsFiniteSet(others) /\ Cardinality(others) < Cardinality(keep)
  <2>1. i - 1 \in 0 .. n-1
    BY <1>1
  <2>2. IsFiniteSet(others) /\ Cardinality(others) = Cardinality(0 .. n-1) - 1
    BY <1>3, <2>1, FS_RemoveElement
  <2> QED
    BY <1>1, <1>3, <2>2
<1>5. rank \in [keep -> others]
  BY <1>1, <1>2
<1>6. PICK x \in keep, y \in keep : x # y /\ rank[x] = rank[y]
  <2> HIDE DEF others, rank
  <2> QED
    BY <1>1, <1>4, <1>5, FS_PigeonHole
<1>7. x \in Nat /\ y \in Nat
  OBVIOUS
<1>8. CASE x < y
  BY <1>6, <1>8, BelowGrows
<1>9. CASE y < x
  BY <1>6, <1>9, BelowGrows
<1> QED
  BY <1>6, <1>7, <1>8, <1>9

\* Filtering keeps the chosen elements, in their order, and nothing else.
LEMMA KeptPositions ==
    ASSUME NEW E, NEW s \in Seq(E), NEW keep, keep \subseteq DOMAIN s
    PROVE  \E at \in [1..Cardinality(keep) -> keep] :
              /\ Kept(s, keep) = [i \in 1..Cardinality(keep) |-> s[at[i]]]
              /\ \A j \in keep : \E i \in 1..Cardinality(keep) : at[i] = j
              /\ \A i, j \in 1..Cardinality(keep) : i < j => at[i] < at[j]
<1> DEFINE n == Cardinality(keep)
           place(i) == CHOOSE j \in keep : Cardinality(Below(keep, j)) = i - 1
           at == [i \in 1..n |-> place(i)]
<1>0. n \in Nat
  BY FinitePositions
<1>1. ASSUME NEW i \in 1..n
      PROVE  place(i) \in keep /\ Cardinality(Below(keep, place(i))) = i - 1
  <2>1. \E j \in keep : Cardinality(Below(keep, j)) = i - 1
    BY BelowReaches
  <2> QED
    BY <2>1
<1>2. at \in [1..n -> keep]
  BY <1>1
<1>3. Kept(s, keep) = [i \in 1..n |-> s[at[i]]]
  BY DEF Kept, Below
<1>4. ASSUME NEW j \in keep PROVE \E i \in 1..n : at[i] = j
  <2> DEFINE i == Cardinality(Below(keep, j)) + 1
  <2>1. i \in 1..n /\ Cardinality(Below(keep, j)) = i - 1
    BY <1>0, BelowCounts
  <2>2. at[i] \in keep /\ Cardinality(Below(keep, at[i])) = i - 1
    BY <1>1, <2>1
  <2> HIDE DEF i, at
  <2>3. j \in Nat /\ at[i] \in Nat
    BY <2>2
  <2>4. ~(at[i] < j) /\ ~(j < at[i])
    BY <2>1, <2>2, BelowGrows
  <2>5. at[i] = j
    BY <2>3, <2>4
  <2> QED
    BY <2>1, <2>5
<1>5. ASSUME NEW i \in 1..n, NEW j \in 1..n, i < j PROVE at[i] < at[j]
  <2>1. /\ at[i] \in keep /\ Cardinality(Below(keep, at[i])) = i - 1
        /\ at[j] \in keep /\ Cardinality(Below(keep, at[j])) = j - 1
    BY <1>1
  <2> HIDE DEF at
  <2>2. at[i] # at[j]
    BY <1>0, <1>5, <2>1
  <2>4. ASSUME at[j] < at[i] PROVE FALSE
    <3>1. Cardinality(Below(keep, at[j])) < Cardinality(Below(keep, at[i]))
      BY <2>1, <2>4, BelowGrows
    <3> QED
      BY <1>0, <1>5, <2>1, <3>1
  <2>3. at[i] \in Nat /\ at[j] \in Nat
    BY <2>1
  <2> QED
    BY <2>2, <2>3, <2>4
<1> QED
  BY <1>2, <1>3, <1>4, <1>5

\* The same for those who only ask what is in the sequence.
LEMMA KeptElements ==
    ASSUME NEW E, NEW s \in Seq(E), NEW keep, keep \subseteq DOMAIN s
    PROVE  /\ Kept(s, keep) \in Seq(E)
           /\ \A i \in DOMAIN Kept(s, keep) : \E j \in keep : Kept(s, keep)[i] = s[j]
           /\ \A j \in keep : \E i \in DOMAIN Kept(s, keep) : Kept(s, keep)[i] = s[j]
<1>1. PICK at \in [1..Cardinality(keep) -> keep] :
              /\ Kept(s, keep) = [i \in 1..Cardinality(keep) |-> s[at[i]]]
              /\ \A j \in keep : \E i \in 1..Cardinality(keep) : at[i] = j
  BY KeptPositions
<1>2. Cardinality(keep) \in Nat
  BY FinitePositions
<1>3. Kept(s, keep) \in [1..Cardinality(keep) -> E]
  BY <1>1
<1>4. Kept(s, keep) \in Seq(E) /\ DOMAIN Kept(s, keep) = 1..Cardinality(keep)
  BY <1>2, <1>3
<1>5. \A i \in 1..Cardinality(keep) : at[i] \in keep /\ Kept(s, keep)[i] = s[at[i]]
  BY <1>1
<1> QED
  BY <1>1, <1>4, <1>5

\* And for those who ask for its order.
LEMMA KeptInOrder ==
    ASSUME NEW E, NEW s \in Seq(E), NEW keep, keep \subseteq DOMAIN s
    PROVE  \A i, j \in DOMAIN Kept(s, keep) : i < j =>
              \E p, q \in keep : p < q /\ Kept(s, keep)[i] = s[p] /\ Kept(s, keep)[j] = s[q]
<1> DEFINE n == Cardinality(keep)
<1>1. PICK at \in [1..n -> keep] :
              /\ Kept(s, keep) = [i \in 1..n |-> s[at[i]]]
              /\ \A i, j \in 1..n : i < j => at[i] < at[j]
  BY KeptPositions
<1>2. n \in Nat
  BY FinitePositions
<1> HIDE DEF n
<1>3. DOMAIN Kept(s, keep) = 1..n /\ \A i \in 1..n : at[i] \in keep /\ Kept(s, keep)[i] = s[at[i]]
  BY <1>1
<1> QED
  BY <1>1, <1>3

\* The two ends.
LEMMA Appended ==
    ASSUME NEW E, NEW s \in Seq(E), NEW e \in E
    PROVE  /\ Append(s, e) \in Seq(E)
           /\ DOMAIN Append(s, e) = 1..(Len(s) + 1) /\ DOMAIN s = 1..Len(s) /\ Len(s) \in Nat
           /\ \A i \in 1..Len(s) : Append(s, e)[i] = s[i]
           /\ Append(s, e)[Len(s) + 1] = e
OBVIOUS

LEMMA TailOf ==
    ASSUME NEW E, NEW s \in Seq(E), s # <<>>
    PROVE  /\ Tail(s) \in Seq(E)
           /\ DOMAIN Tail(s) = 1..(Len(s) - 1) /\ DOMAIN s = 1..Len(s) /\ Len(s) \in Nat \ {0}
           /\ \A i \in 1..(Len(s) - 1) : Tail(s)[i] = s[i + 1]
           /\ Head(s) = s[1] /\ s[1] \in E
OBVIOUS

LEMMA SequenceOf ==
    ASSUME NEW E, NEW n \in Nat, NEW f \in [1..n -> E]
    PROVE  f \in Seq(E) /\ Len(f) = n
<1>1. f \in Seq(E)
  OBVIOUS
<1>2. DOMAIN f = 1..n /\ DOMAIN f = 1..Len(f) /\ Len(f) \in Nat
  BY <1>1
<1> QED
  BY <1>1, <1>2

LEMMA Concatenated ==
    ASSUME NEW E, NEW s \in Seq(E), NEW t \in Seq(E)
    PROVE  /\ s \o t \in Seq(E)
           /\ Len(s \o t) = Len(s) + Len(t) /\ DOMAIN (s \o t) = 1..(Len(s) + Len(t))
           /\ \A i \in 1..Len(s) : (s \o t)[i] = s[i]
           /\ \A i \in 1..Len(t) : (s \o t)[Len(s) + i] = t[i]
OBVIOUS

\* A set of positions has a first and a last one.
LEMMA FirstPosition ==
    ASSUME NEW E, NEW s \in Seq(E), NEW keep, keep \subseteq DOMAIN s, keep # {}
    PROVE  \E i \in keep : \A j \in keep : i <= j
<1> DEFINE n == Cardinality(keep)
<1>1. PICK at \in [1..n -> keep] :
            /\ \A j \in keep : \E i \in 1..n : at[i] = j
            /\ \A i, j \in 1..n : i < j => at[i] < at[j]
  BY KeptPositions
<1>2. n \in Nat /\ n # 0
  BY FinitePositions, FS_EmptySet
<1> HIDE DEF n
<1>3. 1 \in 1..n /\ at[1] \in keep
  BY <1>1, <1>2
<1>4. \A j \in keep : j \in Nat
  OBVIOUS
<1>5. \A j \in keep : at[1] <= j
  <2> SUFFICES ASSUME NEW j \in keep PROVE at[1] <= j
    OBVIOUS
  <2>1. PICK i \in 1..n : at[i] = j
    BY <1>1
  <2>2. CASE i = 1
    BY <1>3, <1>4, <2>1, <2>2
  <2>3. CASE i # 1
    <3>1. 1 < i
      BY <1>2, <2>3
    <3>2. at[1] < at[i]
      BY <1>1, <1>3, <3>1
    <3> QED
      BY <1>3, <1>4, <2>1, <3>2
  <2> QED
    BY <2>2, <2>3
<1> QED
  BY <1>3, <1>5

LEMMA LastPosition ==
    ASSUME NEW E, NEW s \in Seq(E), NEW keep, keep \subseteq DOMAIN s, keep # {}
    PROVE  \E i \in keep : \A j \in keep : j <= i
<1> DEFINE n == Cardinality(keep)
<1>1. PICK at \in [1..n -> keep] :
            /\ \A j \in keep : \E i \in 1..n : at[i] = j
            /\ \A i, j \in 1..n : i < j => at[i] < at[j]
  BY KeptPositions
<1>2. n \in Nat /\ n # 0
  BY FinitePositions, FS_EmptySet
<1> HIDE DEF n
<1>3. n \in 1..n /\ at[n] \in keep
  BY <1>1, <1>2
<1>4. \A j \in keep : j \in Nat
  OBVIOUS
<1>5. \A j \in keep : j <= at[n]
  <2> SUFFICES ASSUME NEW j \in keep PROVE j <= at[n]
    OBVIOUS
  <2>1. PICK i \in 1..n : at[i] = j
    BY <1>1
  <2>2. CASE i = n
    BY <1>3, <1>4, <2>1, <2>2
  <2>3. CASE i # n
    <3>1. i < n
      BY <1>2, <2>3
    <3>2. at[i] < at[n]
      BY <1>1, <1>3, <3>1
    <3> QED
      BY <1>3, <1>4, <2>1, <3>2
  <2> QED
    BY <2>2, <2>3
<1> QED
  BY <1>3, <1>5

\* All of a sequence is the sequence.
LEMMA KeptAll ==
    ASSUME NEW E, NEW s \in Seq(E)
    PROVE  Kept(s, DOMAIN s) = s
<1>1. DOMAIN s = 1..Len(s) /\ Len(s) \in Nat
  OBVIOUS
<1>2. Cardinality(DOMAIN s) = Len(s)
  BY <1>1, UpToIsFinite
<1>3. ASSUME NEW j \in DOMAIN s PROVE Cardinality({k \in DOMAIN s : k < j}) = j - 1
  <2>1. {k \in DOMAIN s : k < j} = 1..(j - 1)
    BY <1>1
  <2>2. PICK n : n = j - 1 /\ n \in Nat
    BY <1>1
  <2>3. Cardinality(1..n) = n
    BY <2>2, UpToIsFinite
  <2> QED
    BY <2>1, <2>2, <2>3
<1>4. ASSUME NEW i \in 1..Len(s)
      PROVE  (CHOOSE j \in DOMAIN s : Cardinality({k \in DOMAIN s : k < j}) = i - 1) = i
  <2>1. \A j \in DOMAIN s : Cardinality({k \in DOMAIN s : k < j}) = i - 1 <=> j = i
    BY <1>1, <1>3
  <2> QED
    BY <1>1, <2>1
<1> DEFINE At(i) == CHOOSE j \in DOMAIN s : Cardinality({k \in DOMAIN s : k < j}) = i - 1
<1>5. Kept(s, DOMAIN s) = [i \in 1..Len(s) |-> s[At(i)]]
  BY <1>2 DEF Kept
<1>6. \A i \in 1..Len(s) : At(i) = i
  BY <1>4
<1> HIDE DEF At
<1> QED
  BY <1>1, <1>5, <1>6
=============================================================================
