------------------------------- MODULE SumFacts -------------------------------
(***************************************************************************)
(* Facts about the sum of a function over a finite set, as MapThenSumSet   *)
(* computes it.  Induction is done by the least counterexample: a set of   *)
(* naturals has a least member, a set of finite sets a minimal one.        *)
(***************************************************************************)
EXTENDS FiniteSetsExt, FiniteSetTheorems, WellFoundedInduction, TLAPS

\* The sum of size over T.
Total(size, T) == MapThenSumSet(LAMBDA x : size[x], T)

Pick(s) == CHOOSE x \in s : TRUE

\* g adds size up over every subset of T, one chosen member after the other.
Adds(size, T, g) ==
  g = [s \in SUBSET T |-> IF s = {} THEN 0 ELSE size[Pick(s)] + g[s \ {Pick(s)}]]

\* The same as far as sets of n members.
AddsUpTo(size, F, n, g) ==
  g = [s \in {t \in SUBSET F : Cardinality(t) <= n} |->
         IF s = {} THEN 0 ELSE size[Pick(s)] + g[s \ {Pick(s)}]]

-----------------------------------------------------------------------------

LEMMA LeastNatural ==
  ASSUME NEW T, T \subseteq Nat, T # {}
  PROVE  \E n \in T : \A m \in T : n <= m
<1> DEFINE R == OpToRel(<, Nat)
<1>1. IsWellFoundedOn(R, Nat)
  BY NatLessThanWellFounded
<1>2. \A m, n \in Nat : m < n => <<m, n>> \in R
  BY DEF OpToRel
<1> HIDE DEF R
<1>3. \E n \in T : \A m \in T : ~ (<<m, n>> \in R)
  BY <1>1, WFMin
<1>4. PICK n \in T : \A m \in T : ~ (<<m, n>> \in R)
  BY <1>3
<1>5. \A m \in T : ~ (m < n)
  BY <1>2, <1>4
<1> QED BY <1>5

LEMMA MinimalSubset ==
  ASSUME NEW F, IsFiniteSet(F), NEW Sets, Sets \subseteq SUBSET F, Sets # {}
  PROVE  \E s \in Sets : \A t \in Sets : t \subseteq s => t = s
<1> DEFINE sizes == {Cardinality(s) : s \in Sets}
<1>1. \A s \in Sets : IsFiniteSet(s) /\ Cardinality(s) \in Nat
  BY FS_Subset, FS_CardinalityType
<1>2. sizes \subseteq Nat /\ sizes # {}
  BY <1>1
<1>3. PICK n \in sizes : \A m \in sizes : n <= m
  BY <1>2, LeastNatural
<1>4. PICK s \in Sets : Cardinality(s) = n
  BY <1>3
<1>5. ASSUME NEW t \in Sets, t \subseteq s
      PROVE  t = s
  <2>1. Cardinality(t) >= Cardinality(s)
    BY <1>3, <1>4
  <2>2. Cardinality(t) <= Cardinality(s) /\ (Cardinality(s) = Cardinality(t) => s = t)
    BY <1>1, <1>5, FS_Subset
  <2> QED BY <1>1, <2>1, <2>2
<1> QED BY <1>5

LEMMA PickIn ==
  ASSUME NEW s, s # {}
  PROVE  Pick(s) \in s
BY DEF Pick

LEMMA SmallerByOne ==
  ASSUME NEW s, IsFiniteSet(s), NEW x \in s
  PROVE  /\ IsFiniteSet(s \ {x})
         /\ Cardinality(s) \in Nat
         /\ Cardinality(s \ {x}) = Cardinality(s) - 1
BY FS_RemoveElement, FS_CardinalityType

\* There is a function that adds up, whatever the set.
LEMMA SomethingAdds ==
  ASSUME NEW F, IsFiniteSet(F), NEW size
  PROVE  \E g : Adds(size, F, g)
<1> DEFINE D(n) == {t \in SUBSET F : Cardinality(t) <= n}
           bad == {n \in Nat : ~ \E g : AddsUpTo(size, F, n, g)}
<1>1. \A t \in SUBSET F : IsFiniteSet(t) /\ Cardinality(t) \in Nat
  BY FS_Subset, FS_CardinalityType
<1>2. \A t \in SUBSET F : t # {} => Cardinality(t) # 0
  BY <1>1, FS_EmptySet
<1>3. bad = {}
  <2> SUFFICES ASSUME bad # {}
               PROVE  FALSE
    OBVIOUS
  <2>1. PICK n \in bad : \A m \in bad : n <= m
    BY LeastNatural
  <2>2. CASE n = 0
    <3> DEFINE g == [s \in D(0) |-> 0]
    <3>1. \A s \in D(0) : s = {}
      BY <1>1, <1>2
    <3>2. AddsUpTo(size, F, 0, g)
      BY <3>1 DEF AddsUpTo
    <3> QED BY <2>1, <2>2, <3>2
  <2>3. CASE n # 0
    <3>1. n - 1 \in Nat /\ n - 1 \notin bad
      BY <2>1, <2>3
    <3>2. PICK g : AddsUpTo(size, F, n - 1, g)
      BY <3>1
    <3> DEFINE h == [s \in D(n) |-> IF s = {} THEN 0 ELSE size[Pick(s)] + g[s \ {Pick(s)}]]
    <3>3. ASSUME NEW s \in D(n - 1)
          PROVE  s \in D(n) /\ h[s] = g[s]
      <4>1. s \in D(n)
        BY <1>1, <3>1
      <4>2. h[s] = IF s = {} THEN 0 ELSE size[Pick(s)] + g[s \ {Pick(s)}]
        BY <4>1
      <4>3. g[s] = IF s = {} THEN 0 ELSE size[Pick(s)] + g[s \ {Pick(s)}]
        BY <3>2 DEF AddsUpTo
      <4> QED BY <4>1, <4>2, <4>3
    <3>4. ASSUME NEW s \in D(n), s # {}
          PROVE  s \ {Pick(s)} \in D(n - 1)
      BY <1>1, <3>1, <3>4, PickIn, SmallerByOne
    <3>5. \A s \in D(n) : s # {} => h[s \ {Pick(s)}] = g[s \ {Pick(s)}]
      BY <3>3, <3>4
    <3>6. h = [s \in D(n) |-> IF s = {} THEN 0 ELSE size[Pick(s)] + h[s \ {Pick(s)}]]
      BY <3>5
    <3>7. AddsUpTo(size, F, n, h)
      BY <3>6 DEF AddsUpTo
    <3> QED BY <2>1, <3>7
  <2> QED BY <2>2, <2>3
<1>4. Cardinality(F) \in Nat
  BY FS_CardinalityType
<1>5. PICK g : AddsUpTo(size, F, Cardinality(F), g)
  BY <1>3, <1>4
<1>6. D(Cardinality(F)) = SUBSET F
  BY FS_Subset
<1> QED BY <1>5, <1>6 DEF AddsUpTo, Adds

LEMMA OnlyOneAdds ==
  ASSUME NEW F, IsFiniteSet(F), NEW size, NEW g, NEW h, Adds(size, F, g), Adds(size, F, h)
  PROVE  g = h
<1> DEFINE bad == {s \in SUBSET F : g[s] # h[s]}
<1>1. bad = {}
  <2> SUFFICES ASSUME bad # {}
               PROVE  FALSE
    OBVIOUS
  <2>1. PICK s \in bad : \A t \in bad : t \subseteq s => t = s
    <3>1. bad \subseteq SUBSET F
      OBVIOUS
    <3> HIDE DEF bad
    <3> QED BY <3>1, MinimalSubset
  <2>2. s # {}
    BY DEF Adds
  <2>3. Pick(s) \in s
    BY <2>2, PickIn
  <2>4. g[s \ {Pick(s)}] = h[s \ {Pick(s)}]
    BY <2>1, <2>3
  <2> QED BY <2>2, <2>4 DEF Adds
<1> QED BY <1>1 DEF Adds

\* The sum over T, read from a function that adds up over a set containing T.
LEMMA TotalIs ==
  ASSUME NEW F, IsFiniteSet(F), NEW size, NEW g, Adds(size, F, g), NEW T \in SUBSET F
  PROVE  Total(size, T) = g[T]
<1> DEFINE h == [s \in SUBSET T |-> g[s]]
<1>1. ASSUME NEW s \in SUBSET T
      PROVE  h[s] = IF s = {} THEN 0 ELSE size[Pick(s)] + h[s \ {Pick(s)}]
  BY PickIn DEF Adds
<1>2. Adds(size, T, h)
  BY <1>1 DEF Adds
<1>3. IsFiniteSet(T)
  BY FS_Subset
<1>4. Total(size, T) = (CHOOSE f : Adds(size, T, f))[T]
  BY DEF Total, MapThenSumSet, MapThenFoldSet, Adds, Pick
<1>5. PICK f : f = (CHOOSE k : Adds(size, T, k))
  OBVIOUS
<1>6. Adds(size, T, f)
  BY <1>2, <1>5
<1>7. f = h
  <2> HIDE DEF h
  <2> QED BY <1>2, <1>3, <1>6, OnlyOneAdds
<1> QED BY <1>4, <1>5, <1>7

\* The sum takes one member after the other, as Pick chooses them.
LEMMA TotalByPick ==
  ASSUME NEW T, IsFiniteSet(T), NEW size
  PROVE  Total(size, T) =
           IF T = {} THEN 0 ELSE size[Pick(T)] + Total(size, T \ {Pick(T)})
<1>1. PICK g : Adds(size, T, g)
  BY SomethingAdds
<1>2. Total(size, T) = g[T] /\ Total(size, T \ {Pick(T)}) = g[T \ {Pick(T)}]
  BY <1>1, TotalIs
<1> QED BY <1>1, <1>2 DEF Adds

LEMMA TotalNat ==
  ASSUME NEW F, IsFiniteSet(F), NEW size \in [F -> Nat], NEW T \in SUBSET F
  PROVE  Total(size, T) \in Nat
<1> DEFINE bad == {s \in SUBSET F : Total(size, s) \notin Nat}
<1>1. bad = {}
  <2> SUFFICES ASSUME bad # {}
               PROVE  FALSE
    OBVIOUS
  <2>1. PICK s \in bad : \A t \in bad : t \subseteq s => t = s
    <3>1. bad \subseteq SUBSET F
      OBVIOUS
    <3> HIDE DEF bad
    <3> QED BY <3>1, MinimalSubset
  <2>2. IsFiniteSet(s)
    BY FS_Subset
  <2>3. s # {}
    <3>1. Total(size, {}) = 0
      BY FS_EmptySet, TotalByPick
    <3>2. Total(size, s) \notin Nat
      OBVIOUS
    <3> HIDE DEF bad
    <3> QED BY <3>1, <3>2
  <2>4. Pick(s) \in s /\ size[Pick(s)] \in Nat
    BY <2>3, PickIn
  <2>5. Total(size, s \ {Pick(s)}) \in Nat
    BY <2>1, <2>4
  <2>6. Total(size, s) = size[Pick(s)] + Total(size, s \ {Pick(s)})
    BY <2>2, <2>3, TotalByPick
  <2>7. Total(size, s) \notin Nat
    OBVIOUS
  <2> HIDE DEF bad
  <2> QED BY <2>4, <2>5, <2>6, <2>7
<1> QED BY <1>1

\* Whichever member is taken out, the sum is the smaller by it.
LEMMA TotalWithout ==
  ASSUME NEW F, IsFiniteSet(F), NEW size \in [F -> Nat], NEW T \in SUBSET F, NEW x \in T
  PROVE  Total(size, T) = size[x] + Total(size, T \ {x})
<1> DEFINE bad == {s \in SUBSET F :
                     \E y \in s : Total(size, s) # size[y] + Total(size, s \ {y})}
<1>1. bad = {}
  <2> SUFFICES ASSUME bad # {}
               PROVE  FALSE
    OBVIOUS
  <2>1. PICK s \in bad : \A t \in bad : t \subseteq s => t = s
    <3>1. bad \subseteq SUBSET F
      OBVIOUS
    <3> HIDE DEF bad
    <3> QED BY <3>1, MinimalSubset
  <2>2. PICK y \in s : Total(size, s) # size[y] + Total(size, s \ {y})
    BY <2>1
  <2> DEFINE c == Pick(s)
  <2>3. c \in s
    BY <2>2, PickIn
  <2>4. IsFiniteSet(s) /\ IsFiniteSet(s \ {y})
    BY FS_Subset, SmallerByOne
  <2>5. Total(size, s) = size[c] + Total(size, s \ {c})
    BY <2>2, <2>4, TotalByPick
  <2>6. c # y
    BY <2>2, <2>5
  <2>7. s \ {c} \notin bad /\ s \ {y} \notin bad
    BY <2>1, <2>2, <2>3
  <2>8. Total(size, s \ {c}) = size[y] + Total(size, (s \ {c}) \ {y})
    BY <2>2, <2>6, <2>7
  <2>9. Total(size, s \ {y}) = size[c] + Total(size, (s \ {y}) \ {c})
    BY <2>3, <2>6, <2>7
  <2>10. (s \ {c}) \ {y} = (s \ {y}) \ {c}
    OBVIOUS
  <2>11. size[c] \in Nat /\ size[y] \in Nat /\ Total(size, (s \ {c}) \ {y}) \in Nat
    BY <2>3, TotalNat
  <2> HIDE DEF bad, c
  <2>12. Total(size, s) = size[c] + (size[y] + Total(size, (s \ {c}) \ {y}))
    BY <2>5, <2>8
  <2>13. size[y] + Total(size, s \ {y}) = size[y] + (size[c] + Total(size, (s \ {c}) \ {y}))
    BY <2>9, <2>10
  <2> QED BY <2>2, <2>11, <2>12, <2>13
<1> QED BY <1>1

LEMMA TotalGrows ==
  ASSUME NEW F, IsFiniteSet(F), NEW size \in [F -> Nat], NEW U \in SUBSET F, NEW T \in SUBSET U
  PROVE  Total(size, T) <= Total(size, U)
<1> DEFINE bad == {s \in SUBSET F : T \subseteq s /\ ~ (Total(size, T) <= Total(size, s))}
<1>1. bad = {}
  <2> SUFFICES ASSUME bad # {}
               PROVE  FALSE
    OBVIOUS
  <2>1. PICK s \in bad : \A t \in bad : t \subseteq s => t = s
    <3>1. bad \subseteq SUBSET F
      OBVIOUS
    <3> HIDE DEF bad
    <3> QED BY <3>1, MinimalSubset
  <2>2. Total(size, s) \in Nat /\ Total(size, T) \in Nat
    BY TotalNat
  <2>3. PICK x \in s : x \notin T
    BY <2>2
  <2>4. s \ {x} \notin bad /\ s \ {x} \in SUBSET F /\ T \subseteq s \ {x}
    BY <2>1, <2>3
  <2>5. Total(size, T) <= Total(size, s \ {x})
    BY <2>4
  <2>6. Total(size, s) = size[x] + Total(size, s \ {x})
    BY <2>3, TotalWithout
  <2>7. size[x] \in Nat /\ Total(size, s \ {x}) \in Nat
    BY <2>3, <2>4, TotalNat
  <2>8. ~ (Total(size, T) <= Total(size, s))
    OBVIOUS
  <2> HIDE DEF bad
  <2> QED BY <2>2, <2>5, <2>6, <2>7, <2>8
<1> QED BY <1>1

\* It grows by something where a member that counts is added.
LEMMA TotalStrict ==
  ASSUME NEW F, IsFiniteSet(F), NEW size \in [F -> Nat], NEW U \in SUBSET F, NEW T \in SUBSET U,
         NEW x \in U \ T, size[x] > 0
  PROVE  Total(size, T) < Total(size, U)
<1>1. Total(size, U) = size[x] + Total(size, U \ {x})
  BY TotalWithout
<1>2. Total(size, T) <= Total(size, U \ {x})
  BY TotalGrows
<1>3. Total(size, T) \in Nat /\ Total(size, U \ {x}) \in Nat /\ size[x] \in Nat
  BY TotalNat
<1> QED BY <1>1, <1>2, <1>3

LEMMA TotalEmpty ==
  ASSUME NEW size
  PROVE  Total(size, {}) = 0
BY FS_EmptySet, TotalByPick

\* Only the members' sizes matter.
LEMMA TotalSame ==
  ASSUME NEW T, IsFiniteSet(T), NEW size, NEW other, \A x \in T : size[x] = other[x]
  PROVE  Total(size, T) = Total(other, T)
<1> DEFINE bad == {s \in SUBSET T : Total(size, s) # Total(other, s)}
<1>1. bad = {}
  <2> SUFFICES ASSUME bad # {}
               PROVE  FALSE
    OBVIOUS
  <2>1. PICK s \in bad : \A t \in bad : t \subseteq s => t = s
    <3>1. bad \subseteq SUBSET T
      OBVIOUS
    <3> HIDE DEF bad
    <3> QED BY <3>1, MinimalSubset
  <2>2. IsFiniteSet(s) /\ Total(size, s) # Total(other, s)
    BY FS_Subset
  <2>3. s # {}
    BY <2>2, TotalEmpty
  <2>4. Pick(s) \in s
    BY <2>3, PickIn
  <2>5. Total(size, s \ {Pick(s)}) = Total(other, s \ {Pick(s)})
    BY <2>1, <2>4
  <2>6. /\ Total(size, s) = size[Pick(s)] + Total(size, s \ {Pick(s)})
        /\ Total(other, s) = other[Pick(s)] + Total(other, s \ {Pick(s)})
    BY <2>2, <2>3, TotalByPick
  <2>7. size[Pick(s)] = other[Pick(s)]
    BY <2>4
  <2> HIDE DEF bad
  <2> QED BY <2>2, <2>5, <2>6, <2>7
<1> QED BY <1>1

\* What is split in two is the sum of its parts.
LEMMA TotalUnion ==
  ASSUME NEW F, IsFiniteSet(F), NEW size \in [F -> Nat],
         NEW S \in SUBSET F, NEW T \in SUBSET F, S \cap T = {}
  PROVE  Total(size, S \cup T) = Total(size, S) + Total(size, T)
<1> DEFINE bad == {t \in SUBSET T : Total(size, S \cup t) # Total(size, S) + Total(size, t)}
<1>1. bad = {}
  <2> SUFFICES ASSUME bad # {}
               PROVE  FALSE
    OBVIOUS
  <2>1. PICK t \in bad : \A u \in bad : u \subseteq t => u = t
    <3>1. bad \subseteq SUBSET T /\ IsFiniteSet(T)
      BY FS_Subset
    <3> HIDE DEF bad
    <3> QED BY <3>1, MinimalSubset
  <2>2. t \in SUBSET T /\ Total(size, S \cup t) # Total(size, S) + Total(size, t)
    OBVIOUS
  <2>3. Total(size, S) \in Nat
    BY TotalNat
  <2>4. PICK x \in t : TRUE
    <3>1. t # {}
      <4>1. S \cup {} = S
        OBVIOUS
      <4> QED BY <2>2, <2>3, <4>1, TotalEmpty
    <3> QED BY <3>1
  <2>5. Total(size, t) = size[x] + Total(size, t \ {x})
    BY <2>2, TotalWithout
  <2>6. Total(size, S \cup t) = size[x] + Total(size, S \cup (t \ {x}))
    <3>1. (S \cup t) \ {x} = S \cup (t \ {x})
      BY <2>2
    <3>2. S \cup t \in SUBSET F
      BY <2>2
    <3> QED BY <3>1, <3>2, TotalWithout
  <2>7. Total(size, S \cup (t \ {x})) = Total(size, S) + Total(size, t \ {x})
    BY <2>1
  <2>8. size[x] \in Nat /\ Total(size, t \ {x}) \in Nat
    BY <2>2, TotalNat
  <2> HIDE DEF bad
  <2> QED BY <2>2, <2>3, <2>5, <2>6, <2>7, <2>8
<1> QED BY <1>1

LEMMA CountApart ==
  ASSUME NEW S, IsFiniteSet(S), NEW T, IsFiniteSet(T), S \cap T = {}
  PROVE  /\ IsFiniteSet(S \cup T)
         /\ Cardinality(S) \in Nat /\ Cardinality(T) \in Nat
         /\ Cardinality(S \cup T) = Cardinality(S) + Cardinality(T)
<1>1. Cardinality(S) \in Nat /\ Cardinality(T) \in Nat
  BY FS_CardinalityType
<1>2. /\ IsFiniteSet(S \cup T)
      /\ Cardinality(S \cup T) = Cardinality(S) + Cardinality(T) - Cardinality({})
  BY FS_Union
<1> QED BY <1>1, <1>2, FS_EmptySet

\* Sorted by a key, the sum is the keys' sums together.
LEMMA TotalByKey ==
  ASSUME NEW F, IsFiniteSet(F), NEW size \in [F -> Nat], NEW K, IsFiniteSet(K), NEW key \in [F -> K]
  PROVE  Total([k \in K |-> Total(size, {x \in F : key[x] = k})], K) = Total(size, F)
<1> DEFINE Of(k) == {x \in F : key[x] = k}
           sums == [k \in K |-> Total(size, Of(k))]
           Under(ks) == {x \in F : key[x] \in ks}
           bad == {ks \in SUBSET K : Total(sums, ks) # Total(size, Under(ks))}
<1>1. sums \in [K -> Nat]
  BY TotalNat
<1>2. bad = {}
  <2> SUFFICES ASSUME bad # {}
               PROVE  FALSE
    OBVIOUS
  <2>1. PICK ks \in bad : \A js \in bad : js \subseteq ks => js = ks
    <3>1. bad \subseteq SUBSET K
      OBVIOUS
    <3> HIDE DEF bad
    <3> QED BY <3>1, MinimalSubset
  <2>2. ks \in SUBSET K /\ Total(sums, ks) # Total(size, Under(ks))
    OBVIOUS
  <2>3. PICK k \in ks : TRUE
    <3>1. Under({}) = {}
      OBVIOUS
    <3> HIDE DEF sums, Under
    <3>2. ks # {}
      BY <2>2, <3>1, TotalEmpty
    <3> QED BY <3>2
  <2>4. Total(sums, ks \ {k}) = Total(size, Under(ks \ {k}))
    BY <2>1
  <2>5. Total(sums, ks) = Total(size, Of(k)) + Total(sums, ks \ {k})
    <3>1. sums[k] = Total(size, Of(k))
      BY <2>2
    <3> HIDE DEF sums
    <3> QED BY <1>1, <2>2, <3>1, TotalWithout
  <2>6. Total(size, Under(ks)) = Total(size, Of(k)) + Total(size, Under(ks \ {k}))
    <3>1. PICK this, others : this = Of(k) /\ others = Under(ks \ {k})
      OBVIOUS
    <3>2. Under(ks) = this \cup others /\ this \cap others = {}
      BY <3>1
    <3>3. this \in SUBSET F /\ others \in SUBSET F
      BY <3>1
    <3> HIDE DEF bad, sums, Of, Under
    <3>4. Total(size, this \cup others) = Total(size, this) + Total(size, others)
      BY <3>2, <3>3, TotalUnion
    <3> QED BY <3>1, <3>2, <3>4
  <2> HIDE DEF bad, sums, Of, Under
  <2> QED BY <2>2, <2>4, <2>5, <2>6
<1>3. Under(K) = F /\ K \notin bad
  BY <1>2
<1> QED BY <1>3

\* So is how many there are.
LEMMA CountByKey ==
  ASSUME NEW F, IsFiniteSet(F), NEW K, IsFiniteSet(K), NEW key \in [F -> K]
  PROVE  Total([k \in K |-> Cardinality({x \in F : key[x] = k})], K) = Cardinality(F)
<1> DEFINE Of(k) == {x \in F : key[x] = k}
           counts == [k \in K |-> Cardinality(Of(k))]
           Under(ks) == {x \in F : key[x] \in ks}
           bad == {ks \in SUBSET K : Total(counts, ks) # Cardinality(Under(ks))}
<1>1. /\ counts \in [K -> Nat]
      /\ \A ks : IsFiniteSet(Under(ks)) /\ Cardinality(Under(ks)) \in Nat
      /\ \A k : IsFiniteSet(Of(k)) /\ Cardinality(Of(k)) \in Nat
  <2>1. \A T \in SUBSET F : IsFiniteSet(T) /\ Cardinality(T) \in Nat
    BY FS_Subset, FS_CardinalityType
  <2>2. (\A ks : Under(ks) \in SUBSET F) /\ \A k : Of(k) \in SUBSET F
    OBVIOUS
  <2> HIDE DEF Of, Under
  <2> QED BY <2>1, <2>2
<1>2. bad = {}
  <2> SUFFICES ASSUME bad # {}
               PROVE  FALSE
    OBVIOUS
  <2>1. PICK ks \in bad : \A js \in bad : js \subseteq ks => js = ks
    <3>1. bad \subseteq SUBSET K
      OBVIOUS
    <3> HIDE DEF bad
    <3> QED BY <3>1, MinimalSubset
  <2>2. ks \in SUBSET K /\ Total(counts, ks) # Cardinality(Under(ks))
    OBVIOUS
  <2>3. PICK k \in ks : TRUE
    <3>1. Under({}) = {}
      OBVIOUS
    <3> HIDE DEF counts, Under
    <3>2. ks # {}
      BY <2>2, <3>1, TotalEmpty, FS_EmptySet
    <3> QED BY <3>2
  <2>4. Total(counts, ks \ {k}) = Cardinality(Under(ks \ {k}))
    BY <2>1
  <2>5. Total(counts, ks) = Cardinality(Of(k)) + Total(counts, ks \ {k})
    <3>1. counts[k] = Cardinality(Of(k))
      BY <2>2
    <3> HIDE DEF counts
    <3> QED BY <1>1, <2>2, <3>1, TotalWithout
  <2>6. Cardinality(Under(ks)) = Cardinality(Of(k)) + Cardinality(Under(ks \ {k}))
    <3>1. PICK this, others : this = Of(k) /\ others = Under(ks \ {k})
      OBVIOUS
    <3>2. Under(ks) = this \cup others /\ this \cap others = {}
      BY <3>1
    <3> HIDE DEF bad, counts, Of, Under
    <3>3. /\ IsFiniteSet(this) /\ Cardinality(this) \in Nat
          /\ IsFiniteSet(others) /\ Cardinality(others) \in Nat
      BY <1>1, <3>1
    <3> QED BY <3>1, <3>2, <3>3, CountApart
  <2> HIDE DEF bad, counts, Of, Under
  <2> QED BY <2>2, <2>4, <2>5, <2>6
<1>3. Under(K) = F /\ K \notin bad
  BY <1>2
<1> QED BY <1>3

\* Member by member at most so many times as large, as a whole too.
LEMMA TotalBounded ==
  ASSUME NEW F, IsFiniteSet(F), NEW size \in [F -> Nat], NEW other \in [F -> Nat], NEW c \in Nat,
         \A x \in F : size[x] <= c * other[x]
  PROVE  Total(size, F) <= c * Total(other, F)
<1> DEFINE bad == {s \in SUBSET F : ~ (Total(size, s) <= c * Total(other, s))}
<1>1. bad = {}
  <2> SUFFICES ASSUME bad # {}
               PROVE  FALSE
    OBVIOUS
  <2>1. PICK s \in bad : \A t \in bad : t \subseteq s => t = s
    <3>1. bad \subseteq SUBSET F
      OBVIOUS
    <3> HIDE DEF bad
    <3> QED BY <3>1, MinimalSubset
  <2>2. s \in SUBSET F /\ ~ (Total(size, s) <= c * Total(other, s))
    OBVIOUS
  <2>3. PICK x \in s : TRUE
    <3>1. Total(size, {}) <= c * Total(other, {})
      <4>1. 0 <= c * 0
        OBVIOUS
      <4> QED BY <4>1, TotalEmpty
    <3> HIDE DEF bad
    <3>2. s # {}
      BY <2>2, <3>1
    <3> QED BY <3>2
  <2>4. Total(size, s \ {x}) <= c * Total(other, s \ {x})
    BY <2>1
  <2>5. /\ Total(size, s) = size[x] + Total(size, s \ {x})
        /\ Total(other, s) = other[x] + Total(other, s \ {x})
    BY <2>2, TotalWithout
  <2>6. /\ size[x] \in Nat /\ Total(size, s \ {x}) \in Nat
        /\ other[x] \in Nat /\ Total(other, s \ {x}) \in Nat
        /\ size[x] <= c * other[x]
    BY <2>2, TotalNat
  <2>7. c * (other[x] + Total(other, s \ {x})) = c * other[x] + c * Total(other, s \ {x})
    BY <2>6
  <2> HIDE DEF bad
  <2> QED BY <2>2, <2>4, <2>5, <2>6, <2>7
<1> QED BY <1>1
=============================================================================
