-------------------------------- MODULE Sums --------------------------------
(***************************************************************************)
(* Finite sets of numbers, and sums over finite sets, for the proofs about *)
(* balances, limits and totals.  The community modules compute a sum by a  *)
(* recursive function over the subsets of a set; here it is shown that     *)
(* there is such a function, and only one, and that the order in which the *)
(* elements are taken does not matter.                                     *)
(***************************************************************************)
EXTENDS Integers, FiniteSets, FiniteSetTheorems, WellFoundedInduction, TLAPS

-----------------------------------------------------------------------------
(* Finite sets *)

\* Some number of a set is the least.
LEMMA LeastNat ==
  ASSUME NEW S \in SUBSET Nat, S # {}
  PROVE  \E m \in S : \A x \in S : m <= x
<1> DEFINE R == OpToRel(<, Nat)
<1>1. \A x, m \in Nat : x < m => <<x, m>> \in R
  BY DEF OpToRel
<1>2. IsWellFoundedOn(R, Nat)
  BY NatLessThanWellFounded
<1> HIDE DEF R
<1>3. PICK m \in S : \A x \in S : ~(<<x, m>> \in R)
  BY <1>2, WFMin
<1>4. ASSUME NEW x \in S PROVE m <= x
  <2>1. x \in Nat /\ m \in Nat /\ ~(x < m)
    BY <1>1, <1>3
  <2> QED
    BY <2>1
<1> QED
  BY <1>4

\* A finite set of numbers is bounded.
LEMMA Bounded ==
  ASSUME NEW S \in SUBSET Nat, IsFiniteSet(S)
  PROVE  \E m \in Nat : \A x \in S : x <= m
<1> DEFINE HasBound(T) == \E m \in Nat : \A x \in T : x <= m
           bad == {n \in Nat : \E T \in SUBSET Nat :
                     IsFiniteSet(T) /\ Cardinality(T) = n /\ ~HasBound(T)}
<1> SUFFICES ASSUME ~HasBound(S) PROVE FALSE
  OBVIOUS
<1>1. Cardinality(S) \in bad
  BY FS_CardinalityType
<1>2. PICK n \in bad : \A k \in bad : n <= k
  BY <1>1, LeastNat
<1>3. PICK T \in SUBSET Nat : IsFiniteSet(T) /\ Cardinality(T) = n /\ ~HasBound(T)
  BY <1>2
<1>4. PICK x : x \in T
  BY <1>3
<1> DEFINE U == T \ {x}
<1>5. IsFiniteSet(U) /\ Cardinality(U) = n - 1 /\ n \in Nat
  BY <1>2, <1>3, <1>4, FS_RemoveElement
<1>6. n - 1 \in Nat
  BY <1>5, FS_CardinalityType
<1>7. n - 1 \notin bad
  BY <1>2, <1>5, <1>6
<1>8. HasBound(U)
  BY <1>3, <1>5, <1>6, <1>7
<1>9. PICK m \in Nat : \A y \in U : y <= m
  BY <1>8
<1>10. HasBound(T)
  <2>1. x \in Nat /\ \A y \in T : y = x \/ y \in U
    BY <1>3, <1>4
  <2>2. CASE x <= m
    BY <1>9, <2>1, <2>2
  <2>3. CASE ~(x <= m)
    BY <1>9, <2>1, <2>3
  <2> QED
    BY <2>2, <2>3
<1> QED
  BY <1>3, <1>10

LEMMA GreatestNat ==
  ASSUME NEW S \in SUBSET Nat, IsFiniteSet(S), S # {}
  PROVE  \E m \in S : \A x \in S : x <= m
<1> DEFINE bounds == {m \in Nat : \A x \in S : x <= m}
<1>1. bounds # {}
  BY Bounded
<1>2. PICK m \in bounds : \A k \in bounds : m <= k
  BY <1>1, LeastNat
<1>3. CASE m \in S
  BY <1>2, <1>3
<1>4. CASE m \notin S
  <2>1. m # 0
    <3>1. PICK x \in S : TRUE
      OBVIOUS
    <3>2. x \in Nat /\ m \in Nat /\ x <= m /\ x # m
      BY <1>2, <1>4
    <3> QED
      BY <3>2
  <2>2. m - 1 \in Nat /\ \A x \in S : x <= m - 1
    BY <1>2, <1>4, <2>1
  <2> QED
    BY <1>2, <2>2
<1> QED
  BY <1>3, <1>4

\* Images of finite sets are finite.
LEMMA FiniteImage ==
  ASSUME NEW S, IsFiniteSet(S), NEW f, DOMAIN f = S
  PROVE  IsFiniteSet({f[x] : x \in S})
<1> DEFINE T == {f[x] : x \in S}  g == [x \in S |-> f[x]]
<1>1. g \in Surjection(S, T)
  BY DEF Surjection
<1> HIDE DEF g, T
<1>2. IsFiniteSet(T)
  BY <1>1, FS_Surjection
<1> QED
  BY <1>2 DEF T

\* Among the finite sets of a collection there is a smallest.
LEMMA SmallestSet ==
  ASSUME NEW C, C # {}, \A S \in C : IsFiniteSet(S)
  PROVE  \E S \in C : \A T \in C : Cardinality(S) <= Cardinality(T)
<1> DEFINE sizes == {Cardinality(S) : S \in C}
<1>1. sizes \in SUBSET Nat /\ sizes # {}
  BY FS_CardinalityType
<1>2. PICK n \in sizes : \A m \in sizes : n <= m
  <2> HIDE DEF sizes
  <2> QED
    BY <1>1, LeastNat
<1>3. PICK S \in C : n = Cardinality(S)
  OBVIOUS
<1> QED
  BY <1>2, <1>3

-----------------------------------------------------------------------------
(* Sums *)

\* The recursion by which the community modules add g over the subsets of S.
One(s) == CHOOSE x \in s : TRUE

LEMMA OneIn ==
  ASSUME NEW s, s # {}
  PROVE  One(s) \in s
BY DEF One

Adds(f, g, S) ==
  f = [s \in SUBSET S |-> IF s = {} THEN 0
                          ELSE g[One(s)] + f[s \ {One(s)}]]

LEMMA AddsNone ==
  ASSUME NEW f, NEW g, NEW S, Adds(f, g, S)
  PROVE  f[{}] = 0
<1> DEFINE h == [s \in SUBSET S |-> IF s = {} THEN 0 ELSE g[One(s)] + f[s \ {One(s)}]]
<1>1. f = h
  BY DEF Adds
<1>2. h[{}] = 0
  OBVIOUS
<1> HIDE DEF h
<1> QED
  BY <1>1, <1>2

LEMMA AddsAt ==
  ASSUME NEW f, NEW g, NEW S, Adds(f, g, S), NEW s \in SUBSET S, s # {}
  PROVE  f[s] = g[One(s)] + f[s \ {One(s)}]
<1> DEFINE h == [t \in SUBSET S |-> IF t = {} THEN 0 ELSE g[One(t)] + f[t \ {One(t)}]]
<1>1. f = h
  BY DEF Adds
<1>2. h[s] = g[One(s)] + f[s \ {One(s)}]
  OBVIOUS
<1> HIDE DEF h
<1> QED
  BY <1>1, <1>2

\* It has one solution at most ...
LEMMA AddsOnce ==
  ASSUME NEW g, NEW S, IsFiniteSet(S), NEW f, NEW h, Adds(f, g, S), Adds(h, g, S)
  PROVE  f = h
<1> DEFINE apart == {s \in SUBSET S : f[s] # h[s]}
<1>1. apart = {}
  <2> SUFFICES ASSUME apart # {} PROVE FALSE
    OBVIOUS
  <2>1. PICK s \in apart : \A t \in apart : Cardinality(s) <= Cardinality(t)
    <3>1. \A t \in apart : IsFiniteSet(t)
      BY FS_Subset
    <3> HIDE DEF apart
    <3> QED
      BY <3>1, SmallestSet
  <2>2. s \in SUBSET S /\ s # {} /\ f[s] # h[s] /\ IsFiniteSet(s)
    BY AddsNone, FS_Subset
  <2> DEFINE x == One(s)
  <2>3. x \in s
    BY <2>2, OneIn
  <2> HIDE DEF x
  <2>4. Cardinality(s \ {x}) = Cardinality(s) - 1 /\ Cardinality(s) \in Nat
    BY <2>2, <2>3, FS_RemoveElement, FS_CardinalityType
  <2>5. s \ {x} \notin apart
    <3> HIDE DEF apart
    <3> QED
      BY <2>1, <2>4
  <2>6. f[s \ {x}] = h[s \ {x}]
    BY <2>2, <2>5
  <2>7. f[s] = g[x] + f[s \ {x}] /\ h[s] = g[x] + h[s \ {x}]
    BY <2>2, AddsAt DEF x
  <2> QED
    BY <2>2, <2>6, <2>7
<1>2. \A s \in SUBSET S : f[s] = h[s]
  BY <1>1
<1>3. f = [s \in SUBSET S |-> f[s]] /\ h = [s \in SUBSET S |-> h[s]]
  BY DEF Adds
<1> QED
  BY <1>2, <1>3

\* ... which serves the subsets too ...
LEMMA AddsBelow ==
  ASSUME NEW g, NEW S, NEW f, Adds(f, g, S), NEW T \in SUBSET S
  PROVE  Adds([s \in SUBSET T |-> f[s]], g, T)
<1> DEFINE h == [s \in SUBSET T |-> f[s]]
<1>1. ASSUME NEW s \in SUBSET T
      PROVE  f[s] = IF s = {} THEN 0
                    ELSE g[One(s)] + h[s \ {One(s)}]
  <2>1. CASE s = {}
    BY <2>1, AddsNone
  <2>2. CASE s # {}
    <3>1. f[s] = g[One(s)] + f[s \ {One(s)}]
      BY <2>2, AddsAt
    <3>2. s \ {One(s)} \in SUBSET T
      OBVIOUS
    <3>3. h[s \ {One(s)}] = f[s \ {One(s)}]
      BY <3>2
    <3> HIDE DEF h
    <3> QED
      BY <2>2, <3>1, <3>3
  <2> QED
    BY <2>1, <2>2
<1>2. h = [s \in SUBSET T |->
             IF s = {} THEN 0
             ELSE g[One(s)] + h[s \ {One(s)}]]
  BY <1>1
<1> HIDE DEF h
<1>3. Adds(h, g, T)
  BY <1>2 DEF Adds
<1> QED
  BY <1>3 DEF h

\* ... and a finite set always has one.
LEMMA AddsExists ==
  ASSUME NEW g, NEW S, IsFiniteSet(S)
  PROVE  \E f : Adds(f, g, S)
<1> DEFINE without == {T \in SUBSET S : ~ \E f : Adds(f, g, T)}
<1>1. without = {}
  <2> SUFFICES ASSUME without # {} PROVE FALSE
    OBVIOUS
  <2>1. PICK T \in without : \A U \in without : Cardinality(T) <= Cardinality(U)
    <3>1. \A U \in without : IsFiniteSet(U)
      BY FS_Subset
    <3> HIDE DEF without
    <3> QED
      BY <3>1, SmallestSet
  <2>2. T \in SUBSET S /\ IsFiniteSet(T) /\ ~ \E f : Adds(f, g, T)
    BY FS_Subset
  <2>3. ASSUME NEW U \in SUBSET T, U # T PROVE \E f : Adds(f, g, U)
    <3>1. /\ IsFiniteSet(U) /\ Cardinality(U) <= Cardinality(T)
          /\ Cardinality(U) # Cardinality(T)
      BY <2>2, <2>3, FS_Subset
    <3>2. Cardinality(U) \in Nat /\ Cardinality(T) \in Nat
      BY <2>2, <3>1, FS_CardinalityType
    <3>3. U \notin without
      <4> HIDE DEF without
      <4> QED
        BY <2>1, <3>1, <3>2
    <3> QED
      BY <2>2, <3>3
  <2> DEFINE F(U) == CHOOSE f : Adds(f, g, U)
             y == One(T)
             h == [s \in SUBSET T |-> IF s = {} THEN 0
                     ELSE IF s = T THEN g[y] + F(T \ {y})[T \ {y}] ELSE F(s)[s]]
  <2>4. \A U \in SUBSET T : U # T => Adds(F(U), g, U)
    BY <2>3
  <2>5. ASSUME NEW s \in SUBSET T
        PROVE  h[s] = IF s = {} THEN 0
                      ELSE g[One(s)] + h[s \ {One(s)}]
    <3> DEFINE x == One(s)  r == s \ {x}
    <3>1. s # {} => x \in s /\ r \in SUBSET T /\ r # T /\ r # s
      BY OneIn
    <3> HIDE DEF x, F
    <3>2. ASSUME s # {} PROVE h[r] = F(r)[r]
      <4>1. Adds(F(r), g, r)
        BY <2>4, <3>1, <3>2
      <4> HIDE DEF r
      <4>2. r = {} => F(r)[r] = 0
        BY <4>1, AddsNone
      <4> QED
        BY <3>1, <3>2, <4>2
    <3>3. CASE s = {}
      BY <3>3
    <3>4. CASE s # {} /\ s = T
      <4>1. h[s] = g[y] + F(T \ {y})[T \ {y}] /\ y = x
        BY <3>4 DEF x
      <4> HIDE DEF h, y
      <4> QED
        BY <3>2, <3>4, <4>1 DEF x
    <3>5. CASE s # {} /\ s # T
      <4>1. h[s] = F(s)[s]
        BY <3>5
      <4> HIDE DEF h
      <4>2. Adds(F(s), g, s) /\ Adds(F(r), g, r)
        BY <2>4, <3>1, <3>5
      <4>3. F(s)[s] = g[x] + F(s)[r]
        BY <3>5, <4>2, AddsAt DEF x, r
      <4>4. F(s)[r] = F(r)[r]
        <5> DEFINE k == [q \in SUBSET r |-> F(s)[q]]
        <5>1. Adds(k, g, r)
          BY <4>2, AddsBelow
        <5>2. IsFiniteSet(r)
          BY <2>2, <3>1, <3>5, FS_Subset
        <5>3. k[r] = F(s)[r]
          OBVIOUS
        <5> HIDE DEF k
        <5>4. k = F(r)
          BY <4>2, <5>1, <5>2, AddsOnce
        <5> QED
          BY <5>3, <5>4
      <4> HIDE DEF r
      <4>5. h[s] = g[x] + h[r]
        BY <3>2, <3>5, <4>1, <4>3, <4>4
      <4> QED
        BY <3>5, <4>5 DEF x, r
    <3> QED
      BY <3>3, <3>4, <3>5
  <2>6. DOMAIN h = SUBSET T
    OBVIOUS
  <2>7. h = [s \in SUBSET T |-> h[s]]
    OBVIOUS
  <2> HIDE DEF h
  <2>8. h = [s \in SUBSET T |->
               IF s = {} THEN 0
               ELSE g[One(s)] + h[s \ {One(s)}]]
    BY <2>5, <2>7
  <2>9. Adds(h, g, T)
    BY <2>8 DEF Adds
  <2> QED
    BY <2>2, <2>9
<1> QED
  BY <1>1

Total(g, S) == (CHOOSE f : Adds(f, g, S))[S]

LEMMA TotalAdds ==
  ASSUME NEW g, NEW S, IsFiniteSet(S), NEW f, Adds(f, g, S)
  PROVE  f[S] = Total(g, S)
<1>1. Adds(CHOOSE h : Adds(h, g, S), g, S)
  BY AddsExists
<1> DEFINE k == CHOOSE h : Adds(h, g, S)
<1>2. Adds(k, g, S)
  BY <1>1
<1> HIDE DEF k
<1>3. f = k
  BY <1>2, AddsOnce
<1> QED
  BY <1>3 DEF Total, k

LEMMA TotalNone == \A g : Total(g, {}) = 0
<1> TAKE g
<1>1. IsFiniteSet({})
  BY FS_EmptySet
<1>2. PICK f : Adds(f, g, {})
  BY <1>1, AddsExists
<1>3. f[{}] = 0
  BY <1>2, AddsNone
<1> QED
  BY <1>1, <1>2, <1>3, TotalAdds

LEMMA TotalOne ==
  ASSUME NEW g, NEW S, IsFiniteSet(S), S # {}
  PROVE  Total(g, S) = g[One(S)] + Total(g, S \ {One(S)})
<1> DEFINE T == S \ {One(S)}
<1>1. PICK f : Adds(f, g, S)
  BY AddsExists
<1>2. f[S] = g[One(S)] + f[T]
  BY <1>1, AddsAt
<1> DEFINE h == [s \in SUBSET T |-> f[s]]
<1>3. Adds(h, g, T) /\ IsFiniteSet(T)
  <2>1. T \in SUBSET S
    OBVIOUS
  <2> HIDE DEF T
  <2> QED
    BY <1>1, <2>1, AddsBelow, FS_Subset
<1>4. h[T] = f[T]
  OBVIOUS
<1> HIDE DEF h, T
<1>5. h[T] = Total(g, T) /\ f[S] = Total(g, S)
  BY <1>1, <1>3, TotalAdds
<1>6. Total(g, S) = g[One(S)] + Total(g, T)
  BY <1>2, <1>4, <1>5
<1> QED
  BY <1>6 DEF T

\* What g gives for a set's elements adds up to a number ...
LEMMA TotalInt ==
  ASSUME NEW g, NEW S, IsFiniteSet(S), \A x \in S : g[x] \in Int
  PROVE  Total(g, S) \in Int
<1> DEFINE bad == {T \in SUBSET S : Total(g, T) \notin Int}
<1>1. bad = {}
  <2> SUFFICES ASSUME bad # {} PROVE FALSE
    OBVIOUS
  <2>1. PICK T \in bad : \A U \in bad : Cardinality(T) <= Cardinality(U)
    <3>1. \A U \in bad : IsFiniteSet(U)
      BY FS_Subset
    <3> HIDE DEF bad
    <3> QED
      BY <3>1, SmallestSet
  <2>2. T \in SUBSET S /\ T # {} /\ Total(g, T) \notin Int /\ IsFiniteSet(T)
    <3>1. T \in SUBSET S /\ Total(g, T) \notin Int
      OBVIOUS
    <3>2. Total(g, {}) = 0
      BY TotalNone
    <3>3. T # {}
      BY <3>1, <3>2
    <3> QED
      BY <3>1, <3>3, FS_Subset
  <2> DEFINE x == One(T)  U == T \ {x}
  <2>3. x \in T /\ U \in SUBSET S
    BY <2>2, OneIn
  <2>4. Total(g, T) = g[x] + Total(g, U)
    BY <2>2, TotalOne
  <2>5. Cardinality(U) = Cardinality(T) - 1 /\ Cardinality(T) \in Nat
    BY <2>2, <2>3, FS_RemoveElement, FS_CardinalityType
  <2>6. U \notin bad
    <3> HIDE DEF bad, U
    <3> QED
      BY <2>1, <2>5
  <2> HIDE DEF U, x
  <2> QED
    BY <2>2, <2>3, <2>4, <2>6
<1> QED
  BY <1>1

\* Nothings add up to nothing.
LEMMA TotalZero ==
  ASSUME NEW g, NEW S, IsFiniteSet(S), \A x \in S : g[x] = 0
  PROVE  Total(g, S) = 0
<1> DEFINE bad == {T \in SUBSET S : Total(g, T) # 0}
<1>1. \A T \in SUBSET S : IsFiniteSet(T)
  BY FS_Subset
<1>2. CASE bad # {}
  <2>1. PICK T \in bad : \A U \in bad : Cardinality(T) <= Cardinality(U)
    <3>1. \A T \in bad : IsFiniteSet(T)
      BY <1>1
    <3> HIDE DEF bad
    <3> QED
      BY <1>2, <3>1, SmallestSet
  <2>2. T # {} /\ T \in SUBSET S /\ IsFiniteSet(T)
    BY <1>1, <2>1, TotalNone
  <2>3. One(T) \in T /\ Total(g, T) = g[One(T)] + Total(g, T \ {One(T)})
    BY <2>2, OneIn, TotalOne
  <2>4. g[One(T)] = 0 /\ Total(g, T) # 0
    BY <2>1, <2>2, <2>3
  <2>5. Total(g, T \ {One(T)}) # 0
    BY <2>3, <2>4
  <2>6. T \ {One(T)} \in bad
    BY <2>2, <2>5
  <2>7. Cardinality(T \ {One(T)}) = Cardinality(T) - 1 /\ Cardinality(T) \in Nat
    BY <2>2, <2>3, FS_RemoveElement, FS_CardinalityType
  <2> HIDE DEF bad
  <2> QED
    BY <2>1, <2>6, <2>7
<1>3. CASE bad = {}
  BY <1>3
<1> QED
  BY <1>2, <1>3

\* ... in whichever order they are taken.
LEMMA TotalWithout ==
  ASSUME NEW g, NEW S, IsFiniteSet(S), \A x \in S : g[x] \in Int, NEW y \in S
  PROVE  Total(g, S) = g[y] + Total(g, S \ {y})
<1> DEFINE Ok(T) == \A z \in T : Total(g, T) = g[z] + Total(g, T \ {z})
           bad == {T \in SUBSET S : ~Ok(T)}
<1>1. bad = {}
  <2> SUFFICES ASSUME bad # {} PROVE FALSE
    OBVIOUS
  <2>1. PICK T \in bad : \A U \in bad : Cardinality(T) <= Cardinality(U)
    <3>1. \A U \in bad : IsFiniteSet(U)
      BY FS_Subset
    <3> HIDE DEF bad
    <3> QED
      BY <3>1, SmallestSet
  <2>2. T \in SUBSET S /\ IsFiniteSet(T)
    BY FS_Subset
  <2>3. PICK z \in T : Total(g, T) # g[z] + Total(g, T \ {z})
    OBVIOUS
  <2> DEFINE x == One(T)  U == T \ {x}  V == T \ {z}  W == U \ {z}
  <2>4. x \in T /\ Total(g, T) = g[x] + Total(g, U)
    BY <2>2, <2>3, OneIn, TotalOne
  <2>5. x # z
    BY <2>3, <2>4
  <2>6. /\ Cardinality(U) = Cardinality(T) - 1 /\ Cardinality(V) = Cardinality(T) - 1
        /\ Cardinality(T) \in Nat
    BY <2>2, <2>3, <2>4, FS_RemoveElement, FS_CardinalityType
  <2>7. U \in SUBSET S /\ V \in SUBSET S /\ z \in U /\ x \in V /\ W = V \ {x}
    BY <2>2, <2>3, <2>4, <2>5
  <2>8. U \notin bad /\ V \notin bad
    <3> HIDE DEF bad, U, V
    <3> QED
      BY <2>1, <2>6
  <2> HIDE DEF U, V, W, x
  <2>9. Total(g, U) = g[z] + Total(g, U \ {z}) /\ Total(g, V) = g[x] + Total(g, V \ {x})
    BY <2>7, <2>8
  <2>10. W = U \ {z} /\ V = T \ {z} /\ IsFiniteSet(W) /\ W \in SUBSET S
    BY <2>2, <2>7, FS_Subset DEF U, V, W
  <2>11. Total(g, W) \in Int /\ g[x] \in Int /\ g[z] \in Int
    BY <2>2, <2>4, <2>10, TotalInt
  <2>12. /\ Total(g, T) = g[x] + Total(g, U) /\ Total(g, U) = g[z] + Total(g, W)
         /\ Total(g, V) = g[x] + Total(g, W) /\ Total(g, T) # g[z] + Total(g, V)
    BY <2>3, <2>4, <2>7, <2>9, <2>10
  <2> QED
    BY <2>11, <2>12
<1>2. S \notin bad
  BY <1>1
<1> QED
  BY <1>2

\* Sums of greater numbers are greater ...
LEMMA TotalLess ==
  ASSUME NEW g, NEW h, NEW S, IsFiniteSet(S),
         \A x \in S : g[x] \in Int /\ h[x] \in Int /\ g[x] <= h[x]
  PROVE  Total(g, S) <= Total(h, S)
<1> DEFINE bad == {T \in SUBSET S : ~(Total(g, T) <= Total(h, T))}
<1>1. bad = {}
  <2> SUFFICES ASSUME bad # {} PROVE FALSE
    OBVIOUS
  <2>1. PICK T \in bad : \A U \in bad : Cardinality(T) <= Cardinality(U)
    <3>1. \A U \in bad : IsFiniteSet(U)
      BY FS_Subset
    <3> HIDE DEF bad
    <3> QED
      BY <3>1, SmallestSet
  <2>2. T \in SUBSET S /\ IsFiniteSet(T) /\ ~(Total(g, T) <= Total(h, T))
    BY FS_Subset
  <2>3. PICK x \in T : TRUE
    BY <2>2, TotalNone
  <2> DEFINE U == T \ {x}
  <2>4. U \in SUBSET S /\ IsFiniteSet(U) /\ U \notin bad
    <3>1. Cardinality(U) = Cardinality(T) - 1 /\ Cardinality(T) \in Nat
      BY <2>2, <2>3, FS_RemoveElement, FS_CardinalityType
    <3>2. U \in SUBSET S /\ IsFiniteSet(U)
      BY <2>2, FS_Subset
    <3> HIDE DEF bad, U
    <3> QED
      BY <2>1, <3>1, <3>2
  <2>5. Total(g, U) <= Total(h, U)
    BY <2>4
  <2>6. Total(g, T) = g[x] + Total(g, U) /\ Total(h, T) = h[x] + Total(h, U)
    <3>1. \A y \in T : g[y] \in Int /\ h[y] \in Int
      BY <2>2
    <3> QED
      BY <2>2, <2>3, <3>1, TotalWithout
  <2>7. g[x] <= h[x] /\ g[x] \in Int /\ h[x] \in Int
    BY <2>2, <2>3
  <2>8. Total(g, U) \in Int /\ Total(h, U) \in Int
    BY <2>4, TotalInt
  <2> HIDE DEF U, bad
  <2> QED
    BY <2>2, <2>5, <2>6, <2>7, <2>8
<1> QED
  BY <1>1

\* ... and of the same numbers the same.
LEMMA TotalSame ==
  ASSUME NEW g, NEW h, NEW S, IsFiniteSet(S), \A x \in S : g[x] \in Int /\ g[x] = h[x]
  PROVE  Total(g, S) = Total(h, S)
<1>1. Total(g, S) <= Total(h, S) /\ Total(h, S) <= Total(g, S)
  BY TotalLess
<1>2. Total(g, S) \in Int /\ Total(h, S) \in Int
  BY TotalInt
<1> QED
  BY <1>1, <1>2

\* Two sets that have nothing in common add up to the sum of both.
LEMMA TotalUnion ==
  ASSUME NEW g, NEW S, NEW T, IsFiniteSet(S), IsFiniteSet(T), S \cap T = {},
         \A x \in S \cup T : g[x] \in Int
  PROVE  Total(g, S \cup T) = Total(g, S) + Total(g, T)
<1> DEFINE Ok(U) == Total(g, S \cup U) = Total(g, S) + Total(g, U)
           bad == {U \in SUBSET T : ~Ok(U)}
<1>1. bad = {}
  <2> SUFFICES ASSUME bad # {} PROVE FALSE
    OBVIOUS
  <2>1. PICK U \in bad : \A V \in bad : Cardinality(U) <= Cardinality(V)
    <3>1. \A V \in bad : IsFiniteSet(V)
      BY FS_Subset
    <3> HIDE DEF bad
    <3> QED
      BY <3>1, SmallestSet
  <2>2. U \in SUBSET T /\ IsFiniteSet(U) /\ ~Ok(U) /\ Total(g, S) \in Int
    BY FS_Subset, TotalInt
  <2>3. U # {}
    <3> SUFFICES ASSUME U = {} PROVE FALSE
      OBVIOUS
    <3>1. Total(g, S \cup U) = Total(g, S)
      <4>1. S \cup U = S
        OBVIOUS
      <4> QED
        BY <4>1
    <3>2. Total(g, U) = 0
      BY TotalNone
    <3>3. Total(g, S \cup U) # Total(g, S) + Total(g, U)
      BY <2>2
    <3> HIDE DEF bad, Ok
    <3> QED
      BY <2>2, <3>1, <3>2, <3>3
  <2>4. PICK x \in U : TRUE
    BY <2>3
  <2> DEFINE V == U \ {x}  A == S \cup U  B == S \cup V
  <2>5. V \in SUBSET T /\ IsFiniteSet(V) /\ Ok(V)
    <3>1. Cardinality(V) = Cardinality(U) - 1 /\ Cardinality(U) \in Nat
      BY <2>2, <2>4, FS_RemoveElement, FS_CardinalityType
    <3>2. V \in SUBSET T /\ IsFiniteSet(V)
      BY <2>2, FS_Subset
    <3>3. V \notin bad
      <4> HIDE DEF bad, V
      <4> QED
        BY <2>1, <3>1
    <3> QED
      BY <3>2, <3>3
  <2>6. B = A \ {x} /\ x \in A /\ IsFiniteSet(A) /\ \A y \in A : g[y] \in Int
    <3>1. x \notin S
      BY <2>2, <2>4
    <3>2. IsFiniteSet(A)
      BY <2>2, FS_Union
    <3> QED
      BY <2>2, <2>4, <3>1, <3>2
  <2>7. Total(g, V) \in Int /\ g[x] \in Int
    BY <2>2, <2>4, <2>5, TotalInt
  <2>8. Total(g, U) = g[x] + Total(g, V)
    <3>1. \A y \in U : g[y] \in Int
      BY <2>2
    <3> QED
      BY <2>2, <2>4, <3>1, TotalWithout
  <2>9. Total(g, B) = Total(g, S) + Total(g, V) /\ Total(g, A) # Total(g, S) + Total(g, U)
    BY <2>2, <2>5
  <2> HIDE DEF A, B, V, bad, Ok
  <2>10. Total(g, A) = g[x] + Total(g, B)
    BY <2>6, TotalWithout
  <2> QED
    BY <2>2, <2>7, <2>8, <2>9, <2>10
<1>2. Ok(T)
  BY <1>1
<1> QED
  BY <1>2

\* A sum does not change when its terms get other names.
LEMMA TotalRenamed ==
  ASSUME NEW g, NEW S, IsFiniteSet(S), NEW h, NEW b, DOMAIN b = S,
         \A x, y \in S : b[x] = b[y] => x = y,
         \A x \in S : h[x] \in Int /\ g[b[x]] = h[x]
  PROVE  Total(g, {b[x] : x \in S}) = Total(h, S)
<1> DEFINE Ok(U) == Total(g, {b[x] : x \in U}) = Total(h, U)
           bad == {U \in SUBSET S : ~Ok(U)}
<1>1. bad = {}
  <2> SUFFICES ASSUME bad # {} PROVE FALSE
    OBVIOUS
  <2>1. PICK U \in bad : \A V \in bad : Cardinality(U) <= Cardinality(V)
    <3>1. \A V \in bad : IsFiniteSet(V)
      BY FS_Subset
    <3> HIDE DEF bad
    <3> QED
      BY <3>1, SmallestSet
  <2>2. U \in SUBSET S /\ IsFiniteSet(U) /\ ~Ok(U)
    BY FS_Subset
  <2>3. U # {}
    <3>1. {b[x] : x \in {}} = {}
      OBVIOUS
    <3>2. Total(g, {}) = 0 /\ Total(h, {}) = 0
      BY TotalNone
    <3> QED
      BY <2>2, <3>1, <3>2
  <2>4. PICK z \in U : TRUE
    BY <2>3
  <2> DEFINE V == U \ {z}  A == {b[x] : x \in U}  B == {b[x] : x \in V}
  <2>5. V \in SUBSET S /\ IsFiniteSet(V) /\ Ok(V)
    <3>1. Cardinality(V) = Cardinality(U) - 1 /\ Cardinality(U) \in Nat
      BY <2>2, <2>4, FS_RemoveElement, FS_CardinalityType
    <3>2. V \in SUBSET S /\ IsFiniteSet(V)
      BY <2>2, FS_Subset
    <3>3. V \notin bad
      <4> HIDE DEF bad, V
      <4> QED
        BY <2>1, <3>1
    <3> QED
      BY <3>2, <3>3
  <2>6. B = A \ {b[z]} /\ b[z] \in A
    BY <2>2, <2>4
  <2>7. IsFiniteSet(A) /\ \A y \in A : g[y] \in Int
    <3>1. \A y \in A : g[y] \in Int
      BY <2>2
    <3> DEFINE c == [x \in U |-> b[x]]
    <3>2. A = {c[x] : x \in U} /\ DOMAIN c = U
      OBVIOUS
    <3> HIDE DEF c, A
    <3>3. IsFiniteSet({c[x] : x \in U})
      BY <2>2, <3>2, FiniteImage
    <3> QED
      BY <3>1, <3>2, <3>3
  <2>8. Total(h, U) = h[z] + Total(h, V) /\ g[b[z]] = h[z]
    <3>1. \A y \in U : h[y] \in Int
      BY <2>2
    <3> QED
      BY <2>2, <2>4, <3>1, TotalWithout
  <2>9. Total(g, B) = Total(h, V) /\ Total(g, A) # Total(h, U)
    BY <2>2, <2>5
  <2> HIDE DEF A, B, V, bad, Ok
  <2>10. Total(g, A) = g[b[z]] + Total(g, B)
    BY <2>6, <2>7, TotalWithout
  <2> QED
    BY <2>8, <2>9, <2>10
<1>2. Ok(S)
  BY <1>1
<1> QED
  BY <1>2

\* The sum over one element.
LEMMA TotalSingle ==
  ASSUME NEW g, NEW x, g[x] \in Int
  PROVE  Total(g, {x}) = g[x]
<1>1. IsFiniteSet({x}) /\ {x} \ {x} = {}
  BY FS_Singleton
<1>2. Total(g, {x}) = g[x] + Total(g, {x} \ {x})
  BY <1>1, TotalWithout
<1> QED
  BY <1>1, <1>2, TotalNone

\* Opposite numbers add up to the opposite sum.
LEMMA TotalOpposite ==
  ASSUME NEW g, NEW h, NEW S, IsFiniteSet(S), \A x \in S : g[x] \in Int /\ h[x] = -g[x]
  PROVE  Total(h, S) = -Total(g, S)
<1> DEFINE bad == {T \in SUBSET S : Total(h, T) # -Total(g, T)}
<1>1. bad = {}
  <2> SUFFICES ASSUME bad # {} PROVE FALSE
    OBVIOUS
  <2>1. PICK T \in bad : \A U \in bad : Cardinality(T) <= Cardinality(U)
    <3>1. \A U \in bad : IsFiniteSet(U)
      BY FS_Subset
    <3> HIDE DEF bad
    <3> QED
      BY <3>1, SmallestSet
  <2>2. T \in SUBSET S /\ IsFiniteSet(T) /\ Total(h, T) # -Total(g, T)
    BY FS_Subset
  <2>3. PICK x \in T : TRUE
    BY <2>2, TotalNone
  <2> DEFINE U == T \ {x}
  <2>4. U \in SUBSET S /\ IsFiniteSet(U) /\ U \notin bad
    <3>1. Cardinality(U) = Cardinality(T) - 1 /\ Cardinality(T) \in Nat
      BY <2>2, <2>3, FS_RemoveElement, FS_CardinalityType
    <3>2. U \in SUBSET S /\ IsFiniteSet(U)
      BY <2>2, FS_Subset
    <3> HIDE DEF bad, U
    <3> QED
      BY <2>1, <3>1, <3>2
  <2>5. Total(h, U) = -Total(g, U)
    BY <2>4
  <2>6. /\ Total(g, T) = g[x] + Total(g, U) /\ Total(h, T) = h[x] + Total(h, U)
        /\ Total(g, U) \in Int
    <3>1. \A y \in T : g[y] \in Int /\ h[y] \in Int
      BY <2>2
    <3>2. Total(g, T) = g[x] + Total(g, U) /\ Total(h, T) = h[x] + Total(h, U)
      BY <2>2, <2>3, <3>1, TotalWithout
    <3>3. \A y \in U : g[y] \in Int
      BY <3>1
    <3>4. Total(g, U) \in Int
      BY <2>4, <3>3, TotalInt
    <3> QED
      BY <3>2, <3>4
  <2>7. g[x] \in Int /\ h[x] = -g[x]
    BY <2>2, <2>3
  <2> HIDE DEF U, bad
  <2> QED
    BY <2>2, <2>5, <2>6, <2>7
<1> QED
  BY <1>1
=============================================================================
