------------------------------ MODULE Inductions ------------------------------
(***************************************************************************)
(* Induction over numbers and over finite sets in a form that needs no     *)
(* operator as a parameter: the property is given as the set of numbers,   *)
(* or of sets, that have it.  With it, the facts about sums that the       *)
(* traffic counters rest on.                                               *)
(***************************************************************************)
EXTENDS FiniteSetTheorems, TLAPS

\* A set of natural numbers that holds 0 and with each number the next holds
\* all: the least one it does not hold would have a predecessor.
LEMMA NumberInduction ==
  ASSUME NEW T, 0 \in T, \A n \in Nat : n \in T => n + 1 \in T
  PROVE  \A n \in Nat : n \in T
  <1> DEFINE Less == {p \in Nat \X Nat : p[1] < p[2]}
             Missed == {n \in Nat : n \notin T}
  <1> SUFFICES ASSUME Missed # {} PROVE FALSE
    OBVIOUS
  <1>1. IsWellFoundedOn(Less, Nat)
    BY NatLessThanWellFounded DEF OpToRel
  <1>2. \E n \in Missed : \A m \in Missed : <<m, n>> \notin Less
    BY <1>1, WFMin
  <1>3. PICK n \in Missed : \A m \in Missed : <<m, n>> \notin Less
    BY <1>2
  <1>4. n \in Nat /\ n # 0 /\ n - 1 \in Nat /\ (n - 1) + 1 = n
    OBVIOUS
  <1>5. n - 1 \in Missed
    BY <1>4
  <1>6. <<n - 1, n>> \in Less
    BY <1>4
  <1> QED BY <1>3, <1>5, <1>6

LEMMA NotEmpty ==
  ASSUME NEW A, NEW n \in Nat, Cardinality(A) = n + 1
  PROVE  A # {}
  <1>1. Cardinality({}) = 0
    BY FS_EmptySet
  <1> QED BY <1>1

LEMMA WithoutOne ==
  ASSUME NEW A, IsFiniteSet(A), NEW x \in A
  PROVE  /\ IsFiniteSet(A \ {x})
         /\ Cardinality(A \ {x}) = Cardinality(A) - 1
  BY FS_RemoveElement

\* A family of sets that holds the empty one and grows element by element
\* holds every finite set.
LEMMA FiniteInduction ==
  ASSUME NEW S, IsFiniteSet(S), NEW F, {} \in F,
         \A A \in SUBSET S, x \in S : A \in F /\ x \notin A => A \union {x} \in F
  PROVE  S \in F
  <1> DEFINE T == {n \in Nat : \A A \in SUBSET S : Cardinality(A) = n => A \in F}
  <1>1. \A A \in SUBSET S : IsFiniteSet(A) /\ Cardinality(A) \in Nat
    BY FS_Subset, FS_CardinalityType
  <1>2. 0 \in T
    BY <1>1, FS_EmptySet
  <1>3. ASSUME NEW n \in Nat, n \in T PROVE n + 1 \in T
    <2> SUFFICES ASSUME NEW A \in SUBSET S, Cardinality(A) = n + 1 PROVE A \in F
      OBVIOUS
    <2>1. A # {}
      BY NotEmpty
    <2>2. PICK x \in A : TRUE
      BY <2>1
    <2> DEFINE B == A \ {x}
    <2>a. IsFiniteSet(A)
      BY <1>1
    <2>b. Cardinality(B) = Cardinality(A) - 1
      BY <2>a, <2>2, WithoutOne
    <2>3. Cardinality(B) = n /\ B \in SUBSET S
      BY <2>b
    <2>4. B \in F /\ x \notin B /\ B \union {x} = A
      BY <1>3, <2>3
    <2> QED BY <2>3, <2>4
  <1> HIDE DEF T
  <1>4. \A n \in Nat : n \in T
    BY <1>2, <1>3, NumberInduction
  <1> QED BY <1>1, <1>4, FS_CardinalityType DEF T

-----------------------------------------------------------------------------
(* SumFunctionOnSet takes its elements in an order of its own; the sum     *)
(* does not depend on it.                                                  *)

\* One step of the sum, and what the function behind it is on a family of sets.
Adds(w, iter, s) ==
  IF s = {} THEN 0 ELSE LET x == CHOOSE x \in s : TRUE IN w[x] + iter[s \ {x}]
Adding(w, iter, F) == iter = [s \in F |-> Adds(w, iter, s)]
SmallSubsets(S, n) == {s \in SUBSET S : Cardinality(s) <= n}

LEMMA AddingExists ==
  ASSUME NEW w, NEW S, IsFiniteSet(S)
  PROVE  \E f : Adding(w, f, SUBSET S)
  <1> DEFINE T == {n \in Nat : \E f : Adding(w, f, SmallSubsets(S, n))}
  <1>1. \A A \in SUBSET S : IsFiniteSet(A) /\ Cardinality(A) \in Nat
    BY FS_Subset, FS_CardinalityType
  <1>2. 0 \in T
    <2>1. \A s \in SmallSubsets(S, 0) : s = {}
      BY <1>1, FS_EmptySet DEF SmallSubsets
    <2>2. Adding(w, [s \in SmallSubsets(S, 0) |-> 0], SmallSubsets(S, 0))
      BY <2>1 DEF Adding, Adds
    <2> QED BY <2>2
  <1>3. ASSUME NEW n \in Nat, n \in T PROVE n + 1 \in T
    <2>1. PICK f : Adding(w, f, SmallSubsets(S, n))
      BY <1>3
    <2> DEFINE g == [s \in SmallSubsets(S, n + 1) |-> Adds(w, f, s)]
    <2>2. ASSUME NEW s \in SmallSubsets(S, n + 1) PROVE Adds(w, g, s) = Adds(w, f, s)
      <3> SUFFICES ASSUME s # {} PROVE Adds(w, g, s) = Adds(w, f, s)
        BY DEF Adds
      <3> DEFINE x == CHOOSE x \in s : TRUE
                 t == s \ {x}
      <3>1. x \in s
        OBVIOUS
      <3> HIDE DEF x
      <3>2. t \in SUBSET S /\ Cardinality(t) = Cardinality(s) - 1
        BY <1>1, <3>1, FS_RemoveElement DEF SmallSubsets
      <3>3. t \in SmallSubsets(S, n) /\ t \in SmallSubsets(S, n + 1)
        BY <1>1, <3>2 DEF SmallSubsets
      <3>4. g[t] = Adds(w, f, t) /\ f[t] = Adds(w, f, t)
        BY <2>1, <3>3 DEF Adding
      <3> QED BY <3>4 DEF Adds, x
    <2>3. Adding(w, g, SmallSubsets(S, n + 1))
      BY <2>2 DEF Adding
    <2> QED BY <2>3
  <1> HIDE DEF T
  <1>4. Cardinality(S) \in T
    BY <1>1, <1>2, <1>3, NumberInduction
  <1>5. SmallSubsets(S, Cardinality(S)) = SUBSET S
    BY FS_Subset DEF SmallSubsets
  <1> QED BY <1>4, <1>5 DEF T

\* Two such functions agree where both are defined.
LEMMA AddingUnique ==
  ASSUME NEW w, NEW S, NEW A \in SUBSET S, NEW f, NEW g,
         IsFiniteSet(S), Adding(w, f, SUBSET S), Adding(w, g, SUBSET A)
  PROVE  f[A] = g[A]
  <1> DEFINE T == {n \in Nat : \A s \in SUBSET A : Cardinality(s) = n => f[s] = g[s]}
  <1>1. \A s \in SUBSET A : IsFiniteSet(s) /\ Cardinality(s) \in Nat
    BY FS_Subset, FS_CardinalityType
  <1>2. \A s \in SUBSET A : f[s] = Adds(w, f, s) /\ g[s] = Adds(w, g, s)
    BY DEF Adding
  <1>3. 0 \in T
    BY <1>1, <1>2, FS_EmptySet DEF Adds
  <1>4. ASSUME NEW n \in Nat, n \in T PROVE n + 1 \in T
    <2> SUFFICES ASSUME NEW s \in SUBSET A, Cardinality(s) = n + 1 PROVE f[s] = g[s]
      OBVIOUS
    <2> DEFINE x == CHOOSE x \in s : TRUE
               t == s \ {x}
    <2>1. s # {}
      BY NotEmpty
    <2>2. x \in s
      BY <2>1
    <2> HIDE DEF x
    <2>3. t \in SUBSET A /\ Cardinality(t) = n
      BY <1>1, <2>2, WithoutOne
    <2>4. f[t] = g[t]
      BY <1>4, <2>3
    <2> QED BY <1>2, <2>1, <2>4 DEF Adds, x
  <1> HIDE DEF T
  <1>5. Cardinality(A) \in T
    BY <1>1, <1>3, <1>4, NumberInduction
  <1> QED BY <1>5 DEF T

LEMMA SumIs ==
  ASSUME NEW w, NEW S, IsFiniteSet(S)
  PROVE  \E f : Adding(w, f, SUBSET S) /\ SumFunctionOnSet(w, S) = f[S]
  <1> DEFINE f == CHOOSE f : Adding(w, f, SUBSET S)
  <1>1. Adding(w, f, SUBSET S)
    BY AddingExists
  <1>2. SumFunctionOnSet(w, S) = f[S]
    BY DEF SumFunctionOnSet, FoldFunctionOnSet, MapThenFoldSet, Adding, Adds
  <1> QED BY <1>1, <1>2

LEMMA SumEmpty == ASSUME NEW w PROVE SumFunctionOnSet(w, {}) = 0
  <1>1. IsFiniteSet({})
    BY FS_EmptySet
  <1>2. PICK f : Adding(w, f, SUBSET {}) /\ SumFunctionOnSet(w, {}) = f[{}]
    BY <1>1, SumIs
  <1> QED BY <1>2 DEF Adding, Adds

\* The sum takes out the element that CHOOSE picks.
LEMMA SumChosen ==
  ASSUME NEW w, NEW S, IsFiniteSet(S), S # {}
  PROVE  \E x \in S : SumFunctionOnSet(w, S) = w[x] + SumFunctionOnSet(w, S \ {x})
  <1> DEFINE x == CHOOSE x \in S : TRUE
  <1>1. x \in S
    OBVIOUS
  <1>2. PICK f : Adding(w, f, SUBSET S) /\ SumFunctionOnSet(w, S) = f[S]
    BY SumIs
  <1>3. f[S] = w[x] + f[S \ {x}]
    BY <1>2 DEF Adding, Adds
  <1> HIDE DEF x
  <1>4. ASSUME NEW A \in SUBSET S PROVE f[A] = SumFunctionOnSet(w, A)
    <2>1. IsFiniteSet(A)
      BY FS_Subset
    <2>2. PICK g : Adding(w, g, SUBSET A) /\ SumFunctionOnSet(w, A) = g[A]
      BY <2>1, SumIs
    <2>3. Adding(w, f, SUBSET S) /\ Adding(w, g, SUBSET A)
      BY <1>2, <2>2
    <2>4. f[A] = g[A]
      BY <2>3, AddingUnique
    <2> QED BY <2>2, <2>4
  <1> QED BY <1>1, <1>2, <1>3, <1>4

\* Whichever element is added last, the sum grows by what it weighs.
LEMMA SumAdd ==
  ASSUME NEW w, NEW S, IsFiniteSet(S), NEW y, y \notin S,
         \A x \in S \union {y} : w[x] \in Int
  PROVE  /\ SumFunctionOnSet(w, S) \in Int
         /\ SumFunctionOnSet(w, S \union {y}) = w[y] + SumFunctionOnSet(w, S)
  <1> DEFINE U == S \union {y}
             Sum(A) == SumFunctionOnSet(w, A)
             Right(A) == Sum(A) \in Int /\ \A z \in A : Sum(A) = w[z] + Sum(A \ {z})
             T == {n \in Nat : \A A \in SUBSET U : Cardinality(A) <= n => Right(A)}
  <1>1. IsFiniteSet(U)
    BY FS_AddElement
  <1>2. \A A \in SUBSET U : IsFiniteSet(A) /\ Cardinality(A) \in Nat
    BY <1>1, FS_Subset, FS_CardinalityType
  <1> HIDE DEF Sum
  <1>0. Right({})
    BY SumEmpty DEF Sum
  <1>3. 0 \in T
    BY <1>0, <1>2, FS_EmptySet
  <1>4. ASSUME NEW n \in Nat, n \in T PROVE n + 1 \in T
    <2> SUFFICES ASSUME NEW A \in SUBSET U, Cardinality(A) <= n + 1, A # {}
                 PROVE  Right(A)
      BY <1>0
    <2>1. PICK x \in A : Sum(A) = w[x] + Sum(A \ {x})
      BY <1>2, SumChosen DEF Sum
    <2>2. \A z \in A : A \ {z} \in SUBSET U /\ Cardinality(A \ {z}) <= n
      BY <1>2, WithoutOne
    <2>3. \A z \in A : Right(A \ {z}) /\ w[z] \in Int
      BY <1>4, <2>2
    <2>4. Sum(A) \in Int
      BY <2>1, <2>3
    <2>5. ASSUME NEW z \in A, z # x PROVE Sum(A) = w[z] + Sum(A \ {z})
      <3> DEFINE R == A \ {x, z}
                 p == Sum(A \ {x})
                 q == Sum(A \ {z})
                 r == Sum(R)
      <3>1. /\ (A \ {x}) \ {z} = R /\ z \in A \ {x}
            /\ (A \ {z}) \ {x} = R /\ x \in A \ {z}
        BY <2>5
      <3>2. p = w[z] + r /\ q = w[x] + r
        BY <2>3, <3>1
      <3>3. IsFiniteSet(A \ {x})
        BY <1>2, <2>2
      <3>4. Cardinality(R) <= n /\ R \in SUBSET U
        <4>1. Cardinality((A \ {x}) \ {z}) <= Cardinality(A \ {x})
          BY <3>3, FS_Subset
        <4> QED BY <1>2, <2>2, <3>1, <4>1
      <3>5. r \in Int
        BY <1>4, <3>4
      <3>6. Sum(A) = w[x] + p /\ w[x] \in Int /\ w[z] \in Int
        BY <2>1, <2>3
      <3> HIDE DEF p, q, r
      <3>7. Sum(A) = w[z] + q
        BY <3>2, <3>5, <3>6
      <3> QED BY <3>7 DEF q
    <2> QED BY <2>1, <2>4, <2>5
  <1> HIDE DEF T
  <1>5. \A n \in Nat : n \in T
    BY <1>3, <1>4, NumberInduction
  <1>6. U \ {y} = S
    OBVIOUS
  <1>7. Right(S) /\ Right(U)
    BY <1>2, <1>5 DEF T
  <1> QED BY <1>6, <1>7 DEF Sum

\* A sum depends on the weights of its elements only.
LEMMA SumSame ==
  ASSUME NEW w, NEW v, NEW S, IsFiniteSet(S),
         \A x \in S : w[x] \in Int /\ v[x] = w[x]
  PROVE  SumFunctionOnSet(v, S) = SumFunctionOnSet(w, S)
  <1> DEFINE F == {A \in SUBSET S : SumFunctionOnSet(v, A) = SumFunctionOnSet(w, A)}
  <1>1. {} \in F
    BY SumEmpty
  <1>2. ASSUME NEW A \in SUBSET S, NEW x \in S, A \in F, x \notin A
        PROVE  A \union {x} \in F
    <2>1. IsFiniteSet(A)
      BY FS_Subset
    <2>2. SumFunctionOnSet(w, A \union {x}) = w[x] + SumFunctionOnSet(w, A)
      BY <1>2, <2>1, SumAdd
    <2>3. SumFunctionOnSet(v, A \union {x}) = v[x] + SumFunctionOnSet(v, A)
      BY <1>2, <2>1, SumAdd
    <2> QED BY <1>2, <2>2, <2>3
  <1> HIDE DEF F
  <1>3. S \in F
    BY <1>1, <1>2, FiniteInduction
  <1> QED BY <1>3 DEF F
===============================================================================
