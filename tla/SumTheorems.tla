----------------------------- MODULE SumTheorems -----------------------------
(***************************************************************************)
(* Sums over finite sets and induction over the naturals, for the proofs   *)
(* about ledgers and counters.  Induction is by sets: the properties that  *)
(* are proved by it are memberships.                                       *)
(***************************************************************************)
EXTENDS Functions, FiniteSetTheorems, WellFoundedInduction, TLAPS

\* A set that holds 0 and the successors of its members holds every natural.
LEMMA NatSetInduction ==
    ASSUME NEW S, 0 \in S, \A n \in Nat : n \in S => n + 1 \in S PROVE \A n \in Nat : n \in S
  <1> DEFINE T == {n \in Nat : n \notin S}
             R == OpToRel(<, Nat)
  <1>1. SUFFICES ASSUME T # {} PROVE FALSE  OBVIOUS
  <1>2. IsWellFoundedOn(R, Nat)  BY NatLessThanWellFounded
  <1>3. PICK x \in T : \A y \in T : ~ (<<y, x>> \in R)
    <2>1. T \subseteq Nat  OBVIOUS
    <2> HIDE DEF R, T
    <2>2. QED  BY <1>1, <1>2, <2>1, WFMin
  <1>4. x \in Nat /\ x \notin S  BY <1>3
  <1>5. ASSUME x # 0 PROVE x - 1 \notin T
    <2>1. <<x - 1, x>> \in R  BY <1>4, <1>5 DEF OpToRel
    <2>2. QED  BY <1>3, <2>1
  <1> HIDE DEF R
  <1>6. x # 0  BY <1>4
  <1>7. x - 1 \in Nat /\ (x - 1) + 1 = x  BY <1>4, <1>6
  <1>8. x - 1 \in S  BY <1>5, <1>6, <1>7
  <1>9. QED  BY <1>4, <1>7, <1>8

-----------------------------------------------------------------------------
(* SumFunctionOnSet *)

\* sum is the table of partial sums of f that the definition of SumFunctionOnSet
\* chooses, for the sets in D.
IsTable(sum, f, D) ==
    sum = [s \in D |-> IF s = {} THEN 0
                       ELSE f[CHOOSE x \in s : TRUE] + sum[s \ {CHOOSE x \in s : TRUE}]]

\* SumFunctionOnSet, with its table over all subsets named.
LEMMA SumByTable ==
    ASSUME NEW f, NEW S
    PROVE  SumFunctionOnSet(f, S) = (CHOOSE sum : IsTable(sum, f, SUBSET S))[S]
  BY DEF SumFunctionOnSet, FoldFunctionOnSet, MapThenFoldSet, IsTable

\* The table exists: it can be built up by the size of the sets.
LEMMA TableExists ==
    ASSUME NEW S, IsFiniteSet(S), NEW f, \A x \in S : f[x] \in Int
    PROVE  \E sum \in [SUBSET S -> Int] : IsTable(sum, f, SUBSET S)
  <1> DEFINE Upto(n) == {s \in SUBSET S : Cardinality(s) <= n}
             N == {n \in Nat : \E sum \in [Upto(n) -> Int] : IsTable(sum, f, Upto(n))}
  <1>1. \A s \in SUBSET S : IsFiniteSet(s) /\ Cardinality(s) \in Nat
    BY FS_Subset, FS_CardinalityType
  <1>2. ASSUME NEW s \in SUBSET S, s # {}
        PROVE  LET x == CHOOSE x \in s : TRUE
               IN  /\ x \in s /\ f[x] \in Int /\ s \ {x} \in SUBSET S
                   /\ Cardinality(s \ {x}) = Cardinality(s) - 1
    <2> DEFINE x == CHOOSE x \in s : TRUE
    <2>1. x \in s  BY <1>2
    <2>2. f[x] \in Int  BY <2>1
    <2>3. Cardinality(s \ {x}) = Cardinality(s) - 1  BY <1>1, <2>1, FS_RemoveElement
    <2>4. QED  BY <2>1, <2>2, <2>3
  <1>3. 0 \in N
    <2> DEFINE sum == [s \in Upto(0) |-> 0]
    <2>1. \A s \in Upto(0) : s = {}  BY <1>1, FS_EmptySet
    <2>2. IsTable(sum, f, Upto(0))  BY <2>1 DEF IsTable
    <2>3. sum \in [Upto(0) -> Int]  OBVIOUS
    <2>4. QED  BY <2>2, <2>3
  <1>4. ASSUME NEW n \in Nat, n \in N PROVE n + 1 \in N
    <2>1. PICK old \in [Upto(n) -> Int] : IsTable(old, f, Upto(n))  BY <1>4
    <2> DEFINE x(s) == CHOOSE y \in s : TRUE
               new == [s \in Upto(n + 1) |-> IF s = {} THEN 0 ELSE f[x(s)] + old[s \ {x(s)}]]
    <2>2. ASSUME NEW s \in Upto(n + 1), s # {}
          PROVE  s \ {x(s)} \in Upto(n) /\ f[x(s)] \in Int /\ old[s \ {x(s)}] \in Int
      <3>1. s \ {x(s)} \in Upto(n)  BY <1>1, <1>2, <2>2
      <3>2. f[x(s)] \in Int  BY <1>2, <2>2
      <3>3. QED  BY <2>1, <3>1, <3>2
    <2>3. new \in [Upto(n + 1) -> Int]  BY <2>2
    <2>4. ASSUME NEW s \in Upto(n) PROVE s \in Upto(n + 1) /\ new[s] = old[s]
      <3>1. s \in Upto(n + 1)  BY <1>1
      <3>2. old[s] = IF s = {} THEN 0 ELSE f[x(s)] + old[s \ {x(s)}]  BY <2>1 DEF IsTable
      <3>3. QED  BY <3>1, <3>2
    <2>5. ASSUME NEW s \in Upto(n + 1)
          PROVE  new[s] = IF s = {} THEN 0 ELSE f[x(s)] + new[s \ {x(s)}]
      <3>1. s # {} => new[s \ {x(s)}] = old[s \ {x(s)}]  BY <2>2, <2>4
      <3>2. new[s] = IF s = {} THEN 0 ELSE f[x(s)] + old[s \ {x(s)}]  OBVIOUS
      <3>3. QED  BY <3>1, <3>2
    <2>6. new = [s \in Upto(n + 1) |-> new[s]]  OBVIOUS
    <2> HIDE DEF new
    <2>7. new = [s \in Upto(n + 1) |-> IF s = {} THEN 0 ELSE f[x(s)] + new[s \ {x(s)}]]
      BY <2>5, <2>6
    <2>8. IsTable(new, f, Upto(n + 1))  BY <2>7 DEF IsTable
    <2>9. \E sum \in [Upto(n + 1) -> Int] : IsTable(sum, f, Upto(n + 1))  BY <2>3, <2>8
    <2>10. n + 1 \in Nat  OBVIOUS
    <2> HIDE DEF Upto
    <2>11. QED  BY <2>9, <2>10
  <1>5. Cardinality(S) \in N
    <2>1. Cardinality(S) \in Nat  BY FS_CardinalityType
    <2> HIDE DEF N
    <2>2. QED  BY <1>3, <1>4, <2>1, NatSetInduction
  <1>6. Upto(Cardinality(S)) = SUBSET S  BY FS_Subset
  <1>7. QED  BY <1>5, <1>6

Agree(f, g, T) == \A x \in T : f[x] = g[x]

\* It is determined by the values of f, on every subset.
LEMMA TableUnique ==
    ASSUME NEW S, IsFiniteSet(S), NEW T \in SUBSET S,
           NEW f, NEW g, Agree(f, g, T),
           NEW a, IsTable(a, f, SUBSET T), NEW b, IsTable(b, g, SUBSET S)
    PROVE  \A s \in SUBSET T : a[s] = b[s]
  <1> DEFINE x(s) == CHOOSE y \in s : TRUE
             N == {n \in Nat : \A s \in SUBSET T : Cardinality(s) <= n => a[s] = b[s]}
  <1>a. ASSUME NEW s \in SUBSET T PROVE IsFiniteSet(s) /\ Cardinality(s) \in Nat
    <2>1. s \in SUBSET S  OBVIOUS
    <2>2. QED  BY <2>1, FS_Subset, FS_CardinalityType
  <1>1. ASSUME NEW s \in SUBSET T
        PROVE  /\ a[s] = IF s = {} THEN 0 ELSE f[x(s)] + a[s \ {x(s)}]
               /\ b[s] = IF s = {} THEN 0 ELSE g[x(s)] + b[s \ {x(s)}]
    <2>1. s \in SUBSET S  OBVIOUS
    <2>2. a[s] = IF s = {} THEN 0 ELSE f[x(s)] + a[s \ {x(s)}]  BY DEF IsTable
    <2>3. b[s] = IF s = {} THEN 0 ELSE g[x(s)] + b[s \ {x(s)}]  BY <2>1 DEF IsTable
    <2>4. QED  BY <2>2, <2>3
  <1>2. 0 \in N
    <2>1. ASSUME NEW s \in SUBSET T, Cardinality(s) <= 0 PROVE a[s] = b[s]
      <3>1. s = {}  BY <1>a, <2>1, FS_EmptySet
      <3>2. QED  BY <1>1, <3>1
    <2>2. QED  BY <2>1
  <1>3. ASSUME NEW n \in Nat, n \in N PROVE n + 1 \in N
    <2>1. ASSUME NEW s \in SUBSET T, Cardinality(s) <= n + 1 PROVE a[s] = b[s]
      <3>1. CASE s = {}  BY <1>1, <3>1
      <3>2. CASE s # {}
        <4>1. x(s) \in s  BY <3>2
        <4>2. Cardinality(s \ {x(s)}) = Cardinality(s) - 1  BY <1>a, <4>1, FS_RemoveElement
        <4>3. s \ {x(s)} \in SUBSET T /\ Cardinality(s \ {x(s)}) <= n
          BY <1>a, <2>1, <4>2
        <4>4. a[s \ {x(s)}] = b[s \ {x(s)}]  BY <1>3, <4>3
        <4>5. f[x(s)] = g[x(s)]  BY <4>1 DEF Agree
        <4>6. QED  BY <1>1, <3>2, <4>4, <4>5
      <3>3. QED  BY <3>1, <3>2
    <2>2. n + 1 \in Nat  OBVIOUS
    <2>3. QED  BY <2>1, <2>2
  <1>4. ASSUME NEW s \in SUBSET T PROVE a[s] = b[s]
    <2>1. Cardinality(s) \in Nat /\ Cardinality(s) <= Cardinality(s)  BY <1>a
    <2>2. Cardinality(s) \in N
      <3> HIDE DEF N
      <3>1. QED  BY <1>2, <1>3, <2>1, NatSetInduction
    <2>3. QED  BY <2>1, <2>2
  <1>5. QED  BY <1>4

Summable(f, S) == IsFiniteSet(S) /\ \A x \in S : f[x] \in Int

HoldsSums(sum, f, S) == /\ sum \in [SUBSET S -> Int]
                        /\ IsTable(sum, f, SUBSET S)
                        /\ \A T \in SUBSET S : SumFunctionOnSet(f, T) = sum[T]

\* The sums over all subsets of S are the entries of one table.
LEMMA SumsByTable == ASSUME NEW S, NEW f, Summable(f, S) PROVE \E sum : HoldsSums(sum, f, S)
  <1>0. IsFiniteSet(S) /\ \A x \in S : f[x] \in Int  BY DEF Summable
  <1>1. PICK sum \in [SUBSET S -> Int] : IsTable(sum, f, SUBSET S)  BY <1>0, TableExists
  <1>2. ASSUME NEW T \in SUBSET S PROVE SumFunctionOnSet(f, T) = sum[T]
    <2> DEFINE c == CHOOSE tab : IsTable(tab, f, SUBSET T)
    <2>1. IsFiniteSet(T) /\ \A x \in T : f[x] \in Int  BY <1>0, FS_Subset
    <2>2. \E tab : IsTable(tab, f, SUBSET T)  BY <2>1, TableExists
    <2>3. IsTable(c, f, SUBSET T)  BY <2>2
    <2>4. SumFunctionOnSet(f, T) = c[T]  BY SumByTable
    <2> HIDE DEF c
    <2>5. Agree(f, f, T)  BY DEF Agree
    <2>6. \A s \in SUBSET T : c[s] = sum[s]
      <3>1. IsFiniteSet(S) /\ IsTable(sum, f, SUBSET S)  BY <1>0, <1>1
      <3>2. QED  BY <2>3, <2>5, <3>1, TableUnique
    <2>7. QED  BY <2>4, <2>6
  <1>3. QED  BY <1>1, <1>2 DEF HoldsSums

\* A sum of integers is an integer, and nothing adds up to 0.
LEMMA SumType == ASSUME NEW S, NEW f, Summable(f, S) PROVE SumFunctionOnSet(f, S) \in Int
  <1>1. PICK sum : HoldsSums(sum, f, S)  BY SumsByTable
  <1>2. QED  BY <1>1 DEF HoldsSums

\* The empty sum.
LEMMA SumEmpty == ASSUME NEW f PROVE SumFunctionOnSet(f, {}) = 0
  <1>1. Summable(f, {})  BY FS_EmptySet DEF Summable
  <1>2. PICK sum : HoldsSums(sum, f, {})  BY <1>1, SumsByTable
  <1>3. sum[{}] = 0  BY <1>2 DEF HoldsSums, IsTable
  <1>4. QED  BY <1>2, <1>3 DEF HoldsSums

\* Functions that agree on S have the same sum there.
LEMMA SumSame ==
    ASSUME NEW S, NEW f, Summable(f, S), NEW g, Agree(f, g, S)
    PROVE  SumFunctionOnSet(f, S) = SumFunctionOnSet(g, S)
  <1>1. Summable(g, S)  BY DEF Summable, Agree
  <1>2. PICK a : HoldsSums(a, f, S)  BY SumsByTable
  <1>3. PICK b : HoldsSums(b, g, S)  BY <1>1, SumsByTable
  <1>4. /\ IsFiniteSet(S) /\ S \in SUBSET S
        /\ IsTable(a, f, SUBSET S) /\ IsTable(b, g, SUBSET S)
    BY <1>2, <1>3 DEF HoldsSums, Summable
  <1>5. \A s \in SUBSET S : a[s] = b[s]  BY <1>4, TableUnique
  <1>6. QED  BY <1>2, <1>3, <1>5 DEF HoldsSums

\* The order in which the elements are added does not matter.
LEMMA SumRemove ==
    ASSUME NEW S, NEW f, Summable(f, S), NEW y \in S
    PROVE  SumFunctionOnSet(f, S) = SumFunctionOnSet(f, S \ {y}) + f[y]
  <1>0. IsFiniteSet(S) /\ \A x \in S : f[x] \in Int  BY DEF Summable
  <1>1. PICK sum : HoldsSums(sum, f, S)  BY SumsByTable
  <1>a. sum \in [SUBSET S -> Int] /\ IsTable(sum, f, SUBSET S)  BY <1>1 DEF HoldsSums
  <1> DEFINE x(s) == CHOOSE z \in s : TRUE
             N == {n \in Nat : \A s \in SUBSET S : Cardinality(s) <= n =>
                                  \A z \in s : sum[s] = sum[s \ {z}] + f[z]}
  <1>2. \A s \in SUBSET S : IsFiniteSet(s) /\ Cardinality(s) \in Nat
    BY <1>0, FS_Subset, FS_CardinalityType
  <1>3. ASSUME NEW s \in SUBSET S, s # {}
        PROVE  x(s) \in s /\ sum[s] = f[x(s)] + sum[s \ {x(s)}]
    BY <1>a, <1>3 DEF IsTable
  <1>4. 0 \in N
    <2>1. ASSUME NEW s \in SUBSET S, Cardinality(s) <= 0 PROVE s = {}
      BY <1>2, <2>1, FS_EmptySet
    <2>2. QED  BY <2>1
  <1>5. ASSUME NEW n \in Nat, n \in N PROVE n + 1 \in N
    <2>1. ASSUME NEW s \in SUBSET S, Cardinality(s) <= n + 1, NEW z \in s
          PROVE  sum[s] = sum[s \ {z}] + f[z]
      <3> DEFINE c == x(s)
      <3>1. c \in s /\ sum[s] = f[c] + sum[s \ {c}] /\ f[c] \in Int /\ f[z] \in Int
        BY <1>0, <1>3, <2>1
      <3> HIDE DEF c
      <3>2. CASE c = z
        <4>1. sum[s \ {c}] \in Int  BY <1>a
        <4>2. QED  BY <3>1, <3>2, <4>1
      <3>3. CASE c # z
        <4>1. /\ s \ {c} \in SUBSET S /\ s \ {z} \in SUBSET S
              /\ z \in s \ {c} /\ c \in s \ {z}
          BY <3>1, <3>3
        <4>2. Cardinality(s \ {c}) <= n /\ Cardinality(s \ {z}) <= n
          BY <1>2, <2>1, <3>1, FS_RemoveElement
        <4>3. sum[s \ {c}] = sum[(s \ {c}) \ {z}] + f[z]  BY <1>5, <4>1, <4>2
        <4>4. sum[s \ {z}] = sum[(s \ {z}) \ {c}] + f[c]  BY <1>5, <4>1, <4>2
        <4>5. (s \ {c}) \ {z} = (s \ {z}) \ {c}  OBVIOUS
        <4>6. (s \ {z}) \ {c} \in SUBSET S  BY <4>1
        <4>7. sum[(s \ {z}) \ {c}] \in Int  BY <1>a, <4>6
        <4>8. ASSUME NEW u \in Int, NEW v \in Int, NEW w \in Int, NEW p, NEW q,
                     p = v + q, q = u + w
              PROVE  p = (u + v) + w
          BY <4>8
        <4>9. sum[s \ {c}] = sum[(s \ {z}) \ {c}] + f[z]  BY <4>3, <4>5
        <4>10. sum[s] = (sum[(s \ {z}) \ {c}] + f[c]) + f[z]  BY <3>1, <4>7, <4>8, <4>9
        <4>11. QED  BY <4>4, <4>10
      <3>4. QED  BY <3>2, <3>3
    <2>2. n + 1 \in Nat  OBVIOUS
    <2>3. QED  BY <2>1, <2>2
  <1>6. Cardinality(S) \in N
    <2>1. Cardinality(S) \in Nat  BY <1>2
    <2> HIDE DEF N
    <2>2. QED  BY <1>4, <1>5, <2>1, NatSetInduction
  <1>7. sum[S] = sum[S \ {y}] + f[y]  BY <1>2, <1>6
  <1>8. QED  BY <1>1, <1>7 DEF HoldsSums

\* One more element adds its value.
LEMMA SumAdd ==
    ASSUME NEW S, NEW f, Summable(f, S), NEW y, y \notin S, f[y] \in Int
    PROVE  /\ Summable(f, S \cup {y})
           /\ SumFunctionOnSet(f, S \cup {y}) = SumFunctionOnSet(f, S) + f[y]
  <1>1. Summable(f, S \cup {y})  BY FS_AddElement DEF Summable
  <1>2. (S \cup {y}) \ {y} = S  OBVIOUS
  <1>3. SumFunctionOnSet(f, S \cup {y}) = SumFunctionOnSet(f, (S \cup {y}) \ {y}) + f[y]
    BY <1>1, SumRemove
  <1>4. QED  BY <1>1, <1>2, <1>3

\* The same for a function that is extended, or changed outside S, at the same time.
LEMMA SumExtend ==
    ASSUME NEW S, NEW f, Summable(f, S), NEW g, Agree(f, g, S),
           NEW y, y \notin S, g[y] \in Int
    PROVE  /\ Summable(g, S \cup {y})
           /\ SumFunctionOnSet(g, S \cup {y}) = SumFunctionOnSet(f, S) + g[y]
  <1>1. Summable(g, S)  BY DEF Summable, Agree
  <1>2. SumFunctionOnSet(f, S) = SumFunctionOnSet(g, S)  BY SumSame
  <1>3. QED  BY <1>1, <1>2, SumAdd

\* A constant adds up to itself times the size of the set.
LEMMA SumConstant ==
    ASSUME NEW S, IsFiniteSet(S), NEW f, NEW k \in Int, \A x \in S : f[x] = k
    PROVE  SumFunctionOnSet(f, S) = k * Cardinality(S)
  <1> DEFINE N == {n \in Nat : \A s \in SUBSET S : Cardinality(s) = n => SumFunctionOnSet(f, s) = k * n}
  <1>1. \A s \in SUBSET S : IsFiniteSet(s) /\ Cardinality(s) \in Nat /\ Summable(f, s)
    BY FS_Subset, FS_CardinalityType DEF Summable
  <1>2. 0 \in N
    <2>1. ASSUME NEW s \in SUBSET S, Cardinality(s) = 0 PROVE SumFunctionOnSet(f, s) = k * 0
      <3>1. s = {}  BY <1>1, <2>1, FS_EmptySet
      <3>2. SumFunctionOnSet(f, s) = 0  BY <3>1, SumEmpty
      <3>3. QED  BY <3>2
    <2>2. QED  BY <2>1
  <1>3. ASSUME NEW n \in Nat, n \in N PROVE n + 1 \in N
    <2>1. ASSUME NEW s \in SUBSET S, Cardinality(s) = n + 1 PROVE SumFunctionOnSet(f, s) = k * (n + 1)
      <3>1. s # {}  BY <2>1, FS_EmptySet
      <3>2. PICK y \in s : TRUE  BY <3>1
      <3>3. s \ {y} \in SUBSET S /\ Cardinality(s \ {y}) = n
        <4>1. Cardinality(s \ {y}) = Cardinality(s) - 1  BY <1>1, FS_RemoveElement
        <4>2. QED  BY <2>1, <4>1
      <3>4. SumFunctionOnSet(f, s \ {y}) = k * n  BY <1>3, <3>3
      <3>5. SumFunctionOnSet(f, s) = SumFunctionOnSet(f, s \ {y}) + f[y]  BY <1>1, SumRemove
      <3>6. f[y] = k /\ k * n + k = k * (n + 1)  OBVIOUS
      <3>7. QED  BY <3>4, <3>5, <3>6
    <2>2. n + 1 \in Nat  OBVIOUS
    <2>3. QED  BY <2>1, <2>2
  <1>4. Cardinality(S) \in N
    <2>1. Cardinality(S) \in Nat  BY <1>1
    <2> HIDE DEF N
    <2>2. QED  BY <1>2, <1>3, <2>1, NatSetInduction
  <1>5. QED  BY <1>1, <1>4

\* A sum of naturals.
Countable(f, S) == IsFiniteSet(S) /\ \A x \in S : f[x] \in Nat

\* It is one.
LEMMA SumNat ==
    ASSUME NEW S, NEW f, Countable(f, S) PROVE Summable(f, S) /\ SumFunctionOnSet(f, S) \in Nat
  <1> DEFINE N == {n \in Nat : \A s \in SUBSET S : Cardinality(s) = n => SumFunctionOnSet(f, s) \in Nat}
  <1>1. \A s \in SUBSET S : IsFiniteSet(s) /\ Cardinality(s) \in Nat /\ Summable(f, s)
    BY FS_Subset, FS_CardinalityType DEF Summable, Countable
  <1>2. 0 \in N
    <2>1. ASSUME NEW s \in SUBSET S, Cardinality(s) = 0 PROVE SumFunctionOnSet(f, s) \in Nat
      <3>1. s = {}  BY <1>1, <2>1, FS_EmptySet
      <3>2. SumFunctionOnSet(f, s) = 0  BY <3>1, SumEmpty
      <3>3. QED  BY <3>2
    <2>2. QED  BY <2>1
  <1>3. ASSUME NEW n \in Nat, n \in N PROVE n + 1 \in N
    <2>1. ASSUME NEW s \in SUBSET S, Cardinality(s) = n + 1 PROVE SumFunctionOnSet(f, s) \in Nat
      <3>1. s # {}  BY <2>1, FS_EmptySet
      <3>2. PICK y \in s : TRUE  BY <3>1
      <3>3. s \ {y} \in SUBSET S /\ Cardinality(s \ {y}) = n
        <4>1. Cardinality(s \ {y}) = Cardinality(s) - 1  BY <1>1, FS_RemoveElement
        <4>2. QED  BY <2>1, <4>1
      <3>4. SumFunctionOnSet(f, s \ {y}) \in Nat  BY <1>3, <3>3
      <3>5. SumFunctionOnSet(f, s) = SumFunctionOnSet(f, s \ {y}) + f[y]  BY <1>1, SumRemove
      <3>6. f[y] \in Nat  BY DEF Countable
      <3>7. QED  BY <3>4, <3>5, <3>6
    <2>2. n + 1 \in Nat  OBVIOUS
    <2>3. QED  BY <2>1, <2>2
  <1>4. Cardinality(S) \in N
    <2>1. Cardinality(S) \in Nat  BY <1>1
    <2> HIDE DEF N
    <2>2. QED  BY <1>2, <1>3, <2>1, NatSetInduction
  <1>5. QED  BY <1>1, <1>4

\* The sum without y, of a function that may have changed there.
LEMMA SumDrop ==
    ASSUME NEW S, NEW f, Countable(f, S), NEW g, NEW y, Agree(g, f, S \ {y})
    PROVE  /\ Countable(g, S \ {y}) /\ SumFunctionOnSet(g, S \ {y}) \in Nat
           /\ y \in S => SumFunctionOnSet(f, S) = SumFunctionOnSet(g, S \ {y}) + f[y]
           /\ y \notin S => SumFunctionOnSet(f, S) = SumFunctionOnSet(g, S \ {y})
  <1>1. IsFiniteSet(S \ {y})  BY FS_Subset DEF Countable
  <1>2. Countable(f, S \ {y}) /\ Countable(g, S \ {y}) /\ Agree(g, f, S \ {y})
    BY <1>1 DEF Countable, Agree
  <1>3. SumFunctionOnSet(g, S \ {y}) = SumFunctionOnSet(f, S \ {y})  BY <1>2, SumNat, SumSame
  <1>4. SumFunctionOnSet(g, S \ {y}) \in Nat  BY <1>2, SumNat
  <1>5. CASE y \in S
    <2>1. SumFunctionOnSet(f, S) = SumFunctionOnSet(f, S \ {y}) + f[y]  BY <1>5, SumNat, SumRemove
    <2>2. QED  BY <1>2, <1>3, <1>4, <1>5, <2>1
  <1>6. CASE y \notin S
    <2>1. S \ {y} = S  BY <1>6
    <2>2. SumFunctionOnSet(f, S) = SumFunctionOnSet(g, S \ {y})  BY <1>3, <2>1
    <2>3. QED  BY <1>2, <1>4, <1>6, <2>2
  <1>7. QED  BY <1>5, <1>6

\* The sum with another value at y.
LEMMA SumPut ==
    ASSUME NEW S, NEW f, Countable(f, S), NEW g, NEW y, Agree(g, f, S \ {y}), g[y] \in Nat
    PROVE  /\ Countable(g, S \cup {y}) /\ SumFunctionOnSet(g, S \cup {y}) \in Nat
           /\ y \in S => SumFunctionOnSet(g, S \cup {y}) + f[y] = SumFunctionOnSet(f, S) + g[y]
           /\ SumFunctionOnSet(g, S \cup {y}) <= SumFunctionOnSet(f, S) + g[y]
  <1>1. /\ Countable(g, S \ {y}) /\ SumFunctionOnSet(g, S \ {y}) \in Nat
        /\ y \in S => SumFunctionOnSet(f, S) = SumFunctionOnSet(g, S \ {y}) + f[y]
        /\ y \notin S => SumFunctionOnSet(f, S) = SumFunctionOnSet(g, S \ {y})
    BY SumDrop
  <1>2. S \cup {y} = (S \ {y}) \cup {y} /\ y \notin S \ {y}  OBVIOUS
  <1>3. Countable(g, S \cup {y})  BY FS_AddElement DEF Countable, Agree
  <1>4. SumFunctionOnSet(g, (S \ {y}) \cup {y}) = SumFunctionOnSet(g, S \ {y}) + g[y]
    BY <1>1, <1>2, SumNat, SumAdd
  <1>5. SumFunctionOnSet(g, S \cup {y}) = SumFunctionOnSet(g, S \ {y}) + g[y]  BY <1>2, <1>4
  <1>6. y \in S => f[y] \in Nat  BY DEF Countable
  <1>7. CASE y \in S  BY <1>1, <1>3, <1>5, <1>6, <1>7
  <1>8. CASE y \notin S  BY <1>1, <1>3, <1>5, <1>8
  <1>9. QED  BY <1>7, <1>8
=============================================================================
