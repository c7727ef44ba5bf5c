-------------------------------- MODULE Sums --------------------------------
(***************************************************************************)
(* Sums over finite sets, as MapThenSumSet computes them: the order in     *)
(* which the elements are taken does not matter, and one element more adds *)
(* its term.  The induction is by least counterexample, on the size of the *)
(* set.                                                                    *)
(***************************************************************************)
EXTENDS Integers, Functions, FiniteSetsExt, FiniteSetTheorems,
        WellFoundedInduction, TLAPS

SumOver(f, S) == MapThenSumSet(LAMBDA x : f[x], S)

Pick(s) == CHOOSE x \in s : TRUE

\* One step of the recursion in MapThenFoldSet, on the table g of the sums
\* of the smaller sets.
Term(f, g, s) == IF s = {} THEN 0 ELSE f[Pick(s)] + g[s \ {Pick(s)}]

Table(f, S) == CHOOSE g : g = [s \in SUBSET S |-> Term(f, g, s)]

LEMMA TableOfSum ==
  ASSUME NEW f, NEW S
  PROVE  SumOver(f, S) = Table(f, S)[S]
BY DEF SumOver, Table, Term, Pick, MapThenSumSet, MapThenFoldSet

LEMMA LeastNumber ==
  ASSUME NEW T \in SUBSET Nat, T # {}
  PROVE  \E x \in T : \A y \in T : x <= y
<1>1. PICK x \in T : \A y \in T : ~(<<y, x>> \in OpToRel(<, Nat))
  BY NatLessThanWellFounded, WFMin
<1>2. \A y \in T : ~(y < x)
  BY <1>1 DEF OpToRel
<1> QED BY <1>2

\* A set of finite sets that is not empty has a smallest one.
LEMMA SmallestSet ==
  ASSUME NEW W, W # {}, \A s \in W : IsFiniteSet(s)
  PROVE  \E s \in W : \A t \in W : Cardinality(s) <= Cardinality(t)
<1> DEFINE T == {Cardinality(s) : s \in W}
<1>1. T \in SUBSET Nat /\ T # {}
  BY FS_CardinalityType
<1>2. PICK n \in T : \A m \in T : n <= m
  BY <1>1, LeastNumber
<1> QED BY <1>2

LEMMA Picked ==
  ASSUME NEW s, s # {}, IsFiniteSet(s)
  PROVE  /\ Pick(s) \in s
         /\ IsFiniteSet(s \ {Pick(s)})
         /\ Cardinality(s) \in Nat
         /\ Cardinality(s \ {Pick(s)}) = Cardinality(s) - 1
<1>1. Pick(s) \in s
  BY DEF Pick
<1> QED BY <1>1, FS_RemoveElement, FS_CardinalityType

\* Two tables agree wherever both satisfy the recursion.
LEMMA TablesAgree ==
  ASSUME NEW f, NEW S, IsFiniteSet(S), NEW g, NEW h,
         \A s \in SUBSET S : g[s] = Term(f, g, s) /\ h[s] = Term(f, h, s)
  PROVE  \A s \in SUBSET S : g[s] = h[s]
<1> DEFINE W == {s \in SUBSET S : g[s] # h[s]}
<1>1. SUFFICES ASSUME W # {} PROVE FALSE
  OBVIOUS
<1>2. \A s \in SUBSET S : IsFiniteSet(s)
  BY FS_Subset
<1>3. PICK s \in W : \A t \in W : Cardinality(s) <= Cardinality(t)
  BY <1>1, <1>2, SmallestSet
<1>4. s \in SUBSET S /\ g[s] # h[s]
  BY <1>3
<1>5. CASE s = {}
  BY <1>4, <1>5 DEF Term
<1>6. CASE s # {}
  <2> DEFINE r == s \ {Pick(s)}
  <2>1. IsFiniteSet(s) /\ r \in SUBSET S
    BY <1>2, <1>4
  <2>2. Cardinality(r) = Cardinality(s) - 1 /\ Cardinality(s) \in Nat
    BY <1>6, <2>1, Picked
  <2>3. g[r] = h[r]
    BY <1>3, <2>1, <2>2
  <2> QED BY <1>4, <2>3 DEF Term
<1> QED BY <1>5, <1>6

\* The recursion has a solution on the sets of up to n elements.
Solves(f, S, n, g) ==
  \A s \in SUBSET S : Cardinality(s) <= n => g[s] = Term(f, g, s)

LEMMA StepSolves ==
  ASSUME NEW f, NEW S, IsFiniteSet(S), NEW n \in Nat, NEW g,
         Solves(f, S, n, g)
  PROVE  \E h : Solves(f, S, n + 1, h)
<1> DEFINE h == [s \in SUBSET S |->
                   IF Cardinality(s) <= n THEN g[s] ELSE Term(f, g, s)]
<1>1. ASSUME NEW s \in SUBSET S, Cardinality(s) <= n + 1
      PROVE  h[s] = Term(f, h, s)
  <2>1. IsFiniteSet(s) /\ Cardinality(s) \in Nat
    BY FS_Subset, FS_CardinalityType
  <2>2. h[s] = Term(f, g, s)
    BY DEF Solves
  <2>3. CASE s = {}
    BY <2>2, <2>3 DEF Term
  <2>4. CASE s # {}
    <3> DEFINE r == s \ {Pick(s)}
    <3>1. r \in SUBSET S /\ Cardinality(r) <= n
      BY <1>1, <2>1, <2>4, Picked
    <3>2. h[r] = g[r]
      BY <3>1
    <3> HIDE DEF h
    <3> QED BY <2>2, <3>2 DEF Term
  <2> QED BY <2>3, <2>4
<1> QED BY <1>1 DEF Solves

LEMMA AllSolve ==
  ASSUME NEW f, NEW S, IsFiniteSet(S)
  PROVE  \A n \in Nat : \E g : Solves(f, S, n, g)
<1> DEFINE W == {n \in Nat : ~ \E g : Solves(f, S, n, g)}
<1>1. SUFFICES ASSUME W # {} PROVE FALSE
  OBVIOUS
<1>2. PICK n \in W : \A m \in W : n <= m
  BY <1>1, LeastNumber
<1>3. CASE n = 0
  <2> DEFINE g == [s \in SUBSET S |-> 0]
  <2>1. \A s \in SUBSET S : Cardinality(s) <= 0 => s = {}
    BY FS_Subset, FS_CardinalityType, FS_EmptySet
  <2>2. Solves(f, S, 0, g)
    BY <2>1 DEF Solves, Term
  <2> QED BY <1>2, <1>3, <2>2
<1>4. CASE n # 0
  <2>1. n - 1 \in Nat /\ n - 1 \notin W
    BY <1>2, <1>4
  <2>2. PICK g : Solves(f, S, n - 1, g)
    BY <2>1
  <2>3. \E h : Solves(f, S, (n - 1) + 1, h)
    BY <2>1, <2>2, StepSolves
  <2>4. (n - 1) + 1 = n
    BY <1>2
  <2> QED BY <1>2, <2>3, <2>4
<1> QED BY <1>3, <1>4

LEMMA TableSolves ==
  ASSUME NEW f, NEW S, IsFiniteSet(S)
  PROVE  \A s \in SUBSET S : Table(f, S)[s] = Term(f, Table(f, S), s)
<1>1. PICK g : Solves(f, S, Cardinality(S), g)
  BY AllSolve, FS_CardinalityType
<1> DEFINE h == [s \in SUBSET S |-> g[s]]
<1>2. ASSUME NEW s \in SUBSET S PROVE h[s] = Term(f, h, s)
  <2>1. IsFiniteSet(s) /\ Cardinality(s) <= Cardinality(S)
    BY FS_Subset
  <2>2. h[s] = Term(f, g, s)
    BY <1>1, <2>1 DEF Solves
  <2>3. CASE s = {}
    BY <2>2, <2>3 DEF Term
  <2>4. CASE s # {}
    <3>1. h[s \ {Pick(s)}] = g[s \ {Pick(s)}]
      OBVIOUS
    <3> HIDE DEF h
    <3> QED BY <2>2, <3>1 DEF Term
  <2> QED BY <2>3, <2>4
<1>3. h = [s \in SUBSET S |-> Term(f, h, s)]
  <2> HIDE DEF h
  <2>1. h = [s \in SUBSET S |-> h[s]]
    BY DEF h
  <2> QED BY <1>2, <2>1
<1> HIDE DEF h
<1>4. Table(f, S) = [s \in SUBSET S |-> Term(f, Table(f, S), s)]
  BY <1>3 DEF Table
<1> QED BY <1>4

-----------------------------------------------------------------------------

\* The table of a set contains that of each of its subsets.
LEMMA SumOfSubset ==
  ASSUME NEW f, NEW S, IsFiniteSet(S), NEW T \in SUBSET S
  PROVE  Table(f, S)[T] = SumOver(f, T)
<1> DEFINE g == Table(f, S)
           h == Table(f, T)
<1>1. IsFiniteSet(T)
  BY FS_Subset
<1>2. \A s \in SUBSET T : g[s] = Term(f, g, s) /\ h[s] = Term(f, h, s)
  <2>1. \A s \in SUBSET T : h[s] = Term(f, h, s)
    BY <1>1, TableSolves
  <2>2. \A s \in SUBSET S : g[s] = Term(f, g, s)
    BY TableSolves
  <2> HIDE DEF g, h
  <2> QED BY <2>1, <2>2
<1>3. h[T] = SumOver(f, T)
  BY TableOfSum
<1> HIDE DEF g, h
<1>4. \A s \in SUBSET T : g[s] = h[s]
  BY <1>1, <1>2, TablesAgree
<1>5. g[T] = SumOver(f, T)
  BY <1>3, <1>4
<1> QED BY <1>5 DEF g

LEMMA SumByPick ==
  ASSUME NEW f, NEW S, IsFiniteSet(S)
  PROVE  SumOver(f, S) =
           IF S = {} THEN 0 ELSE f[Pick(S)] + SumOver(f, S \ {Pick(S)})
<1>1. SumOver(f, S) = Term(f, Table(f, S), S)
  BY TableSolves, TableOfSum
<1>2. S # {} => Table(f, S)[S \ {Pick(S)}] = SumOver(f, S \ {Pick(S)})
  BY SumOfSubset
<1> QED BY <1>1, <1>2 DEF Term

THEOREM SumEmpty == \A f : SumOver(f, {}) = 0
BY SumByPick, FS_EmptySet

THEOREM SumType ==
  ASSUME NEW S, IsFiniteSet(S), NEW f, \A x \in S : f[x] \in Int
  PROVE  SumOver(f, S) \in Int
<1> DEFINE W == {s \in SUBSET S : SumOver(f, s) \notin Int}
<1>1. SUFFICES ASSUME W # {} PROVE FALSE
  <2>1. S \notin W => SumOver(f, S) \in Int
    OBVIOUS
  <2> QED BY <2>1
<1>2. \A s \in SUBSET S : IsFiniteSet(s)
  BY FS_Subset
<1>3. PICK s \in W : \A t \in W : Cardinality(s) <= Cardinality(t)
  BY <1>1, <1>2, SmallestSet
<1>4. s \in SUBSET S /\ IsFiniteSet(s) /\ SumOver(f, s) \notin Int
  BY <1>2, <1>3
<1>5. CASE s = {}
  BY <1>4, <1>5, SumEmpty
<1>6. CASE s # {}
  <2> DEFINE r == s \ {Pick(s)}
  <2>1. /\ Cardinality(r) = Cardinality(s) - 1 /\ Cardinality(s) \in Nat
        /\ Pick(s) \in S
    BY <1>4, <1>6, Picked
  <2>2. r \in SUBSET S /\ r \notin W
    BY <1>3, <1>4, <2>1
  <2>3. SumOver(f, r) \in Int /\ f[Pick(s)] \in Int
    BY <2>1, <2>2
  <2> QED BY <1>4, <1>6, <2>3, SumByPick
<1> QED BY <1>5, <1>6

(***************************************************************************)
(* Whatever element is taken first, the sum is its term and the sum of the *)
(* others: ledger totals do not depend on the order of the rows.           *)
(***************************************************************************)
THEOREM SumRemove ==
  ASSUME NEW S, IsFiniteSet(S), NEW f, \A x \in S : f[x] \in Int
  PROVE  \A x \in S : SumOver(f, S) = f[x] + SumOver(f, S \ {x})
<1> DEFINE Splits(s) ==
      \A x \in s : SumOver(f, s) = f[x] + SumOver(f, s \ {x})
<1> DEFINE W == {s \in SUBSET S : ~ Splits(s)}
<1>1. SUFFICES ASSUME W # {} PROVE FALSE
  <2>1. S \notin W => Splits(S)
    OBVIOUS
  <2> QED BY <2>1
<1>2. \A s \in SUBSET S : IsFiniteSet(s)
  BY FS_Subset
<1>3. PICK s \in W : \A t \in W : Cardinality(s) <= Cardinality(t)
  BY <1>1, <1>2, SmallestSet
<1>4. s \in SUBSET S /\ IsFiniteSet(s) /\ Cardinality(s) \in Nat
  BY <1>2, <1>3, FS_CardinalityType
<1>5. PICK x \in s : SumOver(f, s) # f[x] + SumOver(f, s \ {x})
  BY <1>3
<1> DEFINE p == Pick(s)
<1>6. p \in s /\ SumOver(f, s) = f[p] + SumOver(f, s \ {p})
  BY <1>4, <1>5, SumByPick DEF Pick
<1>7. ASSUME NEW y \in s PROVE Splits(s \ {y})
  <2>1. /\ s \ {y} \in SUBSET S
        /\ Cardinality(s \ {y}) = Cardinality(s) - 1
    BY <1>4, FS_RemoveElement
  <2>2. s \ {y} \notin W
    BY <1>3, <1>4, <2>1
  <2> QED BY <2>1, <2>2
<1>8. x # p
  BY <1>5, <1>6
<1> DEFINE rest == SumOver(f, s \ {x, p})
<1>9. /\ (s \ {p}) \ {x} = s \ {x, p} /\ (s \ {x}) \ {p} = s \ {x, p}
      /\ x \in s \ {p} /\ p \in s \ {x}
  BY <1>6, <1>8
<1>10. SumOver(f, s \ {p}) = f[x] + rest
  BY <1>6, <1>7, <1>9
<1>11. SumOver(f, s \ {x}) = f[p] + rest
  BY <1>6, <1>7, <1>9
<1>12. rest \in Int /\ f[x] \in Int /\ f[p] \in Int
  <2>1. s \ {x, p} \in SUBSET S
    BY <1>4
  <2>2. IsFiniteSet(s \ {x, p})
    BY <1>2, <2>1
  <2> QED BY <1>4, <1>6, <2>1, <2>2, SumType
<1> HIDE DEF rest
<1> QED BY <1>5, <1>6, <1>10, <1>11, <1>12

COROLLARY SumAdd ==
  ASSUME NEW S, IsFiniteSet(S), NEW f, NEW x, x \notin S,
         \A y \in S \cup {x} : f[y] \in Int
  PROVE  SumOver(f, S \cup {x}) = f[x] + SumOver(f, S)
<1>1. IsFiniteSet(S \cup {x}) /\ (S \cup {x}) \ {x} = S
  BY FS_AddElement
<1> QED BY <1>1, SumRemove

\* Only the terms of the elements count.
THEOREM SumSame ==
  ASSUME NEW S, IsFiniteSet(S), NEW f, NEW g, \A x \in S : f[x] = g[x]
  PROVE  SumOver(f, S) = SumOver(g, S)
<1> DEFINE W == {s \in SUBSET S : SumOver(f, s) # SumOver(g, s)}
<1>1. SUFFICES ASSUME W # {} PROVE FALSE
  <2>1. S \notin W => SumOver(f, S) = SumOver(g, S)
    OBVIOUS
  <2> QED BY <2>1
<1>2. \A s \in SUBSET S : IsFiniteSet(s)
  BY FS_Subset
<1>3. PICK s \in W : \A t \in W : Cardinality(s) <= Cardinality(t)
  BY <1>1, <1>2, SmallestSet
<1>4. s \in SUBSET S /\ IsFiniteSet(s) /\ SumOver(f, s) # SumOver(g, s)
  BY <1>2, <1>3
<1>5. CASE s = {}
  BY <1>4, <1>5, SumEmpty
<1>6. CASE s # {}
  <2> DEFINE r == s \ {Pick(s)}
  <2>1. /\ Cardinality(r) = Cardinality(s) - 1 /\ Cardinality(s) \in Nat
        /\ Pick(s) \in S
    BY <1>4, <1>6, Picked
  <2>2. r \in SUBSET S /\ r \notin W
    BY <1>3, <1>4, <2>1
  <2>3. SumOver(f, r) = SumOver(g, r) /\ f[Pick(s)] = g[Pick(s)]
    BY <2>1, <2>2
  <2> QED BY <1>4, <1>6, <2>3, SumByPick
<1> QED BY <1>5, <1>6

\* One term changes.
COROLLARY SumChange ==
  ASSUME NEW S, IsFiniteSet(S), NEW f, NEW g, NEW x \in S,
         \A y \in S : f[y] \in Int /\ g[y] \in Int,
         \A y \in S \ {x} : f[y] = g[y]
  PROVE  SumOver(g, S) = SumOver(f, S) + g[x] - f[x]
<1>1. IsFiniteSet(S \ {x})
  BY FS_RemoveElement
<1>2. SumOver(f, S \ {x}) = SumOver(g, S \ {x})
  BY <1>1, SumSame
<1>3. SumOver(f, S) = f[x] + SumOver(f, S \ {x})
  BY SumRemove
<1>4. SumOver(g, S) = g[x] + SumOver(g, S \ {x})
  BY SumRemove
<1>5. SumOver(f, S \ {x}) \in Int
  BY <1>1, SumType
<1> QED BY <1>2, <1>3, <1>4, <1>5

\* Smaller terms, smaller sum.
THEOREM SumMonotonic ==
  ASSUME NEW S, IsFiniteSet(S), NEW f, NEW g,
         \A x \in S : f[x] \in Int /\ g[x] \in Int /\ f[x] <= g[x]
  PROVE  SumOver(f, S) <= SumOver(g, S)
<1> DEFINE W == {s \in SUBSET S : ~ (SumOver(f, s) <= SumOver(g, s))}
<1>1. SUFFICES ASSUME W # {} PROVE FALSE
  <2>1. S \notin W => SumOver(f, S) <= SumOver(g, S)
    OBVIOUS
  <2> QED BY <2>1
<1>2. \A s \in SUBSET S : IsFiniteSet(s)
  BY FS_Subset
<1>3. PICK s \in W : \A t \in W : Cardinality(s) <= Cardinality(t)
  BY <1>1, <1>2, SmallestSet
<1>4. /\ s \in SUBSET S /\ IsFiniteSet(s)
      /\ ~ (SumOver(f, s) <= SumOver(g, s))
  BY <1>2, <1>3
<1>5. CASE s = {}
  BY <1>4, <1>5, SumEmpty
<1>6. CASE s # {}
  <2> DEFINE x == Pick(s)
             r == s \ {x}
  <2>1. /\ Cardinality(r) = Cardinality(s) - 1 /\ Cardinality(s) \in Nat
        /\ x \in S /\ IsFiniteSet(r)
    BY <1>4, <1>6, Picked
  <2>2. r \in SUBSET S /\ r \notin W
    BY <1>3, <1>4, <2>1
  <2>3. SumOver(f, r) <= SumOver(g, r) /\ f[x] <= g[x]
    BY <2>1, <2>2
  <2>4. SumOver(f, r) \in Int /\ SumOver(g, r) \in Int
    BY <2>1, <2>2, SumType
  <2>5. /\ SumOver(f, s) = f[x] + SumOver(f, r)
        /\ SumOver(g, s) = g[x] + SumOver(g, r)
    BY <1>4, <1>6, SumByPick
  <2>6. f[x] \in Int /\ g[x] \in Int
    BY <2>1
  <2> QED BY <1>4, <2>3, <2>4, <2>5, <2>6
<1> QED BY <1>5, <1>6

COROLLARY SumZero ==
  ASSUME NEW S, IsFiniteSet(S), NEW f, \A x \in S : f[x] = 0
  PROVE  SumOver(f, S) = 0
<1> DEFINE W == {s \in SUBSET S : SumOver(f, s) # 0}
<1>1. SUFFICES ASSUME W # {} PROVE FALSE
  <2>1. S \notin W => SumOver(f, S) = 0
    OBVIOUS
  <2> QED BY <2>1
<1>2. \A s \in SUBSET S : IsFiniteSet(s)
  BY FS_Subset
<1>3. PICK s \in W : \A t \in W : Cardinality(s) <= Cardinality(t)
  BY <1>1, <1>2, SmallestSet
<1>4. s \in SUBSET S /\ IsFiniteSet(s) /\ SumOver(f, s) # 0
  BY <1>2, <1>3
<1>5. CASE s = {}
  BY <1>4, <1>5, SumEmpty
<1>6. CASE s # {}
  <2> DEFINE r == s \ {Pick(s)}
  <2>1. /\ Cardinality(r) = Cardinality(s) - 1 /\ Cardinality(s) \in Nat
        /\ Pick(s) \in S
    BY <1>4, <1>6, Picked
  <2>2. r \in SUBSET S /\ r \notin W
    BY <1>3, <1>4, <2>1
  <2> QED BY <1>4, <1>6, <2>1, <2>2, SumByPick
<1> QED BY <1>5, <1>6

\* SumFunction of the community modules.
LEMMA SumOfFunction ==
  ASSUME NEW f
  PROVE  SumFunction(f) = SumOver(f, DOMAIN f)
BY DEF SumFunction, SumFunctionOnSet, FoldFunctionOnSet, SumOver,
       MapThenSumSet, MapThenFoldSet
=============================================================================
