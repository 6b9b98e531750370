------------------------- MODULE ChildAgentsLedger -------------------------
(***************************************************************************)
(* Proofs about the budgets of ChildAgents, for any agents, callers and    *)
(* bounds: the ledger reserves what its active reservations do, no         *)
(* reservation is left without an owner, the tree stays within its budget  *)
(* but for overruns, and no agent is charged twice for a turn.             *)
(*                                                                         *)
(* The first part proves what Sum computes, by induction over the subsets  *)
(* of a finite set.  The second adds to ChildInv who has which reservation *)
(* and which turns have been charged for.                                  *)
(***************************************************************************)
EXTENDS ChildAgentsProofs, WellFoundedInduction

(* Sums over finite sets.                                                  *)

\* Induction over the natural numbers, for a set.
LEMMA NatSetInduction ==
  ASSUME NEW X, 0 \in X, \A n \in Nat : n \in X => n + 1 \in X
  PROVE  Nat \subseteq X
<1> SUFFICES ASSUME Nat \ X # {} PROVE FALSE
  OBVIOUS
<1>1. PICK m \in Nat \ X : \A y \in Nat \ X : ~(<<y, m>> \in OpToRel(<, Nat))
  BY NatLessThanWellFounded, WFMin
<1>2. \A y \in Nat : y < m => y \in X
  BY <1>1 DEF OpToRel
<1>3. m \in Nat /\ m \notin X
  OBVIOUS
<1>4. m # 0 /\ m - 1 \in Nat /\ m - 1 < m
  BY <1>3
<1>5. m - 1 \in X
  BY <1>2, <1>4
<1>6. (m - 1) + 1 \in X
  BY <1>4, <1>5
<1>7. (m - 1) + 1 = m
  BY <1>3
<1> QED BY <1>3, <1>6, <1>7

\* The sum of a function over a set, and the table MapThenSumSet computes it with.
Total(f, S) == MapThenSumSet(LAMBDA x : f[x], S)
Pick(s) == CHOOSE x \in s : TRUE
Line(g, f, s) == IF s = {} THEN 0 ELSE f[Pick(s)] + g[s \ {Pick(s)}]
IsTable(g, f, S) == g = [s \in SUBSET S |-> Line(g, f, s)]
Small(S, n) == {s \in SUBSET S : Cardinality(s) <= n}

\* The subsets of a finite set, without the element the table picks.
LEMMA PickFacts ==
  ASSUME NEW S, IsFiniteSet(S)
  PROVE  \A s \in SUBSET S :
           /\ IsFiniteSet(s) /\ Cardinality(s) \in Nat /\ (Cardinality(s) = 0 <=> s = {})
           /\ s # {} => /\ Pick(s) \in s /\ s \ {Pick(s)} \in SUBSET S
                        /\ Cardinality(s \ {Pick(s)}) = Cardinality(s) - 1
<1> TAKE s \in SUBSET S
<1>1. IsFiniteSet(s)
  BY FS_Subset
<1>2. Cardinality(s) \in Nat /\ (Cardinality(s) = 0 <=> s = {})
  BY <1>1, FS_CardinalityType, FS_EmptySet
<1>3. s # {} => Pick(s) \in s
  BY DEF Pick
<1>4. s # {} => Cardinality(s \ {Pick(s)}) = Cardinality(s) - 1
  BY <1>1, <1>3, FS_RemoveElement
<1> QED BY <1>1, <1>2, <1>3, <1>4

\* The table exists.
LEMMA TableExists ==
  ASSUME NEW S, IsFiniteSet(S), NEW f
  PROVE  \E g : IsTable(g, f, S)
<1> DEFINE X == {n \in Nat : \E g : g = [s \in Small(S, n) |-> Line(g, f, s)]}
<1>1. 0 \in X
  <2> DEFINE g == [s \in Small(S, 0) |-> 0]
  <2>1. ASSUME NEW s \in Small(S, 0) PROVE s = {}
    <3>1. s \in SUBSET S /\ Cardinality(s) <= 0
      BY DEF Small
    <3>2. Cardinality(s) \in Nat /\ (Cardinality(s) = 0 <=> s = {})
      BY <3>1, PickFacts
    <3> QED BY <3>1, <3>2
  <2>2. g = [s \in Small(S, 0) |-> Line(g, f, s)]
    BY <2>1 DEF Line
  <2> QED BY <2>2
<1>2. ASSUME NEW n \in Nat, n \in X PROVE n + 1 \in X
  <2>1. PICK g : g = [s \in Small(S, n) |-> Line(g, f, s)]
    BY <1>2
  <2> DEFINE h == [s \in Small(S, n + 1) |-> Line(g, f, s)]
  <2>2. ASSUME NEW s \in Small(S, n) PROVE s \in Small(S, n + 1) /\ h[s] = g[s]
    <3>1. s \in SUBSET S /\ Cardinality(s) <= n
      BY DEF Small
    <3>2. Cardinality(s) \in Nat
      BY <3>1, PickFacts
    <3>3. s \in Small(S, n + 1)
      BY <3>1, <3>2 DEF Small
    <3> QED BY <2>1, <3>3
  <2>3. \A s \in Small(S, n + 1) : s # {} => s \ {Pick(s)} \in Small(S, n)
    BY PickFacts DEF Small
  <2>4. \A s \in Small(S, n + 1) : Line(g, f, s) = Line(h, f, s)
    BY <2>2, <2>3 DEF Line
  <2>5. h = [s \in Small(S, n + 1) |-> Line(h, f, s)]
    BY <2>4
  <2>6. n + 1 \in Nat
    OBVIOUS
  <2> HIDE DEF h
  <2>7. \E k : k = [s \in Small(S, n + 1) |-> Line(k, f, s)]
    BY <2>5, Zenon
  <2> QED BY <2>6, <2>7
<1>3. Nat \subseteq X
  BY <1>1, <1>2, NatSetInduction
<1>4. Cardinality(S) \in X
  BY <1>3, FS_CardinalityType
<1>5. Small(S, Cardinality(S)) = SUBSET S
  BY FS_Subset DEF Small
<1> QED BY <1>4, <1>5 DEF IsTable

\* Tables of functions that agree, for a set and a subset of it, agree.
LEMMA TablesAgree ==
  ASSUME NEW S, IsFiniteSet(S), NEW T \in SUBSET S, NEW f, NEW e, \A x \in T : f[x] = e[x],
         NEW g, NEW h, IsTable(g, f, S), IsTable(h, e, T)
  PROVE  g[T] = h[T]
<1> DEFINE X == {n \in Nat : \A s \in SUBSET T : Cardinality(s) <= n => g[s] = h[s]}
<1>0. \A s \in SUBSET T : s \in SUBSET S /\ g[s] = Line(g, f, s) /\ h[s] = Line(h, e, s)
  BY DEF IsTable
<1>1. 0 \in X
  <2> SUFFICES ASSUME NEW s \in SUBSET T, Cardinality(s) <= 0 PROVE g[s] = h[s]
    OBVIOUS
  <2>1. Cardinality(s) \in Nat /\ (Cardinality(s) = 0 <=> s = {})
    BY <1>0, PickFacts
  <2>2. s = {}
    BY <2>1
  <2> QED BY <1>0, <2>2 DEF Line
<1>2. ASSUME NEW n \in Nat, n \in X PROVE n + 1 \in X
  <2> SUFFICES ASSUME NEW s \in SUBSET T, Cardinality(s) <= n + 1 PROVE g[s] = h[s]
    OBVIOUS
  <2>1. CASE s = {}
    BY <1>0, <2>1 DEF Line
  <2>2. CASE s # {}
    <3>1. Pick(s) \in T /\ s \ {Pick(s)} \in SUBSET T /\ Cardinality(s \ {Pick(s)}) <= n
      BY <1>0, <2>2, PickFacts
    <3>2. g[s \ {Pick(s)}] = h[s \ {Pick(s)}]
      BY <1>2, <3>1
    <3> QED BY <1>0, <2>2, <3>1, <3>2 DEF Line
  <2> QED BY <2>1, <2>2
<1>3. Nat \subseteq X
  BY <1>1, <1>2, NatSetInduction
<1>4. IsFiniteSet(T)
  BY FS_Subset
<1>5. Cardinality(T) \in X
  BY <1>3, <1>4, FS_CardinalityType
<1> QED BY <1>4, <1>5, FS_CardinalityType

\* What Total is.
LEMMA TotalTable ==
  ASSUME NEW S, IsFiniteSet(S), NEW f
  PROVE  \E g : IsTable(g, f, S) /\ Total(f, S) = g[S]
<1>1. Total(f, S) = (CHOOSE g : g = [s \in SUBSET S |-> IF s = {} THEN 0 ELSE f[Pick(s)] + g[s \ {Pick(s)}]])[S]
  BY DEF Total, MapThenSumSet, MapThenFoldSet, Pick
<1>2. Total(f, S) = (CHOOSE g : IsTable(g, f, S))[S]
  BY <1>1 DEF IsTable, Line
<1>3. IsTable(CHOOSE g : IsTable(g, f, S), f, S)
  BY TableExists
<1> QED BY <1>2, <1>3

\* Functions that agree have the same sum.
LEMMA TotalSame ==
  ASSUME NEW S, IsFiniteSet(S), NEW f, NEW e, \A x \in S : f[x] = e[x]
  PROVE  Total(f, S) = Total(e, S)
BY TotalTable, TablesAgree

\* Nothing sums to zero.
LEMMA TotalEmpty ==
  ASSUME NEW f PROVE Total(f, {}) = 0
<1>1. PICK g : IsTable(g, f, {}) /\ Total(f, {}) = g[{}]
  BY TotalTable, FS_EmptySet
<1> QED BY <1>1 DEF IsTable, Line

\* The element that is picked first.
LEMMA TotalPick ==
  ASSUME NEW S, IsFiniteSet(S), S # {}, NEW f
  PROVE  /\ Pick(S) \in S /\ IsFiniteSet(S \ {Pick(S)})
         /\ Cardinality(S \ {Pick(S)}) = Cardinality(S) - 1
         /\ Total(f, S) = f[Pick(S)] + Total(f, S \ {Pick(S)})
<1>1. PICK g : IsTable(g, f, S) /\ Total(f, S) = g[S]
  BY TotalTable
<1>2. Pick(S) \in S /\ S \ {Pick(S)} \in SUBSET S /\ IsFiniteSet(S \ {Pick(S)}) /\ Cardinality(S \ {Pick(S)}) = Cardinality(S) - 1
  BY PickFacts, FS_Subset
<1>3. PICK h : IsTable(h, f, S \ {Pick(S)}) /\ Total(f, S \ {Pick(S)}) = h[S \ {Pick(S)}]
  BY <1>2, TotalTable
<1>4. g[S \ {Pick(S)}] = h[S \ {Pick(S)}]
  BY <1>1, <1>2, <1>3, TablesAgree
<1>5. g[S] = Line(g, f, S)
  BY <1>1 DEF IsTable
<1> QED BY <1>1, <1>2, <1>3, <1>4, <1>5 DEF Line

\* Sums of integers are integers, in any order of the elements.
LEMMA TotalStep ==
  ASSUME NEW S, IsFiniteSet(S), NEW f, \A x \in S : f[x] \in Int
  PROVE  /\ Total(f, S) \in Int
         /\ \A x \in S : Total(f, S) = f[x] + Total(f, S \ {x})
<1> DEFINE Ok(s) == /\ Total(f, s) \in Int
                    /\ \A x \in s : Total(f, s) = f[x] + Total(f, s \ {x})
           X == {n \in Nat : \A s \in SUBSET S : Cardinality(s) <= n => Ok(s)}
<1>0. Ok({})
  BY TotalEmpty
<1>1. 0 \in X
  <2>1. ASSUME NEW s \in SUBSET S, Cardinality(s) <= 0 PROVE s = {}
    <3>1. Cardinality(s) \in Nat /\ (Cardinality(s) = 0 <=> s = {})
      BY PickFacts
    <3> QED BY <2>1, <3>1
  <2> QED BY <1>0, <2>1
<1>2. ASSUME NEW n \in Nat, n \in X PROVE n + 1 \in X
  <2> SUFFICES ASSUME NEW s \in SUBSET S, Cardinality(s) <= n + 1, s # {} PROVE Ok(s)
    BY <1>0
  <2>0. IsFiniteSet(s) /\ Cardinality(s) \in Nat
    BY PickFacts
  <2>1. ASSUME NEW x \in s
        PROVE  /\ IsFiniteSet(s \ {x}) /\ Cardinality(s \ {x}) = Cardinality(s) - 1
               /\ Ok(s \ {x}) /\ f[x] \in Int
    <3>1. IsFiniteSet(s \ {x}) /\ Cardinality(s \ {x}) = Cardinality(s) - 1
      BY <2>0, FS_RemoveElement
    <3>2. Cardinality(s \ {x}) <= n /\ s \ {x} \in SUBSET S
      BY <2>0, <3>1
    <3> QED BY <1>2, <3>1, <3>2
  <2>2. PICK p \in s : Total(f, s) = f[p] + Total(f, s \ {p})
    BY <2>0, TotalPick
  <2>3. Total(f, s) \in Int
    BY <2>1, <2>2
  <2>4. ASSUME NEW x \in s PROVE Total(f, s) = f[x] + Total(f, s \ {x})
    <3>1. CASE x = p
      BY <2>2, <3>1
    <3>2. CASE x # p
      <4> DEFINE r == (s \ {x}) \ {p}
      <4>1. x \in s \ {p} /\ p \in s \ {x} /\ (s \ {p}) \ {x} = r
        BY <3>2
      <4> HIDE DEF r
      <4>2. Total(f, s \ {p}) = f[x] + Total(f, r)
        BY <2>1, <4>1
      <4>3. Total(f, s \ {x}) = f[p] + Total(f, r)
        BY <2>1, <4>1 DEF r
      <4>4. r \in SUBSET S /\ Cardinality(r) <= n
        <5>1. IsFiniteSet(s \ {x}) /\ Cardinality(s \ {x}) = Cardinality(s) - 1
          BY <2>1
        <5>2. Cardinality(r) = Cardinality(s \ {x}) - 1
          BY <4>1, <5>1, FS_RemoveElement DEF r
        <5> QED BY <2>0, <5>1, <5>2 DEF r
      <4>5. Total(f, r) \in Int
        BY <1>2, <4>4
      <4>6. f[x] \in Int /\ f[p] \in Int
        BY <2>1
      <4> QED BY <2>2, <4>2, <4>3, <4>5, <4>6
    <3> QED BY <3>1, <3>2
  <2> QED BY <2>3, <2>4
<1>3. Nat \subseteq X
  BY <1>1, <1>2, NatSetInduction
<1> QED BY <1>3, FS_CardinalityType

\* Induction over the subsets of a finite set, one element at a time.
LEMMA SubsetInduction ==
  ASSUME NEW S, IsFiniteSet(S), NEW X, {} \in X,
         \A s \in SUBSET S : \A x \in s : s \ {x} \in X => s \in X
  PROVE  SUBSET S \subseteq X
<1> DEFINE N == {n \in Nat : \A s \in SUBSET S : Cardinality(s) <= n => s \in X}
<1>1. 0 \in N
  <2>1. ASSUME NEW s \in SUBSET S, Cardinality(s) <= 0 PROVE s = {}
    <3>1. Cardinality(s) \in Nat /\ (Cardinality(s) = 0 <=> s = {})
      BY PickFacts
    <3> QED BY <2>1, <3>1
  <2> QED BY <2>1
<1>2. ASSUME NEW n \in Nat, n \in N PROVE n + 1 \in N
  <2> SUFFICES ASSUME NEW s \in SUBSET S, Cardinality(s) <= n + 1 PROVE s \in X
    OBVIOUS
  <2> SUFFICES ASSUME s # {} PROVE s \in X
    OBVIOUS
  <2>1. /\ Cardinality(s) \in Nat /\ Pick(s) \in s /\ s \ {Pick(s)} \in SUBSET S
        /\ Cardinality(s \ {Pick(s)}) = Cardinality(s) - 1
    BY PickFacts
  <2>2. s \ {Pick(s)} \in X
    BY <1>2, <2>1
  <2> QED BY <2>1, <2>2
<1>3. Nat \subseteq N
  BY <1>1, <1>2, NatSetInduction
<1>4. ASSUME NEW s \in SUBSET S PROVE s \in X
  <2>1. Cardinality(s) \in Nat
    BY PickFacts
  <2>2. Cardinality(s) \in N
    BY <1>3, <2>1
  <2> QED BY <2>1, <2>2
<1> QED BY <1>4

\* A larger function has a larger sum.
LEMMA TotalMono ==
  ASSUME NEW S, IsFiniteSet(S), NEW f, NEW e,
         \A x \in S : f[x] \in Int /\ e[x] \in Int /\ f[x] <= e[x]
  PROVE  Total(f, S) <= Total(e, S)
<1> DEFINE X == {s \in SUBSET S : Total(f, s) <= Total(e, s)}
<1>1. {} \in X
  BY TotalEmpty
<1>2. ASSUME NEW s \in SUBSET S, NEW x \in s, s \ {x} \in X PROVE s \in X
  <2>1. IsFiniteSet(s) /\ IsFiniteSet(s \ {x})
    BY FS_Subset
  <2>2. Total(f, s) = f[x] + Total(f, s \ {x}) /\ Total(e, s) = e[x] + Total(e, s \ {x})
    BY <2>1, TotalStep
  <2>3. Total(f, s \ {x}) \in Int /\ Total(e, s \ {x}) \in Int
    BY <2>1, TotalStep
  <2>4. Total(f, s \ {x}) <= Total(e, s \ {x})
    BY <1>2
  <2> QED BY <2>2, <2>3, <2>4
<1> HIDE DEF X
<1>3. SUBSET S \subseteq X
  BY <1>1, <1>2, SubsetInduction
<1> QED BY <1>3 DEF X

\* The sum of natural numbers is one, and no less than the sum over a subset.
LEMMA TotalSubset ==
  ASSUME NEW S, IsFiniteSet(S), NEW T \in SUBSET S, NEW f, \A x \in S : f[x] \in Nat
  PROVE  Total(f, T) \in Nat /\ Total(f, S) \in Nat /\ Total(f, T) <= Total(f, S)
<1> DEFINE X == {s \in SUBSET S : Total(f, s) \in Nat /\ Total(f, s \cap T) \in Nat
                                  /\ Total(f, s \cap T) <= Total(f, s)}
<1>1. {} \in X
  <2>1. {} \cap T = {}
    OBVIOUS
  <2> QED BY <2>1, TotalEmpty
<1>2. ASSUME NEW s \in SUBSET S, NEW x \in s, s \ {x} \in X PROVE s \in X
  <2>1. IsFiniteSet(s) /\ IsFiniteSet(s \cap T)
    BY FS_Subset
  <2>2. Total(f, s) = f[x] + Total(f, s \ {x}) /\ f[x] \in Nat
    BY <2>1, TotalStep
  <2>3. /\ Total(f, s \ {x}) \in Nat /\ Total(f, (s \ {x}) \cap T) \in Nat
        /\ Total(f, (s \ {x}) \cap T) <= Total(f, s \ {x})
    BY <1>2
  <2>4. CASE x \in T
    <3>1. x \in s \cap T /\ (s \ {x}) \cap T = (s \cap T) \ {x}
      BY <2>4
    <3>2. Total(f, s \cap T) = f[x] + Total(f, (s \cap T) \ {x})
      BY <2>1, <3>1, TotalStep
    <3> QED BY <2>2, <2>3, <3>1, <3>2
  <2>5. CASE x \notin T
    <3>1. (s \ {x}) \cap T = s \cap T
      BY <2>5
    <3> QED BY <2>2, <2>3, <3>1
  <2> QED BY <2>4, <2>5
<1> HIDE DEF X
<1>3. SUBSET S \subseteq X
  BY <1>1, <1>2, SubsetInduction
<1>4. S \in X /\ S \cap T = T
  BY <1>3
<1> QED BY <1>4 DEF X

\* The sum of a function that changes at one place.
LEMMA TotalUpdate ==
  ASSUME NEW S, IsFiniteSet(S), NEW f, NEW e, NEW x \in S,
         \A y \in S : f[y] \in Int /\ e[y] \in Int, \A y \in S \ {x} : f[y] = e[y]
  PROVE  Total(e, S) = Total(f, S) + (e[x] - f[x])
<1>1. IsFiniteSet(S \ {x})
  BY FS_Subset
<1>2. Total(f, S \ {x}) = Total(e, S \ {x}) /\ Total(f, S \ {x}) \in Int
  BY <1>1, TotalSame, TotalStep
<1>3. Total(f, S) = f[x] + Total(f, S \ {x}) /\ Total(e, S) = e[x] + Total(e, S \ {x})
  BY TotalStep
<1>4. f[x] \in Int /\ e[x] \in Int
  OBVIOUS
<1> QED BY <1>2, <1>3, <1>4

\* Sum adds up a function over its domain.
LEMMA SumIsTotal ==
  ASSUME NEW f, NEW S, DOMAIN f = S
  PROVE  Sum(f) = Total(f, S)
BY DEF Sum, Total

\* The sum of natural numbers is one.
LEMMA SumNat ==
  ASSUME NEW S, IsFiniteSet(S), NEW f \in [S -> Nat]
  PROVE  Sum(f) \in Nat
<1>1. Sum(f) = Total(f, S)
  BY SumIsTotal
<1>2. Total(f, S) \in Nat
  BY TotalSubset
<1> QED BY <1>1, <1>2

\* An element that joins the domain adds its number.
LEMMA SumAdd ==
  ASSUME NEW S, IsFiniteSet(S), NEW x, x \notin S, NEW f \in [S -> Int], NEW e \in [S \cup {x} -> Int],
         \A y \in S : e[y] = f[y]
  PROVE  Sum(f) \in Int /\ Sum(e) = Sum(f) + e[x]
<1>1. Sum(f) = Total(f, S) /\ Sum(e) = Total(e, S \cup {x})
  BY SumIsTotal
<1>2. IsFiniteSet(S \cup {x}) /\ (S \cup {x}) \ {x} = S
  BY FS_AddElement
<1>3. \A y \in S \cup {x} : e[y] \in Int
  OBVIOUS
<1>4. Total(e, S \cup {x}) = e[x] + Total(e, (S \cup {x}) \ {x})
  BY <1>2, <1>3, TotalStep
<1>5. Total(e, S) = Total(f, S)
  BY TotalSame
<1>6. Total(f, S) \in Int /\ e[x] \in Int
  BY TotalStep
<1>7. Total(e, S \cup {x}) = e[x] + Total(f, S)
  BY <1>2, <1>4, <1>5, Zenon
<1> QED BY <1>1, <1>6, <1>7

\* A function that changes at one place.
LEMMA SumChange ==
  ASSUME NEW S, IsFiniteSet(S), NEW x \in S, NEW f \in [S -> Int], NEW e \in [S -> Int],
         \A y \in S \ {x} : f[y] = e[y]
  PROVE  Sum(f) \in Int /\ Sum(e) = Sum(f) + (e[x] - f[x])
<1>1. Sum(f) = Total(f, S) /\ Sum(e) = Total(e, S)
  BY SumIsTotal
<1>2. Total(f, S) \in Int
  BY TotalStep
<1>3. Total(e, S) = Total(f, S) + (e[x] - f[x])
  BY TotalUpdate
<1> QED BY <1>1, <1>2, <1>3

\* A larger function has a larger sum.
LEMMA SumMono ==
  ASSUME NEW S, IsFiniteSet(S), NEW f \in [S -> Int], NEW e \in [S -> Int], \A y \in S : f[y] <= e[y]
  PROVE  Sum(f) \in Int /\ Sum(e) \in Int /\ Sum(f) <= Sum(e)
<1>1. Sum(f) = Total(f, S) /\ Sum(e) = Total(e, S)
  BY SumIsTotal
<1>2. Total(f, S) \in Int /\ Total(e, S) \in Int
  BY TotalStep
<1>3. Total(f, S) <= Total(e, S)
  BY TotalMono
<1> QED BY <1>1, <1>2, <1>3

\* More natural numbers have a larger sum.
LEMMA SumSubset ==
  ASSUME NEW S, IsFiniteSet(S), NEW T \in SUBSET S, NEW f \in [T -> Nat], NEW e \in [S -> Nat],
         \A y \in T : f[y] = e[y]
  PROVE  Sum(f) \in Nat /\ Sum(e) \in Nat /\ Sum(f) <= Sum(e)
<1>1. Sum(f) = Total(f, T) /\ Sum(e) = Total(e, S)
  BY SumIsTotal
<1>2. IsFiniteSet(T)
  BY FS_Subset
<1>3. Total(f, T) = Total(e, T)
  BY <1>2, TotalSame
<1>4. Total(e, T) \in Nat /\ Total(e, S) \in Nat /\ Total(e, T) <= Total(e, S)
  BY TotalSubset
<1> QED BY <1>1, <1>3, <1>4

-----------------------------------------------------------------------------
(* The invariant.                                                          *)

\* Accounts and reservations have their types.
AccountRecord == [reserved : Int, slots : Int, spent : Nat]
ReservationRecord == [amount : Nat, state : {"none", "active", "done"}]
AccountsTyped ==
  /\ account \in [Scopes -> AccountRecord]
  /\ reservation \in [Turns -> ReservationRecord]

\* A turn has used nothing until it ends, and has no reservation until StartTurn reserves
\* for it; a reservation belongs to an agent.
FreshUnused == \A t \in Turns : turn[t].state \in {"none", "named"} \cup Live => turn[t].used = 0
FreshFree == \A t \in Turns : turn[t].state = "none" => reservation[t].state = "none"
CallFree == \A c \in Callers : call[c].pc \in {"admit", "reserve"} =>
              reservation[call[c].turn].state = "none"
ActiveOwned == \A t \in Active : turn[t].agent \in Agents
Fresh == FreshUnused /\ FreshFree /\ CallFree /\ ActiveOwned

\* Budgets, charges and the manager's reservations have their types: what all agents hold is at
\* least what they own, and more only for agents that a restart has found.
HeldTyped == own \in [Agents -> Nat] /\ kept \in [Agents -> Nat] /\ held \in Nat /\ Sum(own) <= held
ManagerTyped ==
  /\ limit \in [Agents -> 0..MaxTokens] /\ spent \in [Agents -> Nat]
  /\ result \in [Agents -> Turns \cup {NoTurn}]
  /\ HeldTyped

\* The inductive invariant of the ledger.
LedgerInv == ChildInv /\ ManagerTyped /\ AccountsTyped /\ Fresh /\ LedgerExact /\ NoLeak /\ TreeBudget

\* The active reservations below a scope, and their amounts.
Below(s) == {t \in Active : s \in Path(turn[t].agent)}
Amounts(s) == [t \in Below(s) |-> reservation[t].amount]

-----------------------------------------------------------------------------
(* What the actions do to turns and to the ledger.                         *)

\* Turns are a finite set.
LEMMA TurnsFinite == IsFiniteSet(Turns)
BY ChildConstants, FS_Interval DEF Turns

\* Tokens are natural numbers.
LEMMA UsedNat == Used \subseteq Nat
BY ChildConstants DEF Used

\* A named turn keeps its agent, and what it used changes only when it ends.
LEMMA TurnMoves ==
  ASSUME ChildInv, FreshUnused, [Next]_vars, NEW t \in Turns
  PROVE  /\ turn[t].state # "none" => turn'[t].agent = turn[t].agent /\ turn'[t].state # "none"
         /\ turn'[t].state = "none" => turn'[t] = turn[t]
         /\ turn'[t].used = turn[t].used \/ turn[t].used = 0
         /\ turn'[t].used \in Nat /\ turn[t].used \in Nat
<1> USE DEF ChildInv, Shape, TurnsTyped, TurnRecord
<1>0. turn'[t].used \in Nat /\ turn[t].used \in Nat
  BY TurnsTypedStep, UsedNat
<1>1. CASE UNCHANGED turn
  BY <1>0, <1>1
<1>2. ASSUME NEW c \in Callers, Check(c)
      PROVE  /\ turn[t].state # "none" => turn'[t].agent = turn[t].agent /\ turn'[t].state # "none"
             /\ turn'[t].state = "none" => turn'[t] = turn[t]
             /\ turn'[t].used = turn[t].used \/ turn[t].used = 0
  BY <1>2, CheckEffect DEF FreshUnused
<1>3. ASSUME NEW c \in Callers, Submit(c)
      PROVE  /\ turn[t].state # "none" => turn'[t].agent = turn[t].agent /\ turn'[t].state # "none"
             /\ turn'[t].state = "none" => turn'[t] = turn[t]
             /\ turn'[t].used = turn[t].used \/ turn[t].used = 0
  BY <1>3 DEF Submit, NamedTurns, Named, Before
<1>4. ASSUME NEW u \in Turns, TurnEnds(u)
      PROVE  /\ turn[t].state # "none" => turn'[t].agent = turn[t].agent /\ turn'[t].state # "none"
             /\ turn'[t].state = "none" => turn'[t] = turn[t]
             /\ turn'[t].used = turn[t].used \/ turn[t].used = 0
  BY <1>4 DEF TurnEnds, FreshUnused, Live
<1>4a. ASSUME NEW u \in Turns, TurnOpens(u) \/ TurnRejected(u) \/ RejectionLost(u)
      PROVE  /\ turn[t].state # "none" => turn'[t].agent = turn[t].agent /\ turn'[t].state # "none"
             /\ turn'[t].state = "none" => turn'[t] = turn[t]
             /\ turn'[t].used = turn[t].used \/ turn[t].used = 0
  BY <1>4a DEF TurnOpens, TurnRejected, RejectionLost
<1>5. ASSUME NEW u \in Turns, Observe(u)
      PROVE  /\ turn[t].state # "none" => turn'[t].agent = turn[t].agent /\ turn'[t].state # "none"
             /\ turn'[t].state = "none" => turn'[t] = turn[t]
             /\ turn'[t].used = turn[t].used \/ turn[t].used = 0
  BY <1>5 DEF Observe
<1>6. CASE Restart
  <2>1. /\ turn'[t].agent = turn[t].agent /\ turn'[t].used = turn[t].used
        /\ turn[t].state = "none" <=> turn'[t].state = "none"
    BY <1>6, RestartTurns
  <2>2. turn'[t] = AfterRestart(turn[t])
    BY <1>6 DEF Restart
  <2>3. turn[t].state = "none" => AfterRestart(turn[t]) = turn[t]
    BY DEF AfterRestart
  <2> QED BY <1>0, <2>1, <2>2, <2>3
<1> QED BY <1>0, <1>1, <1>2, <1>3, <1>4, <1>4a, <1>5, <1>6, FrameTurn

\* What LedgerExact says of one scope.
LEMMA ExactScope ==
  ASSUME NEW s \in Scopes, LedgerExact
  PROVE  account[s].slots = Cardinality(Below(s)) /\ account[s].reserved = Sum(Amounts(s))
BY DEF LedgerExact, Below, Amounts

\* Reservations are finitely many natural numbers.
LEMMA LiveFacts ==
  ASSUME AccountsTyped, NEW s \in Scopes
  PROVE  /\ Below(s) \in SUBSET Turns /\ IsFiniteSet(Below(s)) /\ Amounts(s) \in [Below(s) -> Nat]
         /\ Cardinality(Below(s)) \in Nat /\ Sum(Amounts(s)) \in Nat
<1>1. Below(s) \in SUBSET Turns
  BY DEF Below, Active
<1>2. IsFiniteSet(Below(s))
  BY <1>1, TurnsFinite, FS_Subset
<1>3. Amounts(s) \in [Below(s) -> Nat]
  BY <1>1 DEF Amounts, AccountsTyped, ReservationRecord
<1> QED BY <1>1, <1>2, <1>3, SumNat, FS_CardinalityType

\* An active reservation is counted in both scopes of its agent's path: it can be settled.
LEMMA ActiveCounted ==
  ASSUME AccountsTyped, LedgerExact, ActiveOwned, NEW t \in Active, NEW s \in Path(turn[t].agent)
  PROVE  /\ s \in Scopes /\ t \in Below(s) /\ CanSubtract(s, t)
         /\ reservation[t].amount \in Nat
<1>1. t \in Turns /\ turn[t].agent \in Agents /\ s \in Scopes /\ t \in Below(s)
  BY DEF ActiveOwned, Active, Path, Scopes, Below
<1>2. reservation[t].amount \in Nat
  BY <1>1 DEF AccountsTyped, ReservationRecord
<1>3. account[s].slots = Cardinality(Below(s)) /\ account[s].reserved = Sum(Amounts(s))
  BY <1>1, ExactScope
<1>4. Cardinality(Below(s)) \in Nat /\ Cardinality(Below(s)) # 0
  BY <1>1, LiveFacts, FS_EmptySet
<1> DEFINE f == [u \in {t} |-> reservation[u].amount]
<1>5. f \in [{t} -> Nat] /\ f[t] = reservation[t].amount
  BY <1>2
<1>6. IsFiniteSet({t}) /\ {t} \in SUBSET Below(s) /\ \A y \in {t} : f[y] = Amounts(s)[y]
  BY <1>1, FS_Singleton DEF Amounts
<1> HIDE DEF f
<1>7. Sum(f) \in Nat /\ Sum(Amounts(s)) \in Nat /\ Sum(f) <= Sum(Amounts(s))
  <2>1. Amounts(s) \in [Below(s) -> Nat] /\ IsFiniteSet(Below(s))
    BY <1>1, LiveFacts
  <2> QED BY <1>5, <1>6, <2>1, SumSubset
<1>8. Sum(f) = reservation[t].amount
  <2>1. Sum(f) = Total(f, {t})
    BY <1>5, SumIsTotal
  <2>2. Total(f, {t}) = f[t] + Total(f, {t} \ {t})
    BY <1>5, <1>6, TotalStep
  <2>3. {t} \ {t} = {}
    OBVIOUS
  <2>4. Total(f, {t}) = f[t] + 0
    BY <2>2, <2>3, TotalEmpty, Zenon
  <2> QED BY <1>2, <1>5, <2>1, <2>4
<1> QED BY <1>1, <1>2, <1>3, <1>4, <1>7, <1>8 DEF CanSubtract

-----------------------------------------------------------------------------
(* The manager's budgets.                                                  *)

\* Actions that may change what the manager keeps of budgets.
LEMMA FrameBudget ==
  [Next]_vars =>
     \/ UNCHANGED <<limit, spent, result, kept, own, held>>
     \/ \E c \in Callers, a \in Agents : Spawn(c, a) \/ FollowUp(c, a) \/ CloseAgent(c, a)
     \/ \E c \in Callers : Takeover(c) \/ Refused(c) \/ Cleanup(c) \/ Interrupted(c)
                            \/ CloseFails(c)
     \/ \E j \in jobs : Settle(j)
     \/ Restart
BY DEF Next, Request, CallStep, TurnStep, Interrupt, Check, Admit, Reserve, Activate, Refund,
     Track, Submit, NoChild, Accepted, Release, ReleaseThread, TransitionFails, TurnOpens,
     TurnEnds, TurnRejected, RejectionLost, Observe,
     AwaitApproval, ResumeApproval, SettleRefused,
       vars, manager, graph, governor, ledger, runtime

\* An agent that starts holds what is left of its budget.
LEMMA StartHeld ==
  ASSUME ManagerTyped, NEW a \in Agents, Start(a)
  PROVE  HeldTyped'
<1> USE DEF ManagerTyped, HeldTyped
<1>1. Remaining(a) \in Nat
  BY DEF Start, MayStart, Remaining
<1>2. own' = [own EXCEPT ![a] = Remaining(a)] /\ held' = held + Remaining(a)
  BY DEF Start
<1>3. own' \in [Agents -> Nat] /\ held' \in Nat
  BY <1>1, <1>2
<1>4. kept' \in [Agents -> Nat]
  BY <1>1 DEF Start
<1>5. own \in [Agents -> Int] /\ own' \in [Agents -> Int] /\ \A y \in Agents \ {a} : own[y] = own'[y]
  BY <1>2, <1>3
<1>6. Sum(own) \in Int /\ Sum(own') = Sum(own) + (own'[a] - own[a])
  BY <1>5, Finite, SumChange
<1>7. own'[a] = Remaining(a) /\ own[a] \in Nat
  BY <1>2
<1>8. Sum(own') <= held'
  BY <1>1, <1>2, <1>6, <1>7
<1> QED BY <1>3, <1>4, <1>8

\* An agent that leaves its slot holds nothing.
LEMMA LeaveHeld ==
  ASSUME ManagerTyped, NEW a \in Agents, Leave(a)
  PROVE  HeldTyped'
<1> USE DEF ManagerTyped, HeldTyped
<1>1. CASE ~Occupies(a)
  BY <1>1 DEF Leave
<1>2. CASE Occupies(a)
  <2>1. own' = [own EXCEPT ![a] = 0] /\ held' = held - own[a] /\ kept' = [kept EXCEPT ![a] = 0]
    BY <1>2 DEF Leave
  <2>2. own' \in [Agents -> Nat] /\ kept' \in [Agents -> Nat]
    BY <2>1
  <2>3. own \in [Agents -> Int] /\ own' \in [Agents -> Int] /\ \A y \in Agents \ {a} : own[y] = own'[y]
    BY <2>1, <2>2
  <2>4. Sum(own) \in Int /\ Sum(own') = Sum(own) + (own'[a] - own[a])
    BY <2>3, Finite, SumChange
  <2>5. own'[a] = 0 /\ own[a] \in Nat
    BY <2>1
  <2>6. Sum(own') \in Nat
    BY <2>2, Finite, SumNat
  <2>7. Sum(own') <= held' /\ held' \in Nat
    BY <2>1, <2>4, <2>5, <2>6
  <2> QED BY <2>2, <2>7
<1> QED BY <1>1, <1>2

\* Budgets keep their types; no agent is given more than the tree has.
LEMMA ManagerTypedStep ==
  ASSUME ChildInv, ManagerTyped, [Next]_vars
  PROVE  ManagerTyped'
<1> USE DEF ChildInv, Shape, CallsTyped
<1>1. CASE UNCHANGED <<limit, spent, result, kept, own, held>>
  BY <1>1 DEF ManagerTyped, HeldTyped
<1>2. ASSUME NEW c \in Callers, NEW a \in Agents, Spawn(c, a) PROVE ManagerTyped'
  <2>1. PICK b : b > 0 /\ b <= Free /\ limit' = [limit EXCEPT ![a] = b] /\ b \in Int
    <3>1. PICK ask \in Asks[a] : /\ 0 < Budget(ask) /\ Budget(ask) <= Free
                                 /\ limit' = [limit EXCEPT ![a] = Budget(ask)]
      BY <1>2 DEF Spawn
    <3>2. ask \in Nat
      BY <3>1, ChildConstants
    <3>3. Sum(spent) \in Nat
      BY Finite, SumNat DEF ManagerTyped
    <3>4. Free \in Int
      BY <3>3, ChildConstants DEF Free, ManagerTyped, HeldTyped
    <3>5. Share \in Int
      BY ChildConstants DEF Share
    <3>6. Budget(ask) \in Int
      BY <3>2, <3>4, <3>5 DEF Budget
    <3> QED BY <3>1, <3>6
  <2>2. Sum(spent) \in Nat
    BY Finite, SumNat DEF ManagerTyped
  <2>3. b \in 0..MaxTokens
    BY <2>1, <2>2, ChildConstants DEF Free, ManagerTyped, HeldTyped
  <2> QED BY <1>2, <2>1, <2>3 DEF Spawn, ManagerTyped, HeldTyped
<1>3. ASSUME NEW a \in Agents, Start(a) PROVE ManagerTyped'
  BY <1>3, StartHeld DEF Start, ManagerTyped
<1>4. ASSUME NEW a \in Agents, Close(a) PROVE ManagerTyped'
  <2>1. CASE UNCHANGED manager
    BY <2>1 DEF manager, graph, ManagerTyped, HeldTyped
  <2>2. CASE Leave(a) /\ UNCHANGED <<turnID, result, limit, spent>>
    BY <2>2, LeaveHeld DEF ManagerTyped
  <2> QED BY <1>4, <2>1, <2>2 DEF Close
<1>5. ASSUME NEW a \in Agents, NEW s, NEW t \in Turns \cup {NoTurn}, NEW used \in Nat, EndWith(a, s, t, used)
      PROVE  ManagerTyped'
  <2>1. HeldTyped' /\ UNCHANGED limit
    BY <1>5, LeaveHeld DEF EndWith, End
  <2>2. spent' \in [Agents -> Nat] /\ result' \in [Agents -> Turns \cup {NoTurn}]
    BY <1>5 DEF EndWith, ManagerTyped
  <2> QED BY <2>1, <2>2 DEF ManagerTyped
<1>6. ASSUME UNCHANGED manager PROVE ManagerTyped'
  BY <1>6 DEF manager, graph, ManagerTyped, HeldTyped
<1>7. ASSUME NEW c \in Callers, NEW a \in Agents, FollowUp(c, a) \/ CloseAgent(c, a) PROVE ManagerTyped'
  BY <1>3, <1>4, <1>7 DEF FollowUp, CloseAgent
<1>8. ASSUME NEW c \in Callers, Takeover(c) PROVE ManagerTyped'
  <2>1. call[c].agent \in Agents
    BY <1>8 DEF Takeover
  <2> QED BY <1>3, <1>6, <1>8, <2>1 DEF Takeover
<1>9. ASSUME NEW c \in Callers, Refused(c) PROVE ManagerTyped'
  <2>1. call[c].agent \in Agents
    BY <1>9 DEF Refused
  <2>2. EndWith(call[c].agent, "failed", NoTurn, 0) \/ UNCHANGED manager
    BY <1>9 DEF Refused
  <2> QED BY <1>5, <1>6, <2>1, <2>2
<1>10. ASSUME NEW c \in Callers, Cleanup(c) PROVE ManagerTyped'
  <2>1. call[c].agent \in Agents
    BY <1>10 DEF Cleanup
  <2> QED BY <1>4, <1>10, <2>1 DEF Cleanup
<1>11. ASSUME NEW c \in Callers, Interrupted(c) PROVE ManagerTyped'
  <2>1. call[c].agent \in Agents
    BY <1>11 DEF Interrupted
  <2>2. CASE Leave(call[c].agent) /\ UNCHANGED <<limit, result, spent>>
    BY <2>1, <2>2, LeaveHeld DEF ManagerTyped
  <2> QED BY <1>6, <1>11, <2>2 DEF Interrupted, End
<1>11a. ASSUME NEW c \in Callers, CloseFails(c) PROVE ManagerTyped'
  <2>1. call[c].agent \in Agents
    BY <1>11a DEF CloseFails
  <2>2. Leave(call[c].agent) /\ UNCHANGED <<limit, result, spent>>
    BY <1>11a DEF CloseFails, End
  <2> QED BY <2>1, <2>2, LeaveHeld DEF ManagerTyped
<1>12. ASSUME NEW j \in jobs, Settle(j) PROVE ManagerTyped'
  <2>1. j.agent \in Agents /\ j.turn \in Turns /\ j.used \in Nat
    BY UsedNat DEF TrackedTyped, JobRecord
  <2>2. EndWith(j.agent, j.status, j.turn, j.used) \/ UNCHANGED manager
    BY <1>12 DEF Settle
  <2> QED BY <1>5, <1>6, <2>1, <2>2
<1>13. CASE Restart
  <2> USE DEF ManagerTyped, HeldTyped
  <2>1. own' = [a \in Agents |-> 0] /\ held' = Sum(kept) /\ UNCHANGED <<limit, spent, kept>>
    BY <1>13 DEF Restart
  <2>2. result' \in [Agents -> Turns \cup {NoTurn}]
    <3>1. \A a \in Agents : LatestTurn(a) \in Turns \cup {NoTurn}
      BY LatestIsSubmitted DEF Latest, Submitted
    <3> QED BY <1>13, <3>1 DEF Restart
  <2>3. own' \in [Agents -> Nat] /\ held' \in Nat
    BY <2>1, Finite, SumNat
  <2>4. own' \in [Agents -> Int] /\ kept \in [Agents -> Int] /\ \A y \in Agents : own'[y] <= kept[y]
    BY <2>1
  <2>5. Sum(own') <= held'
    BY <2>1, <2>4, Finite, SumMono
  <2> QED BY <2>1, <2>2, <2>3, <2>5
<1> QED BY <1>1, <1>2, <1>7, <1>8, <1>9, <1>10, <1>11, <1>11a, <1>12, <1>13, FrameBudget

\* What Reserve, a settlement or a refund, and a restart do to the ledger.
TakesReservation(a, t) ==
  /\ a \in Agents /\ turn[t].agent = a /\ turn[t].state = "named" /\ turn' = turn
  /\ reservation[t].state = "none" /\ Ask(a) \in Nat
  /\ account' = [s \in Scopes |-> IF s \in Path(a) THEN AddUsage(account[s], Ask(a)) ELSE account[s]]
  /\ reservation' = [reservation EXCEPT ![t] = [amount |-> Ask(a), state |-> "active"]]
  /\ account'[Tree].spent + account'[Tree].reserved <= MaxTokens
EndsReservation(t, used) ==
  /\ t \in Active /\ used \in {0, turn[t].used} /\ turn'[t].used = turn[t].used
  /\ account' = [s \in Scopes |->
                   IF s \in Path(turn[t].agent)
                   THEN [reserved |-> account[s].reserved - reservation[t].amount,
                         slots |-> account[s].slots - 1, spent |-> account[s].spent + used]
                   ELSE account[s]]
  /\ reservation' = [reservation EXCEPT ![t] = [amount |-> @.amount, state |-> "done"]]
EmptiesLedger ==
  /\ account' = [s \in Scopes |-> [reserved |-> 0, slots |-> 0, spent |-> 0]]
  /\ reservation' = [t \in Turns |-> [amount |-> 0, state |-> "none"]]

\* A settlement never underflows half-way up the path: it updates all of it.
LEMMA SettleIsWhole ==
  ASSUME LedgerInv, NEW t \in Turns, SettleBudget(turn[t].agent, t, turn[t].used) \/ SettleBudget(turn[t].agent, t, 0),
         turn'[t].used = turn[t].used
  PROVE  UNCHANGED ledger \/ \E used \in {0, turn[t].used} : EndsReservation(t, used)
<1> SUFFICES ASSUME reservation[t].state = "active" PROVE \E used \in {0, turn[t].used} : EndsReservation(t, used)
  BY DEF SettleBudget
<1>1. PICK used \in {0, turn[t].used} : SettleBudget(turn[t].agent, t, used)
  OBVIOUS
<1>2. t \in Active
  BY DEF Active
<1>3. turn[t].agent \in Path(turn[t].agent) /\ Tree \in Path(turn[t].agent)
  BY DEF Path
<1>4. CanSubtract(turn[t].agent, t) /\ CanSubtract(Tree, t)
  BY <1>2, <1>3, ActiveCounted DEF LedgerInv, Fresh
<1>5. Updated(turn[t].agent, t) = Path(turn[t].agent)
  BY <1>4 DEF Updated
<1>6. account' = Subtract(turn[t].agent, t, used) /\
      reservation' = [reservation EXCEPT ![t] = [amount |-> @.amount, state |-> "done"]]
  BY <1>1, <1>5 DEF SettleBudget
<1> QED BY <1>2, <1>5, <1>6 DEF EndsReservation, Subtract

\* The ledger changes by a reservation, by the end of one, or by a restart.
LEMMA LedgerMoves ==
  ASSUME LedgerInv, [Next]_vars
  PROVE  \/ UNCHANGED ledger
         \/ \E t \in Turns : TakesReservation(turn[t].agent, t)
         \/ \E t \in Turns : \E used \in {0, turn[t].used} : EndsReservation(t, used)
         \/ EmptiesLedger
<1> USE DEF LedgerInv, ChildInv
<1>1. ASSUME NEW c \in Callers, Reserve(c)
      PROVE  UNCHANGED ledger \/ \E t \in Turns : TakesReservation(turn[t].agent, t)
  <2> SUFFICES ASSUME CanReserve(call[c].agent)
               PROVE  \E t \in Turns : TakesReservation(turn[t].agent, t)
    BY <1>1 DEF Reserve
  <2> DEFINE a == call[c].agent
             t == call[c].turn
  <2>1. a \in Agents /\ t \in Turns /\ turn[t].state = "named" /\ turn[t].agent = a
    BY <1>1, ClaimFacts DEF Reserve, Before, Named, NamedTurns
  <2>2. reservation[t].state = "none"
    BY <1>1 DEF Reserve, Fresh, CallFree
  <2>3. a \in Scopes /\ Tree \in Scopes /\ Tree \in Path(a)
    BY <2>1 DEF Scopes, Path
  <2>4. account[a] \in AccountRecord /\ account[Tree] \in AccountRecord
    BY <2>3 DEF AccountsTyped
  <2>5. Ask(a) > 0 /\ ~BudgetExhausted(Tree, AddUsage(account[Tree], Ask(a)))
    BY <2>3 DEF CanReserve
  <2>6. /\ account' = [s \in Scopes |-> IF s \in Path(a) THEN AddUsage(account[s], Ask(a)) ELSE account[s]]
        /\ reservation' = [reservation EXCEPT ![t] = [amount |-> Ask(a), state |-> "active"]]
        /\ turn' = turn
    BY <1>1 DEF Reserve
  <2>7. limit[a] \in Int
    BY <2>1, ChildConstants DEF ManagerTyped
  <2>8. Ask(a) \in Nat
    BY <2>4, <2>5, <2>7 DEF Ask, AccountRecord
  <2>9. account'[Tree] = AddUsage(account[Tree], Ask(a))
    BY <2>3, <2>6
  <2>10. account'[Tree].spent + account'[Tree].reserved <= MaxTokens
    BY <2>4, <2>5, <2>8, <2>9, ChildConstants DEF BudgetExhausted, AddUsage, AccountRecord, ScopeTokens
  <2> HIDE DEF a, t
  <2> QED BY <2>1, <2>2, <2>6, <2>8, <2>10 DEF TakesReservation
<1>2. ASSUME NEW c \in Callers, Activate(c) \/ Submit(c)
      PROVE  UNCHANGED ledger \/ \E t \in Turns : \E used \in {0, turn[t].used} : EndsReservation(t, used)
  <2>1. call[c].turn \in Turns /\ turn[call[c].turn].agent = call[c].agent
    BY <1>2, ClaimFacts DEF Activate, Submit, Before, Named, NamedTurns
  <2>2. UNCHANGED ledger \/ (SettleBudget(call[c].agent, call[c].turn, 0) /\ turn' = turn)
    BY <1>2 DEF Activate, Submit, Refund
  <2> QED BY <2>1, <2>2, SettleIsWhole
<1>3. ASSUME NEW t \in Turns, Observe(t)
      PROVE  UNCHANGED ledger \/ \E used \in {0, turn[t].used} : EndsReservation(t, used)
  <2>1. UNCHANGED ledger \/ SettleBudget(turn[t].agent, t, turn[t].used)
    BY <1>3 DEF Observe
  <2>2. turn'[t].used = turn[t].used
    BY <1>3 DEF Observe, Shape, TurnsTyped, TurnRecord
  <2> QED BY <2>1, <2>2, SettleIsWhole
<1>4. CASE Restart
  BY <1>4 DEF Restart, EmptiesLedger
<1> QED BY <1>1, <1>2, <1>3, <1>4, FrameLedger

-----------------------------------------------------------------------------
(* What every action preserves.                                            *)

\* Accounts and reservations keep their types.
LEMMA AccountsTypedStep ==
  ASSUME LedgerInv, [Next]_vars
  PROVE  AccountsTyped'
<1> USE DEF LedgerInv, AccountsTyped, AccountRecord, ReservationRecord
<1>1. CASE UNCHANGED ledger
  BY <1>1 DEF ledger
<1>2. ASSUME NEW t \in Turns, TakesReservation(turn[t].agent, t) PROVE AccountsTyped'
  <2>1. account' \in [Scopes -> AccountRecord]
    BY <1>2 DEF TakesReservation, AddUsage
  <2>2. reservation' \in [Turns -> ReservationRecord]
    BY <1>2 DEF TakesReservation
  <2> QED BY <2>1, <2>2
<1>3. ASSUME NEW t \in Turns, NEW used \in {0, turn[t].used}, EndsReservation(t, used) PROVE AccountsTyped'
  <2>0. used \in Nat /\ reservation[t].amount \in Nat
    BY UsedNat DEF ChildInv, Shape, TurnsTyped, TurnRecord
  <2>1. account' \in [Scopes -> AccountRecord]
    BY <1>3, <2>0 DEF EndsReservation
  <2>2. reservation' \in [Turns -> ReservationRecord]
    BY <1>3 DEF EndsReservation
  <2> QED BY <2>1, <2>2
<1>4. CASE EmptiesLedger
  BY <1>4 DEF EmptiesLedger
<1> QED BY <1>1, <1>2, <1>3, <1>4, LedgerMoves

\* A turn has used nothing until it ends.
LEMMA FreshUnusedStep ==
  ASSUME ChildInv, FreshUnused, [Next]_vars
  PROVE  FreshUnused'
<1> USE DEF ChildInv, Shape, TurnsTyped, TurnRecord, FreshUnused, Live
<1>1. CASE UNCHANGED turn
  BY <1>1
<1>2. ASSUME NEW c \in Callers, Check(c) PROVE FreshUnused'
  <2>1. CASE UNCHANGED turn
    BY <2>1
  <2>2. ASSUME NEW t \in Turns, turn[t].state = "none",
               turn' = [turn EXCEPT ![t].agent = call[c].agent, ![t].state = "named"]
        PROVE  FreshUnused'
    BY <2>2
  <2> QED BY <1>2, <2>1, <2>2 DEF Check
<1>3. ASSUME NEW c \in Callers, Submit(c) PROVE FreshUnused'
  BY <1>3 DEF Submit, NamedTurns, Named, Before
<1>4. ASSUME NEW u \in Turns, TurnEnds(u) PROVE FreshUnused'
  BY <1>4 DEF TurnEnds
<1>4a. ASSUME NEW u \in Turns, TurnOpens(u) \/ TurnRejected(u) \/ RejectionLost(u) PROVE FreshUnused'
  BY <1>4a DEF TurnOpens, TurnRejected, RejectionLost
<1>5. ASSUME NEW u \in Turns, Observe(u) PROVE FreshUnused'
  BY <1>5 DEF Observe
<1>6. CASE Restart
  <2>1. \A t \in Turns : turn'[t] = AfterRestart(turn[t])
    BY <1>6 DEF Restart
  <2>2. ASSUME NEW t \in Turns, AfterRestart(turn[t]).state \in {"none", "named"} \cup Live
        PROVE  turn[t].state \in {"none", "named"} \cup Live
    BY <2>2 DEF AfterRestart, TurnStates
  <2>3. \A t \in Turns : turn'[t].used = turn[t].used
    BY <1>6, RestartTurns
  <2> QED BY <2>1, <2>2, <2>3
<1> QED BY <1>1, <1>2, <1>3, <1>4, <1>4a, <1>5, <1>6, FrameTurn

\* A turn that has no name has no reservation.
LEMMA FreshFreeStep ==
  ASSUME LedgerInv, [Next]_vars
  PROVE  FreshFree'
<1> SUFFICES ASSUME NEW t \in Turns, turn'[t].state = "none" PROVE reservation'[t].state = "none"
  BY DEF FreshFree
<1>1. turn[t].state = "none" /\ reservation[t].state = "none"
  BY TurnMoves DEF LedgerInv, Fresh, FreshFree
<1>2. CASE UNCHANGED ledger
  BY <1>1, <1>2 DEF ledger
<1>3. ASSUME NEW u \in Turns, TakesReservation(turn[u].agent, u) PROVE reservation'[t].state = "none"
  BY <1>1, <1>3 DEF TakesReservation, LedgerInv, AccountsTyped
<1>4. ASSUME NEW u \in Turns, NEW used \in {0, turn[u].used}, EndsReservation(u, used)
      PROVE  reservation'[t].state = "none"
  BY <1>1, <1>4 DEF EndsReservation, Active, LedgerInv, AccountsTyped
<1>5. CASE EmptiesLedger
  BY <1>5 DEF EmptiesLedger
<1> QED BY <1>2, <1>3, <1>4, <1>5, LedgerMoves

\* A turn that a call has named and not yet reserved for has no reservation.
LEMMA CallFreeStep ==
  ASSUME LedgerInv, [Next]_vars
  PROVE  CallFree'
<1> USE DEF LedgerInv, ChildInv, Shape, CallsTyped
<1> SUFFICES ASSUME NEW d \in Callers, call'[d].pc \in {"admit", "reserve"}
             PROVE  reservation'[call'[d].turn].state = "none"
  BY DEF CallFree
<1>1. \/ /\ call'[d].turn = call[d].turn /\ call[d].pc \in {"admit", "reserve"}
      \/ \E c \in Callers : Check(c) /\ d = c
  <2>1. CASE call'[d] = call[d]
    BY <2>1
  <2>2. ASSUME NEW c \in Callers, Admit(c)
        PROVE  call'[d] = call[d] \/ (call'[d].turn = call[d].turn /\ call[d].pc = "admit")
    <3>1. call[c].pc = "admit" /\ \E pc \in Steps : Goto(c, pc)
      BY <2>2, StepNames DEF Admit
    <3>2. PICK pc \in Steps : Goto(c, pc)
      BY <3>1
    <3>3. d # c => call'[d] = call[d]
      BY <3>1, <3>2, GotoEffect
    <3>4. call'[c].turn = call[c].turn
      BY <3>1, <3>2, GotoEffect
    <3> QED BY <3>1, <3>3, <3>4
  <2>3. ASSUME NEW c \in Callers, Check(c) PROVE call'[d] = call[d] \/ d = c
    BY <2>3, CheckEffect
  <2>4. ASSUME NEW c \in Callers, NEW pc \in Steps \ {"admit", "reserve"}, call[c].pc # "idle", Goto(c, pc)
        PROVE  call'[d] = call[d]
    BY <2>4, GotoEffect
  <2>5. ASSUME NEW c \in Callers, Return(c) PROVE call'[d] = call[d]
    BY <2>5, ReturnEffect
  <2>6. ASSUME NEW c \in Callers, NEW a \in Agents, Spawn(c, a) \/ FollowUp(c, a) \/ Interrupt(c, a) \/ CloseAgent(c, a)
        PROVE  call'[d] = call[d]
    BY <2>6 DEF Spawn, FollowUp, Interrupt, CloseAgent
  <2>7. ASSUME NEW c \in Callers, Takeover(c) \/ Reserve(c) \/ Activate(c) \/ Track(c) \/ Submit(c)
        PROVE  call'[d] = call[d]
    BY <2>4, <2>7, StepNames DEF Takeover, Reserve, Activate, Track, Submit
  <2>8. ASSUME NEW c \in Callers, Accepted(c) \/ Refused(c) \/ Cleanup(c) \/ Interrupted(c) \/ Release(c) \/ ReleaseThread(c)
        PROVE  call'[d] = call[d]
    BY <2>4, <2>5, <2>8, StepNames DEF Accepted, Refused, Cleanup, Interrupted, Release, ReleaseThread
  <2>8a. ASSUME NEW c \in Callers, TransitionFails(c) \/ CloseFails(c) PROVE call'[d] = call[d]
    BY <2>4, <2>5, <2>8a, StepNames DEF TransitionFails, CloseFails
  <2>9. CASE Restart
    BY <2>9 DEF Restart, Idle
  <2> QED BY <2>1, <2>2, <2>3, <2>6, <2>7, <2>8, <2>8a, <2>9, FrameCall
<1>2. ASSUME NEW c \in Callers, Check(c), d = c PROVE reservation'[call'[d].turn].state = "none"
  <2>1. call'[d].turn \in Turns /\ turn[call'[d].turn].state = "none"
    BY <1>2, CheckEffect
  <2>2. reservation' = reservation
    BY <1>2 DEF Check, ledger
  <2> QED BY <2>1, <2>2 DEF Fresh, FreshFree
<1>3. ASSUME call'[d].turn = call[d].turn, call[d].pc \in {"admit", "reserve"}
      PROVE  reservation'[call'[d].turn].state = "none"
  <2>1. call[d].turn \in Turns /\ reservation[call[d].turn].state = "none"
    BY <1>3, ClaimFacts DEF Before, Fresh, CallFree
  <2>2. CASE UNCHANGED ledger
    BY <1>3, <2>1, <2>2 DEF ledger
  <2>3. ASSUME NEW c \in Callers, Reserve(c) PROVE reservation'[call'[d].turn].state = "none"
    <3>1. CASE d = c
      <4>1. call'[d].pc \in {"activate", "refused"}
        BY <2>3, <3>1, GotoEffect, StepNames DEF Reserve
      <4> QED BY <4>1
    <3>2. CASE d # c
      <4>1. call[d].turn # call[c].turn
        BY <1>3, <2>3, <3>2 DEF Reserve, Named, NamedOnce, Before
      <4> QED BY <1>3, <2>1, <2>3, <4>1 DEF Reserve, ledger, AccountsTyped
    <3> QED BY <3>1, <3>2
  <2>4. ASSUME NEW u \in Turns, NEW used \in {0, turn[u].used}, EndsReservation(u, used)
        PROVE  reservation'[call'[d].turn].state = "none"
    BY <1>3, <2>1, <2>4 DEF EndsReservation, Active, AccountsTyped
  <2>5. CASE EmptiesLedger
    BY <1>3, <2>1, <2>5 DEF EmptiesLedger
  <2>6. ASSUME NEW u \in Turns, TakesReservation(turn[u].agent, u)
        PROVE  \E c \in Callers : Reserve(c)
    <3>1. reservation[u].state = "none" /\ reservation'[u].state = "active"
      BY <2>6 DEF TakesReservation, AccountsTyped
    <3>2. ASSUME NEW t \in Turns, NEW used \in {0, turn[t].used}, EndsReservation(t, used) PROVE FALSE
      BY <3>1, <3>2 DEF EndsReservation, Active, AccountsTyped
    <3>3. ~Restart /\ ~UNCHANGED ledger
      <4>1. Restart => reservation'[u].state = "none"
        <5>1. Restart => EmptiesLedger
          BY DEF Restart, EmptiesLedger
        <5> QED BY <5>1 DEF EmptiesLedger
      <4> QED BY <3>1, <4>1 DEF ledger
    <3>4. ASSUME NEW c \in Callers, Activate(c) \/ Submit(c) PROVE FALSE
      BY <3>1, <3>3, <3>4, ClaimFacts, SettleEffect DEF Activate, Submit, Refund, Before
    <3>5. ASSUME NEW t \in Turns, Observe(t) PROVE FALSE
      BY <3>1, <3>3, <3>5, SettleEffect DEF Observe, AllBegun, BegunTurns, Begun
    <3> QED BY <3>3, <3>4, <3>5, FrameLedger
  <2> QED BY <2>2, <2>3, <2>4, <2>5, <2>6, LedgerMoves
<1> QED BY <1>1, <1>2, <1>3

\* Active reservations belong to agents.
LEMMA ActiveOwnedStep ==
  ASSUME LedgerInv, [Next]_vars
  PROVE  ActiveOwned'
<1> SUFFICES ASSUME NEW t \in Turns, reservation'[t].state = "active" PROVE turn'[t].agent \in Agents
  BY DEF ActiveOwned, Active
<1>1. CASE reservation[t].state = "active"
  <2>1. turn[t].agent \in Agents /\ turn[t].state # "none"
    BY <1>1 DEF LedgerInv, Fresh, ActiveOwned, Active, FreshFree
  <2> QED BY <2>1, TurnMoves DEF LedgerInv, Fresh
<1>2. CASE reservation[t].state # "active"
  <2>1. CASE UNCHANGED ledger
    BY <1>2, <2>1 DEF ledger
  <2>2. ASSUME NEW u \in Turns, TakesReservation(turn[u].agent, u) PROVE turn'[t].agent \in Agents
    BY <1>2, <2>2 DEF TakesReservation, LedgerInv, AccountsTyped
  <2>3. ASSUME NEW u \in Turns, NEW used \in {0, turn[u].used}, EndsReservation(u, used) PROVE FALSE
    BY <1>2, <2>3 DEF EndsReservation, LedgerInv, AccountsTyped
  <2>4. CASE EmptiesLedger
    BY <2>4 DEF EmptiesLedger
  <2> QED BY <2>1, <2>2, <2>3, <2>4, LedgerMoves
<1> QED BY <1>1, <1>2

\* The scopes reserve what the active reservations below them do.
LEMMA LedgerExactStep ==
  ASSUME LedgerInv, AccountsTyped', [Next]_vars
  PROVE  LedgerExact'
<1> USE DEF LedgerInv
<1> SUFFICES ASSUME NEW s \in Scopes
             PROVE  account'[s].slots = Cardinality(Below(s)') /\ account'[s].reserved = Sum(Amounts(s)')
  BY DEF LedgerExact, Below, Amounts
<1>1. account[s].slots = Cardinality(Below(s)) /\ account[s].reserved = Sum(Amounts(s))
  BY ExactScope
<1>2. /\ IsFiniteSet(Below(s)) /\ Below(s) \in SUBSET Turns /\ Amounts(s) \in [Below(s) -> Nat]
      /\ Cardinality(Below(s)) \in Nat /\ Sum(Amounts(s)) \in Nat
  BY LiveFacts
<1>3. \A t \in Active : turn'[t].agent = turn[t].agent
  BY TurnMoves DEF Fresh, FreshFree, Active
<1>4. CASE UNCHANGED ledger
  <2>1. Below(s)' = Below(s) /\ Amounts(s)' = Amounts(s) /\ account' = account
    BY <1>3, <1>4 DEF Below, Active, Amounts, ledger
  <2> QED BY <1>1, <2>1
<1>5. ASSUME NEW t \in Turns, TakesReservation(turn[t].agent, t)
      PROVE  account'[s].slots = Cardinality(Below(s)') /\ account'[s].reserved = Sum(Amounts(s)')
  <2>1. /\ turn' = turn /\ t \notin Active /\ Ask(turn[t].agent) \in Nat
        /\ reservation' = [reservation EXCEPT ![t] = [amount |-> Ask(turn[t].agent), state |-> "active"]]
        /\ account'[s] = IF s \in Path(turn[t].agent) THEN AddUsage(account[s], Ask(turn[t].agent)) ELSE account[s]
    BY <1>5 DEF TakesReservation, Active
  <2>2. Active' = Active \cup {t} /\ t \notin Below(s)
    BY <2>1 DEF Active, AccountsTyped, Below
  <2>3. CASE s \notin Path(turn[t].agent)
    <3>1. Below(s)' = Below(s)
      BY <2>1, <2>2, <2>3 DEF Below
    <3>2. Amounts(s)' = Amounts(s)
      BY <1>2, <2>1, <2>2, <3>1 DEF Amounts, AccountsTyped
    <3> QED BY <1>1, <2>1, <2>3, <3>1, <3>2
  <2>4. CASE s \in Path(turn[t].agent)
    <3>1. Below(s)' = Below(s) \cup {t}
      BY <2>1, <2>2, <2>4 DEF Below
    <3>2. Cardinality(Below(s)') = Cardinality(Below(s)) + 1
      BY <1>2, <2>2, <3>1, FS_AddElement
    <3>3. \A y \in Below(s) : Amounts(s)'[y] = Amounts(s)[y]
      BY <1>2, <2>1, <2>2, <3>1 DEF Amounts, AccountsTyped
    <3>4. Amounts(s)' \in [Below(s) \cup {t} -> Int] /\ Amounts(s)'[t] = Ask(turn[t].agent)
      BY <1>2, <2>1, <3>1 DEF Amounts, AccountsTyped, ReservationRecord
    <3>5. Sum(Amounts(s)') = Sum(Amounts(s)) + Amounts(s)'[t]
      <4> DEFINE f == Amounts(s)
                 e == Amounts(s)'
                 S == Below(s)
      <4>1. /\ IsFiniteSet(S) /\ t \notin S /\ f \in [S -> Int] /\ e \in [S \cup {t} -> Int]
            /\ \A y \in S : e[y] = f[y]
        BY <1>2, <2>2, <3>3, <3>4
      <4> HIDE DEF f, e, S
      <4>2. Sum(e) = Sum(f) + e[t]
        BY <4>1, SumAdd
      <4> QED BY <4>2 DEF e, f
    <3> QED BY <1>1, <1>2, <2>1, <2>4, <3>2, <3>4, <3>5 DEF AddUsage
  <2> QED BY <2>3, <2>4
<1>6. ASSUME NEW t \in Turns, NEW used \in {0, turn[t].used}, EndsReservation(t, used)
      PROVE  account'[s].slots = Cardinality(Below(s)') /\ account'[s].reserved = Sum(Amounts(s)')
  <2>1. /\ t \in Active
        /\ reservation' = [reservation EXCEPT ![t] = [amount |-> @.amount, state |-> "done"]]
        /\ account'[s] = IF s \in Path(turn[t].agent)
                         THEN [reserved |-> account[s].reserved - reservation[t].amount,
                               slots |-> account[s].slots - 1, spent |-> account[s].spent + used]
                         ELSE account[s]
    BY <1>6 DEF EndsReservation
  <2>2. Active' = Active \ {t}
    BY <2>1 DEF Active, AccountsTyped
  <2>3. CASE s \notin Path(turn[t].agent)
    <3>1. Below(s)' = Below(s)
      BY <1>3, <2>1, <2>2, <2>3 DEF Below
    <3>2. Amounts(s)' = Amounts(s)
      BY <1>2, <2>1, <2>2, <3>1 DEF Amounts, AccountsTyped
    <3> QED BY <1>1, <2>1, <2>3, <3>1, <3>2
  <2>4. CASE s \in Path(turn[t].agent)
    <3>1. Below(s)' = Below(s) \ {t} /\ t \in Below(s)
      BY <1>3, <2>1, <2>2, <2>4 DEF Below
    <3>2. Cardinality(Below(s)') = Cardinality(Below(s)) - 1 /\ IsFiniteSet(Below(s)')
      BY <1>2, <3>1, FS_RemoveElement
    <3>3. \A y \in Below(s)' : Amounts(s)[y] = Amounts(s)'[y]
      BY <1>2, <2>1, <2>2, <3>1 DEF Amounts, AccountsTyped
    <3>4. Amounts(s)[t] = reservation[t].amount /\ reservation[t].amount \in Nat
      BY <1>2, <3>1 DEF Amounts, AccountsTyped, ReservationRecord
    <3>5. Amounts(s)' \in [Below(s) \ {t} -> Int]
      BY <1>2, <2>1, <3>1 DEF Amounts, AccountsTyped, ReservationRecord
    <3>6. Sum(Amounts(s)') = Sum(Amounts(s)) - Amounts(s)[t]
      <4> DEFINE f == Amounts(s)
                 e == Amounts(s)'
                 S == Below(s)
      <4>1. /\ IsFiniteSet(S) /\ t \in S /\ f \in [S -> Int] /\ e \in [S \ {t} -> Int]
            /\ \A y \in S \ {t} : e[y] = f[y]
        BY <1>2, <3>1, <3>3, <3>5
      <4> HIDE DEF f, e, S
      <4>2. Sum(f) = Total(f, S) /\ Sum(e) = Total(e, S \ {t}) /\ IsFiniteSet(S \ {t})
        BY <4>1, SumIsTotal, FS_Subset
      <4>3. Total(f, S) = f[t] + Total(f, S \ {t})
        BY <4>1, TotalStep
      <4>4. Total(e, S \ {t}) = Total(f, S \ {t}) /\ Total(f, S \ {t}) \in Int /\ f[t] \in Int
        BY <4>1, <4>2, TotalSame, TotalStep
      <4>5. Sum(e) = Sum(f) - f[t]
        BY <4>2, <4>3, <4>4
      <4> QED BY <4>5 DEF e, f
    <3> QED BY <1>1, <1>2, <2>1, <2>4, <3>2, <3>4, <3>6
  <2> QED BY <2>3, <2>4
<1>7. CASE EmptiesLedger
  <2>1. account'[s].slots = 0 /\ account'[s].reserved = 0 /\ Below(s)' = {}
    BY <1>7 DEF EmptiesLedger, Below, Active
  <2>2. Sum(Amounts(s)') = Total(Amounts(s)', {})
    BY <2>1, SumIsTotal DEF Amounts
  <2> QED BY <2>1, <2>2, TotalEmpty, FS_EmptySet
<1> QED BY <1>4, <1>5, <1>6, <1>7, LedgerMoves

\* Settling an active reservation changes the ledger.
LEMMA SettleChangesLedger ==
  ASSUME LedgerInv, NEW t \in Turns, NEW used, reservation[t].state = "active",
         SettleBudget(turn[t].agent, t, used)
  PROVE  ~UNCHANGED ledger
<1>1. t \in Active /\ turn[t].agent \in Agents
  BY DEF LedgerInv, Fresh, ActiveOwned, Active
<1>2. turn[t].agent \in Path(turn[t].agent) /\ Tree \in Path(turn[t].agent)
  BY DEF Path
<1>3. CanSubtract(turn[t].agent, t) /\ CanSubtract(Tree, t)
  BY <1>1, <1>2, ActiveCounted DEF LedgerInv, Fresh
<1>4. Updated(turn[t].agent, t) = Path(turn[t].agent)
  BY <1>3 DEF Updated
<1>5. reservation' = [reservation EXCEPT ![t] = [amount |-> @.amount, state |-> "done"]]
  BY <1>4 DEF SettleBudget
<1> QED BY <1>5 DEF ledger, LedgerInv, AccountsTyped

\* A call moves by its own steps only.
LEMMA CallMoves ==
  ASSUME ChildInv, NEW c \in Callers, call[c].pc \in {"activate", "track"}, [Next]_vars
  PROVE  call'[c] = call[c] \/ Activate(c) \/ Track(c) \/ Restart
<1> USE DEF ChildInv, Shape
<1>1. ASSUME NEW d \in Callers, NEW pc \in Steps, call[d].pc \notin {"idle", "activate", "track"}, Goto(d, pc)
      PROVE  call'[c] = call[c]
  BY <1>1, GotoEffect
<1>2. ASSUME NEW d \in Callers, call[d].pc \notin {"idle", "activate", "track"}, Return(d)
      PROVE  call'[c] = call[c]
  BY <1>2, ReturnEffect
<1>3. ASSUME NEW d \in Callers, NEW a \in Agents, Spawn(d, a) \/ FollowUp(d, a) \/ Interrupt(d, a) \/ CloseAgent(d, a)
      PROVE  call'[c] = call[c]
  BY <1>3 DEF Spawn, FollowUp, Interrupt, CloseAgent, CallsTyped
<1>4. ASSUME NEW d \in Callers, Takeover(d) \/ Admit(d) \/ Reserve(d) \/ Submit(d)
      PROVE  call'[c] = call[c]
  BY <1>1, <1>4, StepNames DEF Takeover, Admit, Reserve, Submit
<1>5. ASSUME NEW d \in Callers, Check(d) PROVE call'[c] = call[c]
  BY <1>5, CheckEffect DEF Check
<1>6. ASSUME NEW d \in Callers, Accepted(d) \/ Refused(d) \/ Cleanup(d) \/ Interrupted(d) \/ Release(d) \/ ReleaseThread(d)
      PROVE  call'[c] = call[c]
  BY <1>1, <1>2, <1>6, StepNames DEF Accepted, Refused, Cleanup, Interrupted, Release, ReleaseThread
<1>6a. ASSUME NEW d \in Callers, TransitionFails(d) \/ CloseFails(d) PROVE call'[c] = call[c]
  BY <1>1, <1>2, <1>6a, StepNames DEF TransitionFails, CloseFails
<1>7. ASSUME NEW d \in Callers, Activate(d) \/ Track(d), d # c PROVE call'[c] = call[c]
  BY <1>7, GotoEffect, StepNames DEF Activate, Track
<1> QED BY <1>3, <1>4, <1>5, <1>6, <1>6a, <1>7, FrameCall

\* A closed agent stays closed.
LEMMA ClosedStays ==
  ASSUME ChildInv, NEW a \in Agents, status[a] = "closed", [Next]_vars
  PROVE  status'[a] = "closed"
BY StatusMoves DEF ChildInv, Forward

\* An owner of a reservation gives it up only with the reservation, or to a close.
LEMMA NoLeakStep ==
  ASSUME LedgerInv, [Next]_vars
  PROVE  NoLeak'
<1> USE DEF LedgerInv, ChildInv, Shape
<1> DEFINE Owned(t) == \/ turns[turn[t].agent].id = t
                       \/ \E c \in Callers : call[c].turn = t /\ call[c].pc \in {"activate", "track"}
                       \/ turn[t].agent \in Closed
<1> SUFFICES ASSUME NEW t \in Turns, reservation'[t].state = "active" PROVE Owned(t)'
  BY DEF NoLeak, Active
<1>1. CASE reservation[t].state # "active"
  <2>1. \E c \in Callers : Reserve(c) /\ call[c].turn = t
    <3>1. ~UNCHANGED ledger /\ ~Restart
      <4>1. Restart => EmptiesLedger
        BY DEF Restart, EmptiesLedger
      <4> QED BY <1>1, <4>1 DEF ledger, EmptiesLedger
    <3>2. ASSUME NEW c \in Callers, Activate(c) \/ Submit(c) PROVE FALSE
      BY <1>1, <3>1, <3>2, ClaimFacts, SettleEffect DEF Activate, Submit, Refund, Before
    <3>3. ASSUME NEW u \in Turns, Observe(u) PROVE FALSE
      BY <1>1, <3>1, <3>3, SettleEffect DEF Observe, AllBegun, BegunTurns, Begun
    <3>4. ASSUME NEW c \in Callers, Reserve(c) PROVE call[c].turn = t
      BY <1>1, <3>1, <3>4, ClaimFacts DEF Reserve, ledger, AccountsTyped, Before
    <3> QED BY <3>1, <3>2, <3>3, <3>4, FrameLedger
  <2>2. PICK c \in Callers : Reserve(c) /\ call[c].turn = t
    BY <2>1
  <2>3. Goto(c, "activate")
    BY <1>1, <2>2 DEF Reserve, ledger
  <2>4. call'[c].turn = t /\ call'[c].pc = "activate"
    BY <2>2, <2>3, GotoEffect, StepNames DEF Reserve
  <2> QED BY <2>4
<1>2. CASE reservation[t].state = "active"
  <2>1. turn[t].agent \in Agents /\ turn[t].state # "none" /\ t \in Active
    BY <1>2 DEF Fresh, ActiveOwned, Active, FreshFree
  <2>2. turn'[t].agent = turn[t].agent
    BY <2>1, TurnMoves DEF Fresh
  <2>3. Owned(t)
    BY <2>1 DEF NoLeak
  <2> DEFINE a == turn[t].agent
  <2> HIDE DEF Owned
  <2>4. CASE a \in Closed
    BY <2>1, <2>2, <2>4, ClosedStays DEF Closed, Owned
  <2>5. CASE turns[a].id = t
    <3> SUFFICES ASSUME a \notin Closed PROVE turns'[a].id = t
      BY <2>2, <2>4 DEF Owned
    <3>0. turns[a].leased
      BY <1>2, <2>1, <2>5 DEF Claimed, RecoveredFree, NoTurn, Turns, TrackedTyped
    <3>1. CASE UNCHANGED turns
      BY <2>5, <3>1
    <3>2. ASSUME NEW c \in Callers, Track(c) PROVE turns'[a].id = t
      <4>1. call[c].agent # a
        BY <2>1, <3>0, <3>2 DEF Track, Claimed, ClaimIsLease, Claims
      <4> QED BY <2>1, <2>5, <3>2, <4>1 DEF Track, TrackedTyped
    <3>3. ASSUME NEW c \in Callers, Submit(c) PROVE turns'[a].id = t
      <4>1. CASE call[c].agent # a
        BY <2>1, <2>5, <3>3, <4>1 DEF Submit, TrackedTyped
      <4>2. CASE call[c].agent = a
        <5>1. call[c].turn = t
          BY <2>1, <2>5, <3>0, <3>3, <4>2 DEF Submit, Claimed, ClaimIsLease, Claims
        <5>2. ASSUME SettleBudget(call[c].agent, t, 0), turn' = turn PROVE FALSE
          <6>1. UNCHANGED ledger \/ \E used \in {0, turn[t].used} : EndsReservation(t, used)
            BY <4>2, <5>2, SettleIsWhole
          <6>2. ASSUME NEW used \in {0, turn[t].used}, EndsReservation(t, used) PROVE FALSE
            BY <6>2 DEF EndsReservation, AccountsTyped
          <6>3. ASSUME UNCHANGED ledger PROVE FALSE
            BY <1>2, <2>1, <4>2, <5>2, <6>3, SettleChangesLedger DEF ledger
          <6> QED BY <6>1, <6>2, <6>3
        <5> QED BY <2>5, <3>3, <5>1, <5>2 DEF Submit, Refund
      <4> QED BY <4>1, <4>2
    <3>4. ASSUME NEW c \in Callers, ReleaseThread(c) PROVE turns'[a].id = t
      <4>1. call[c].agent # a
        BY <2>1, <3>4 DEF ReleaseThread, ClosedFirst, ClosedReleases, Closed
      <4> QED BY <2>1, <2>5, <3>4, <4>1 DEF ReleaseThread, TrackedTyped
    <3>5. ASSUME NEW u \in Turns, Observe(u) PROVE turns'[a].id = t
      <4>1. CASE turn[u].agent # a \/ ~(turns[a].id = u /\ (turn[u].state = "ended" \/ turns[a].leased))
        BY <2>1, <2>5, <3>5, <4>1 DEF Observe, TrackedTyped
      <4>2. CASE turn[u].agent = a /\ turns[a].id = u /\ (turn[u].state = "ended" \/ turns[a].leased)
        <5>1. u = t /\ SettleBudget(a, t, turn[t].used) /\ turn'[t].used = turn[t].used
          BY <2>5, <3>5, <4>2 DEF Observe, TurnsTyped, TurnRecord
        <5>2. UNCHANGED ledger \/ \E used \in {0, turn[t].used} : EndsReservation(t, used)
          BY <5>1, SettleIsWhole
        <5>3. ASSUME NEW used \in {0, turn[t].used}, EndsReservation(t, used) PROVE FALSE
          BY <5>3 DEF EndsReservation, AccountsTyped
        <5>4. ASSUME UNCHANGED ledger PROVE FALSE
          BY <1>2, <2>1, <5>1, <5>4, SettleChangesLedger DEF ledger
        <5> QED BY <5>2, <5>3, <5>4
      <4> QED BY <4>1, <4>2
    <3>6. CASE Restart
      <4>1. Restart => EmptiesLedger
        BY DEF Restart, EmptiesLedger
      <4> QED BY <3>6, <4>1 DEF EmptiesLedger
    <3> QED BY <3>1, <3>2, <3>3, <3>4, <3>5, <3>6, FrameTurns
  <2>6. ASSUME NEW c \in Callers, call[c].turn = t, call[c].pc \in {"activate", "track"} PROVE Owned(t)'
    <3>0. call[c].agent = a /\ call[c].pc # "idle"
      BY <2>6 DEF Named, NamedTurns, Before
    <3>1. CASE call'[c] = call[c]
      BY <2>6, <3>1 DEF Owned
    <3>2. CASE Activate(c)
      <4>1. CASE Goto(c, "track")
        BY <2>6, <3>0, <4>1, GotoEffect, StepNames DEF Owned
      <4>2. CASE ~Goto(c, "track")
        <5>1. status[a] = "closed"
          BY <3>0, <3>2, <4>2 DEF Activate
        <5> QED BY <2>1, <2>4, <5>1 DEF Closed
      <4> QED BY <4>1, <4>2
    <3>3. CASE Track(c)
      <4>1. turns'[a].id = t
        BY <2>1, <2>6, <3>0, <3>3 DEF Track, TrackedTyped
      <4> QED BY <2>2, <4>1 DEF Owned
    <3>4. CASE Restart
      <4>1. Restart => EmptiesLedger
        BY DEF Restart, EmptiesLedger
      <4> QED BY <3>4, <4>1 DEF EmptiesLedger
    <3>5. call'[c] = call[c] \/ Activate(c) \/ Track(c) \/ Restart
      BY <2>6, CallMoves
    <3> QED BY <3>1, <3>2, <3>3, <3>4, <3>5
  <2> QED BY <2>3, <2>4, <2>5, <2>6 DEF Owned
<1> QED BY <1>1, <1>2

\* What a turn overran its reservation by is a natural number.
LEMMA OverrunNat ==
  ASSUME AccountsTyped, TurnsTyped
  PROVE  [t \in Turns |-> Overrun(t)] \in [Turns -> Nat]
<1> SUFFICES ASSUME NEW t \in Turns PROVE Overrun(t) \in Nat
  OBVIOUS
<1>1. turn[t].used \in Nat /\ reservation[t].amount \in Nat
  BY UsedNat DEF AccountsTyped, ReservationRecord, TurnsTyped, TurnRecord
<1> QED BY <1>1 DEF Overrun

\* The tree stays within its budget, but for overruns.
LEMMA TreeBudgetStep ==
  ASSUME LedgerInv, AccountsTyped', [Next]_vars
  PROVE  TreeBudget'
<1> USE DEF LedgerInv, ChildInv
<1> DEFINE f == [t \in Turns |-> Overrun(t)]
           e == [t \in Turns |-> Overrun(t)']
<1>0. TurnsTyped'
  BY TurnsTypedStep
<1>1. f \in [Turns -> Nat]
  BY OverrunNat DEF Shape
<1>2. e \in [Turns -> Nat]
  <2> SUFFICES ASSUME NEW t \in Turns PROVE Overrun(t)' \in Nat
    OBVIOUS
  <2>1. turn'[t].used \in Nat /\ reservation'[t].amount \in Nat
    BY <1>0, UsedNat DEF AccountsTyped, ReservationRecord, TurnsTyped, TurnRecord
  <2> QED BY <2>1 DEF Overrun
<1>3. /\ account[Tree].spent + account[Tree].reserved <= MaxTokens + Sum(f)
      /\ account[Tree] \in AccountRecord /\ account'[Tree] \in AccountRecord /\ Tree \in Scopes
  BY DEF TreeBudget, AccountsTyped, Scopes
<1>4. TreeBudget' <=> account'[Tree].spent + account'[Tree].reserved <= MaxTokens + Sum(e)
  BY DEF TreeBudget
<1>5. ASSUME NEW t \in Turns, reservation'[t] = reservation[t] \/ reservation[t].state # "done"
      PROVE  Overrun(t) <= Overrun(t)'
  <2>1. /\ turn'[t].used = turn[t].used \/ turn[t].used = 0
        /\ turn'[t].used \in Nat /\ turn[t].used \in Nat
    BY TurnMoves DEF Fresh
  <2>2. reservation[t].amount \in Nat /\ reservation'[t].amount \in Nat
    BY DEF AccountsTyped, ReservationRecord
  <2> QED BY <1>5, <2>1, <2>2 DEF Overrun
<1>6. Sum(f) \in Nat /\ Sum(e) \in Nat
  BY <1>1, <1>2, TurnsFinite, SumNat
<1> HIDE DEF f, e
<1>7. CASE UNCHANGED ledger
  <2>1. \A t \in Turns : f[t] <= e[t]
    BY <1>5, <1>7 DEF f, e, ledger
  <2>2. f \in [Turns -> Int] /\ e \in [Turns -> Int]
    BY <1>1, <1>2
  <2>3. Sum(f) <= Sum(e)
    BY <2>1, <2>2, TurnsFinite, SumMono
  <2>4. account' = account
    BY <1>7 DEF ledger
  <2> QED BY <1>3, <1>4, <1>6, <2>3, <2>4, ChildConstants DEF AccountRecord
<1>8. ASSUME NEW t \in Turns, TakesReservation(turn[t].agent, t) PROVE TreeBudget'
  BY <1>3, <1>4, <1>6, <1>8, ChildConstants DEF TakesReservation, AccountRecord
<1>9. ASSUME NEW t \in Turns, NEW used \in {0, turn[t].used}, EndsReservation(t, used) PROVE TreeBudget'
  <2>1. /\ reservation[t].state = "active" /\ turn'[t].used = turn[t].used
        /\ reservation' = [reservation EXCEPT ![t] = [amount |-> @.amount, state |-> "done"]]
        /\ account'[Tree] = [reserved |-> account[Tree].reserved - reservation[t].amount,
                             slots |-> account[Tree].slots - 1, spent |-> account[Tree].spent + used]
    BY <1>3, <1>9 DEF EndsReservation, Active, Path
  <2>0. turn[t].used \in Nat /\ reservation[t].amount \in Nat
    BY UsedNat DEF AccountsTyped, ReservationRecord, Shape, TurnsTyped, TurnRecord
  <2>2. /\ turn[t].used \in Nat /\ reservation[t].amount \in Nat /\ used \in Nat
        /\ used <= turn[t].used
    BY <2>0
  <2>3. f[t] = 0 /\ used - reservation[t].amount <= e[t]
    BY <2>1, <2>2 DEF f, e, Overrun, AccountsTyped, ReservationRecord
  <2>4. \A y \in Turns \ {t} : f[y] <= e[y]
    BY <1>5, <2>1 DEF f, e, AccountsTyped
  <2>5. Sum(f) + e[t] <= Sum(e)
    <3> DEFINE g == [f EXCEPT ![t] = e[t]]
    <3>1. /\ f \in [Turns -> Int] /\ g \in [Turns -> Int] /\ e \in [Turns -> Int] /\ g[t] = e[t]
          /\ \A y \in Turns \ {t} : f[y] = g[y]
      BY <1>1, <1>2
    <3>2. \A y \in Turns : g[y] <= e[y]
      BY <1>1, <1>2, <2>4
    <3> HIDE DEF g
    <3>3. Sum(g) = Sum(f) + (g[t] - f[t])
      BY <3>1, TurnsFinite, SumChange
    <3>4. Sum(g) \in Int /\ Sum(g) <= Sum(e)
      BY <3>1, <3>2, TurnsFinite, SumMono
    <3>5. e[t] \in Nat
      BY <1>2
    <3> QED BY <1>6, <2>3, <3>1, <3>3, <3>4, <3>5
  <2>6. e[t] \in Nat
    BY <1>2
  <2>7. account'[Tree].spent + account'[Tree].reserved
          = account[Tree].spent + account[Tree].reserved + (used - reservation[t].amount)
    BY <1>3, <2>1, <2>2 DEF AccountRecord
  <2> QED BY <1>3, <1>4, <1>6, <2>2, <2>3, <2>5, <2>6, <2>7, ChildConstants DEF AccountRecord
<1>10. CASE EmptiesLedger
  BY <1>3, <1>4, <1>6, <1>10, ChildConstants DEF EmptiesLedger
<1> QED BY <1>7, <1>8, <1>9, <1>10, LedgerMoves

\* The ledger before anything happens.
LEMMA LedgerInit == Init => LedgerInv
<1> SUFFICES ASSUME Init PROVE LedgerInv
  OBVIOUS
<1>1. ChildInv
  BY ChildInit
<1>2. AccountsTyped
  BY DEF Init, AccountsTyped, AccountRecord, ReservationRecord
<1>3. ManagerTyped
  <2>1. own \in [Agents -> Nat] /\ kept \in [Agents -> Nat] /\ held = 0 /\ own = [a \in Agents |-> 0]
    BY DEF Init
  <2>2. own \in [Agents -> Int] /\ \A a \in Agents : own[a] = 0
    BY <2>1
  <2>3. Sum(own) = Total(own, Agents)
    BY <2>1, SumIsTotal
  <2> DEFINE X == {s \in SUBSET Agents : Total(own, s) = 0}
  <2>4. {} \in X
    BY TotalEmpty
  <2>5. ASSUME NEW s \in SUBSET Agents, NEW x \in s, s \ {x} \in X PROVE s \in X
    <3>1. IsFiniteSet(s)
      BY Finite, FS_Subset
    <3>2. Total(own, s) = own[x] + Total(own, s \ {x})
      BY <2>2, <3>1, TotalStep
    <3> QED BY <2>2, <2>5, <3>2
  <2> HIDE DEF X
  <2>6. SUBSET Agents \subseteq X
    BY <2>4, <2>5, Finite, SubsetInduction
  <2>7. Agents \in X
    BY <2>6
  <2>8. Sum(own) = 0
    BY <2>3, <2>7 DEF X
  <2>9. limit \in [Agents -> 0..MaxTokens] /\ spent \in [Agents -> Nat] /\ result \in [Agents -> Turns \cup {NoTurn}]
    BY ChildConstants DEF Init
  <2> QED BY <2>1, <2>8, <2>9 DEF ManagerTyped, HeldTyped
<1>4. Fresh
  BY DEF Init, Fresh, FreshUnused, FreshFree, CallFree, ActiveOwned, Active, Unused, Idle
<1>5. LedgerExact
  <2> SUFFICES ASSUME NEW s \in Scopes
               PROVE  account[s].slots = Cardinality(Below(s)) /\ account[s].reserved = Sum(Amounts(s))
    BY DEF LedgerExact, Below, Amounts
  <2>1. account[s].slots = 0 /\ account[s].reserved = 0 /\ Below(s) = {}
    BY DEF Init, Below, Active
  <2>2. Sum(Amounts(s)) = Total(Amounts(s), {})
    BY <2>1, SumIsTotal DEF Amounts
  <2> QED BY <2>1, <2>2, TotalEmpty, FS_EmptySet
<1>6. NoLeak
  BY DEF Init, NoLeak, Active
<1>7. TreeBudget
  <2>1. Sum([t \in Turns |-> Overrun(t)]) \in Nat
    BY <1>1, <1>2, OverrunNat, TurnsFinite, SumNat DEF ChildInv, Shape
  <2>2. account[Tree].spent = 0 /\ account[Tree].reserved = 0
    BY DEF Init, Scopes
  <2> QED BY <2>1, <2>2, ChildConstants DEF TreeBudget
<1> QED BY <1>1, <1>2, <1>3, <1>4, <1>5, <1>6, <1>7 DEF LedgerInv

\* The invariant is inductive.
LEMMA LedgerStep == LedgerInv /\ [Next]_vars => LedgerInv'
<1> SUFFICES ASSUME LedgerInv, [Next]_vars PROVE LedgerInv'
  OBVIOUS
<1>1. ChildInv' /\ ManagerTyped'
  BY ChildStep, ManagerTypedStep DEF LedgerInv
<1>2. AccountsTyped'
  BY AccountsTypedStep
<1>3. Fresh'
  BY FreshUnusedStep, FreshFreeStep, CallFreeStep, ActiveOwnedStep DEF Fresh, LedgerInv
<1>4. LedgerExact' /\ NoLeak' /\ TreeBudget'
  BY <1>2, LedgerExactStep, NoLeakStep, TreeBudgetStep
<1> QED BY <1>1, <1>2, <1>3, <1>4 DEF LedgerInv

\* The invariant holds always.
LEMMA LedgerInvariant == Spec => []LedgerInv
BY LedgerInit, LedgerStep, PTL DEF Spec

\* Every scope reserves exactly what the active reservations below it do, over refusals, refunds,
\* settlements and closes: Settle and Refund never underflow half-way up the path
\* (budget.Ledger.Reserve, Settle, Refund).
THEOREM LedgerIsExact == Spec => []LedgerExact
<1>1. LedgerInv => LedgerExact
  BY DEF LedgerInv
<1> QED BY <1>1, LedgerInvariant, PTL

\* The reservation of an agent that is not closed has a call or a tracked turn that will settle
\* or refund it (childRuntime.StartTurn, observe, release).
THEOREM ReservationsAreOwned == Spec => []NoLeak
<1>1. LedgerInv => NoLeak
  BY DEF LedgerInv
<1> QED BY <1>1, LedgerInvariant, PTL

\* What the turns of one process spend and reserve exceeds the budget of the tree by no more
\* than single turns overran their reservations (reserveChildBudget, Ledger.Settle).
THEOREM TreeStaysInBudget == Spec => []TreeBudget
<1>1. LedgerInv => TreeBudget
  BY DEF LedgerInv
<1> QED BY <1>1, LedgerInvariant, PTL

-----------------------------------------------------------------------------
(* Charges.                                                                *)

\* The turns of an agent that were observed, and settlements that will charge it.
Observed(a) == {t \in Turns : turn[t].agent = a /\ turn[t].state = "observed"}
UsedBy(a) == [t \in Observed(a) |-> turn[t].used]
JobsOf(a) == {j \in jobs : j.agent = a}
Owed(a) == [j \in JobsOf(a) |-> j.used]

\* An agent is charged, or is about to be, for turns that were observed, once for each.
ChargesObserved == \A a \in Agents : spent[a] + Sum(Owed(a)) <= Sum(UsedBy(a))

\* The inductive invariant of charges.
ChargeInv == LedgerInv /\ IsFiniteSet(jobs) /\ ChargesObserved

\* The sums are of natural numbers over finite sets.
LEMMA ChargeFacts ==
  ASSUME ChildInv, IsFiniteSet(jobs), NEW a \in Agents
  PROVE  /\ IsFiniteSet(Observed(a)) /\ UsedBy(a) \in [Observed(a) -> Nat] /\ Sum(UsedBy(a)) \in Nat
         /\ IsFiniteSet(JobsOf(a)) /\ Owed(a) \in [JobsOf(a) -> Nat] /\ Sum(Owed(a)) \in Nat
<1>1. Observed(a) \in SUBSET Turns /\ JobsOf(a) \in SUBSET jobs
  BY DEF Observed, JobsOf
<1>2. IsFiniteSet(Observed(a)) /\ IsFiniteSet(JobsOf(a))
  BY <1>1, TurnsFinite, FS_Subset
<1>3. UsedBy(a) \in [Observed(a) -> Nat]
  BY <1>1, UsedNat DEF UsedBy, ChildInv, Shape, TurnsTyped, TurnRecord
<1>4. Owed(a) \in [JobsOf(a) -> Nat]
  BY <1>1, UsedNat DEF Owed, ChildInv, Shape, TrackedTyped, JobRecord
<1> QED BY <1>2, <1>3, <1>4, SumNat

\* What observed turns used is never taken back.
LEMMA UsedGrows ==
  ASSUME ChargeInv, [Next]_vars, NEW a \in Agents
  PROVE  /\ Observed(a) \subseteq Observed(a)' /\ \A t \in Observed(a) : turn'[t].used = turn[t].used
         /\ Sum(UsedBy(a)) <= Sum(UsedBy(a)')
<1> USE DEF ChargeInv, LedgerInv, ChildInv, Shape, TurnsTyped, TurnRecord
<1>1. ASSUME NEW t \in Observed(a) PROVE turn'[t] = turn[t]
  <2>0. t \in Turns /\ turn[t].state = "observed"
    BY DEF Observed
  <2>1. CASE UNCHANGED turn
    BY <2>1
  <2>2. ASSUME NEW c \in Callers, Check(c) PROVE turn'[t] = turn[t]
    BY <2>0, <2>2, CheckEffect
  <2>3. ASSUME NEW c \in Callers, Submit(c) PROVE turn'[t] = turn[t]
    BY <2>0, <2>3 DEF Submit, Named, NamedTurns, Before
  <2>4. ASSUME NEW u \in Turns, TurnStep(u) PROVE turn'[t] = turn[t]
    BY <2>0, <2>4 DEF TurnStep, TurnOpens, TurnEnds, TurnRejected, RejectionLost, Observe
  <2>5. CASE Restart
    BY <2>0, <2>5 DEF Restart, AfterRestart
  <2> QED BY <2>1, <2>2, <2>3, <2>4, <2>5, FrameTurn DEF TurnStep
<1>2. Observed(a) \in SUBSET (Observed(a)')
  BY <1>1 DEF Observed
<1>3. UsedBy(a) \in [Observed(a) -> Nat]
  BY ChargeFacts
<1>4. UsedBy(a)' \in [Observed(a)' -> Nat]
  BY TurnsTypedStep, UsedNat DEF UsedBy, Observed
<1>5. \A y \in Observed(a) : UsedBy(a)[y] = UsedBy(a)'[y]
  BY <1>1, <1>2 DEF UsedBy
<1>6. IsFiniteSet(Observed(a)')
  <2>1. Observed(a)' \in SUBSET Turns
    BY DEF Observed
  <2> QED BY <2>1, TurnsFinite, FS_Subset
<1> DEFINE S == Observed(a)'
           T == Observed(a)
           f == UsedBy(a)
           e == UsedBy(a)'
<1>7. IsFiniteSet(S) /\ T \in SUBSET S /\ f \in [T -> Nat] /\ e \in [S -> Nat] /\ \A y \in T : f[y] = e[y]
  BY <1>2, <1>3, <1>4, <1>5, <1>6
<1> HIDE DEF S, T, f, e
<1>8. Sum(f) <= Sum(e)
  BY <1>7, SumSubset
<1> QED BY <1>1, <1>2, <1>8 DEF f, e

\* Only a settlement charges an agent.
LEMMA SpentMoves ==
  ASSUME ChildInv, ManagerTyped, [Next]_vars
  PROVE  spent' = spent \/ \E j \in jobs : Settle(j)
<1> USE DEF ChildInv, Shape, CallsTyped, ManagerTyped
<1>1. ASSUME NEW c \in Callers, NEW a \in Agents, Spawn(c, a) \/ FollowUp(c, a) \/ CloseAgent(c, a)
      PROVE  spent' = spent
  BY <1>1 DEF Spawn, FollowUp, Start, CloseAgent, Close, manager, graph
<1>2. ASSUME NEW c \in Callers, Takeover(c) \/ Cleanup(c) \/ Interrupted(c) \/ CloseFails(c)
      PROVE  spent' = spent
  BY <1>2 DEF Takeover, Start, Cleanup, Close, Interrupted, CloseFails, manager, graph
<1>3. ASSUME NEW c \in Callers, Refused(c) PROVE spent' = spent
  <2>1. spent' = [spent EXCEPT ![call[c].agent] = @ + 0] \/ spent' = spent
    BY <1>3 DEF Refused, EndWith, manager, graph
  <2> QED BY <2>1
<1>4. CASE Restart
  BY <1>4 DEF Restart
<1> QED BY <1>1, <1>2, <1>3, <1>4, FrameBudget

\* A settlement is added once, and charged when it goes.
LEMMA OwedAdded ==
  ASSUME ChildInv, IsFiniteSet(jobs), NEW a \in Agents, NEW j, j.agent = a, j.used \in Nat,
         jobs' = jobs \cup {j}
  PROVE  Sum(Owed(a)') <= Sum(Owed(a)) + j.used
<1>1. CASE j \in jobs
  <2>1. jobs' = jobs
    BY <1>1
  <2>2. Owed(a)' = Owed(a)
    BY <2>1 DEF Owed, JobsOf
  <2> QED BY <2>2, ChargeFacts
<1>2. CASE j \notin jobs
  <2>1. JobsOf(a)' = JobsOf(a) \cup {j} /\ j \notin JobsOf(a)
    BY <1>2 DEF JobsOf
  <2> DEFINE S == JobsOf(a)
             f == Owed(a)
             e == Owed(a)'
  <2>2. IsFiniteSet(S) /\ f \in [S -> Nat] /\ Sum(f) \in Nat
    BY ChargeFacts
  <2>3. e = [k \in S \cup {j} |-> k.used] /\ f = [k \in S |-> k.used]
    BY <2>1 DEF Owed
  <2>4. /\ IsFiniteSet(S) /\ j \notin S /\ f \in [S -> Int] /\ e \in [S \cup {j} -> Int]
        /\ (\A y \in S : e[y] = f[y]) /\ e[j] = j.used
    BY <2>1, <2>2, <2>3
  <2> HIDE DEF S, f, e
  <2>5. Sum(e) = Sum(f) + e[j]
    BY <2>4, SumAdd
  <2>6. Sum(e) <= Sum(f) + j.used
    BY <2>2, <2>4, <2>5
  <2> QED BY <2>6 DEF e, f
<1> QED BY <1>1, <1>2

\* A settlement that goes is owed no more.
LEMMA OwedRemoved ==
  ASSUME ChildInv, IsFiniteSet(jobs), NEW a \in Agents, NEW j \in jobs, j.agent = a,
         jobs' = jobs \ {j}
  PROVE  j.used \in Nat /\ Sum(Owed(a)') = Sum(Owed(a)) - j.used
<1> DEFINE S == JobsOf(a)
           f == Owed(a)
           e == Owed(a)'
<1>1. JobsOf(a)' = S \ {j} /\ j \in S
  BY DEF JobsOf
<1>2. IsFiniteSet(S) /\ f \in [S -> Nat] /\ f = [k \in S |-> k.used]
  BY ChargeFacts DEF Owed
<1>3. e = [k \in S \ {j} |-> k.used]
  BY <1>1 DEF Owed
<1> HIDE DEF S, f, e
<1>4. f[j] = j.used /\ j.used \in Nat /\ (\A y \in S : f[y] \in Int)
  BY <1>1, <1>2
<1>5. \A y \in S \ {j} : e[y] = f[y]
  BY <1>2, <1>3
<1>6. Sum(f) = Total(f, S) /\ Sum(e) = Total(e, S \ {j})
  BY <1>2, <1>3, SumIsTotal
<1>7. IsFiniteSet(S \ {j})
  BY <1>2, FS_Subset
<1>8. Total(f, S) = f[j] + Total(f, S \ {j})
  BY <1>1, <1>2, <1>4, TotalStep
<1>9. Total(e, S \ {j}) = Total(f, S \ {j}) /\ Total(f, S \ {j}) \in Int
  BY <1>4, <1>5, <1>7, TotalSame, TotalStep
<1>10. Sum(e) = Sum(f) - j.used
  BY <1>4, <1>6, <1>8, <1>9
<1> QED BY <1>4, <1>10 DEF e, f

\* Settlements stay finitely many.
LEMMA JobsFiniteStep ==
  ASSUME ChargeInv, [Next]_vars
  PROVE  IsFiniteSet(jobs')
<1> USE DEF ChargeInv
<1>1. CASE UNCHANGED jobs
  BY <1>1
<1>2. ASSUME NEW t \in Turns, Observe(t) PROVE IsFiniteSet(jobs')
  <2>1. jobs' = jobs \/ \E j : jobs' = jobs \cup {j}
    BY <1>2 DEF Observe
  <2> QED BY <2>1, FS_AddElement
<1>3. ASSUME NEW j \in jobs, Settle(j) PROVE IsFiniteSet(jobs')
  <2>1. jobs' \subseteq jobs
    BY <1>3 DEF Settle
  <2> QED BY <2>1, FS_Subset
<1>4. CASE Restart
  <2>1. jobs' = {}
    BY <1>4 DEF Restart
  <2> QED BY <2>1, FS_EmptySet
<1> QED BY <1>1, <1>2, <1>3, <1>4, FrameJobs

\* Charges follow observed turns.
LEMMA ChargesStep ==
  ASSUME ChargeInv, [Next]_vars
  PROVE  ChargesObserved'
<1> USE DEF ChargeInv, LedgerInv
<1> SUFFICES ASSUME NEW a \in Agents PROVE spent'[a] + Sum(Owed(a)') <= Sum(UsedBy(a)')
  BY DEF ChargesObserved
<1>1. spent[a] + Sum(Owed(a)) <= Sum(UsedBy(a)) /\ spent[a] \in Nat /\ spent \in [Agents -> Nat]
  BY DEF ChargesObserved, ManagerTyped
<1>2. Sum(UsedBy(a)) \in Nat /\ Sum(Owed(a)) \in Nat
  BY ChargeFacts
<1>3. /\ Sum(UsedBy(a)) <= Sum(UsedBy(a)') /\ Observed(a) \subseteq Observed(a)'
      /\ \A t \in Observed(a) : turn'[t].used = turn[t].used
  BY UsedGrows
<1>4. Sum(UsedBy(a)') \in Nat /\ Sum(Owed(a)') \in Nat
  <2>1. ChildInv' /\ IsFiniteSet(jobs')
    BY ChildStep, JobsFiniteStep
  <2>2. Observed(a)' \in SUBSET Turns /\ JobsOf(a)' \in SUBSET jobs'
    BY DEF Observed, JobsOf
  <2>3. IsFiniteSet(Observed(a)') /\ IsFiniteSet(JobsOf(a)')
    BY <2>1, <2>2, TurnsFinite, FS_Subset
  <2>4. UsedBy(a)' \in [Observed(a)' -> Nat]
    BY <2>1, <2>2, UsedNat DEF UsedBy, ChildInv, Shape, TurnsTyped, TurnRecord
  <2>5. Owed(a)' \in [JobsOf(a)' -> Nat]
    BY <2>1, <2>2, UsedNat DEF Owed, ChildInv, Shape, TrackedTyped, JobRecord
  <2> QED BY <2>3, <2>4, <2>5, SumNat
<1>5. ASSUME spent' = spent, JobsOf(a)' = JobsOf(a) PROVE spent'[a] + Sum(Owed(a)') <= Sum(UsedBy(a)')
  <2>1. Owed(a)' = Owed(a)
    BY <1>5 DEF Owed
  <2> QED BY <1>1, <1>2, <1>3, <1>4, <1>5, <2>1
<1>6. ASSUME NEW t \in Turns, Observe(t), spent' = spent PROVE spent'[a] + Sum(Owed(a)') <= Sum(UsedBy(a)')
  <2>1. CASE jobs' = jobs \/ turn[t].agent # a
    <3>1. JobsOf(a)' = JobsOf(a)
      BY <1>6, <2>1 DEF Observe, JobsOf
    <3> QED BY <1>5, <1>6, <3>1
  <2>2. CASE jobs' # jobs /\ turn[t].agent = a
    <3>1. PICK j : jobs' = jobs \cup {j} /\ j.agent = a /\ j.used = turn[t].used
      BY <1>6, <2>2 DEF Observe
    <3>2. turn[t].used \in Nat
      BY UsedNat DEF ChildInv, Shape, TurnsTyped, TurnRecord
    <3>3. Sum(Owed(a)') <= Sum(Owed(a)) + turn[t].used
      BY <3>1, <3>2, OwedAdded
    <3>4. /\ turn' = [turn EXCEPT ![t].state = "observed", ![t].status = "none"]
          /\ turn[t].state \in {"ended", "rejected"}
          /\ turn \in [Turns -> TurnRecord]
      BY <1>6 DEF Observe, ChildInv, Shape, TurnsTyped
    <3>5. t \notin Observed(a) /\ Observed(a)' = Observed(a) \cup {t} /\ turn'[t].used = turn[t].used
      BY <2>2, <3>4 DEF Observed, TurnRecord
    <3> DEFINE S == Observed(a)
               f == UsedBy(a)
               e == UsedBy(a)'
    <3>6. IsFiniteSet(S) /\ f \in [S -> Nat]
      BY ChargeFacts
    <3>7. e \in [S \cup {t} -> Int] /\ e[t] = turn[t].used /\ \A y \in S : e[y] = f[y]
      <4>1. e = [u \in S \cup {t} |-> turn'[u].used] /\ f = [u \in S |-> turn[u].used]
        BY <3>5 DEF UsedBy
      <4>2. \A y \in S : e[y] = f[y]
        BY <1>3, <4>1
      <4>3. e[t] = turn[t].used
        BY <3>5, <4>1
      <4> QED BY <3>2, <3>6, <4>1, <4>2, <4>3
    <3>8. /\ IsFiniteSet(S) /\ t \notin S /\ f \in [S -> Int] /\ e \in [S \cup {t} -> Int]
          /\ \A y \in S : e[y] = f[y]
      BY <3>5, <3>6, <3>7
    <3> HIDE DEF S, f, e
    <3>9. Sum(e) = Sum(f) + e[t]
      BY <3>8, SumAdd
    <3>10. Sum(UsedBy(a)') = Sum(UsedBy(a)) + turn[t].used
      BY <3>7, <3>9 DEF e, f
    <3> QED BY <1>1, <1>2, <1>4, <1>6, <3>2, <3>3, <3>10
  <2> QED BY <2>1, <2>2
<1>7. ASSUME NEW j \in jobs, Settle(j) PROVE spent'[a] + Sum(Owed(a)') <= Sum(UsedBy(a)')
  <2>0. j.agent \in Agents /\ j.used \in Nat
    BY UsedNat DEF ChildInv, Shape, TrackedTyped, JobRecord
  <2>1. \/ spent' = spent /\ jobs' = jobs
        \/ /\ jobs' = jobs \ {j}
           /\ spent' = spent \/ spent' = [spent EXCEPT ![j.agent] = @ + j.used]
    BY <1>7 DEF Settle, EndWith, manager, graph
  <2>2. CASE j.agent # a
    <3>1. JobsOf(a)' = JobsOf(a) /\ spent'[a] = spent[a]
      BY <1>1, <2>0, <2>1, <2>2 DEF JobsOf
    <3>2. Owed(a)' = Owed(a)
      BY <3>1 DEF Owed
    <3> QED BY <1>1, <1>2, <1>3, <1>4, <3>1, <3>2
  <2>3. CASE spent' = spent /\ jobs' = jobs
    <3>1. JobsOf(a)' = JobsOf(a)
      BY <2>3 DEF JobsOf
    <3> QED BY <1>5, <2>3, <3>1
  <2>4. CASE j.agent = a /\ jobs' = jobs \ {j}
    <3>1. Sum(Owed(a)') = Sum(Owed(a)) - j.used
      BY <2>4, OwedRemoved
    <3>2. spent'[a] = spent[a] \/ spent'[a] = spent[a] + j.used
      BY <1>1, <2>0, <2>1, <2>4
    <3> QED BY <1>1, <1>2, <1>3, <1>4, <2>0, <3>1, <3>2
  <2> QED BY <2>1, <2>2, <2>3, <2>4
<1>8. ASSUME Restart PROVE spent'[a] + Sum(Owed(a)') <= Sum(UsedBy(a)')
  <2>1. jobs' = {} /\ spent' = spent
    BY <1>8 DEF Restart
  <2>2. JobsOf(a)' = {}
    BY <2>1 DEF JobsOf
  <2>3. Sum(Owed(a)') = Total(Owed(a)', {})
    BY <2>2, SumIsTotal DEF Owed
  <2> QED BY <1>1, <1>2, <1>3, <1>4, <2>1, <2>3, TotalEmpty
<1>9. ASSUME UNCHANGED jobs, spent' = spent PROVE spent'[a] + Sum(Owed(a)') <= Sum(UsedBy(a)')
  <2>1. JobsOf(a)' = JobsOf(a)
    BY <1>9 DEF JobsOf
  <2> QED BY <1>5, <1>9, <2>1
<1> QED BY <1>6, <1>7, <1>8, <1>9, SpentMoves, FrameJobs

\* Before anything happens nothing is owed.
LEMMA ChargeInit == Init => ChargeInv
<1> SUFFICES ASSUME Init PROVE ChargeInv
  OBVIOUS
<1>1. LedgerInv /\ IsFiniteSet(jobs)
  BY LedgerInit, FS_EmptySet DEF Init
<1>2. ASSUME NEW a \in Agents PROVE spent[a] + Sum(Owed(a)) <= Sum(UsedBy(a))
  <2>1. spent[a] = 0 /\ JobsOf(a) = {}
    BY DEF Init, JobsOf
  <2>2. Sum(Owed(a)) = Total(Owed(a), {})
    BY <2>1, SumIsTotal DEF Owed
  <2>3. Sum(UsedBy(a)) \in Nat
    BY <1>1, ChargeFacts DEF LedgerInv
  <2> QED BY <2>1, <2>2, <2>3, TotalEmpty
<1> QED BY <1>1, <1>2 DEF ChargeInv, ChargesObserved

\* The invariant holds always.
LEMMA ChargeInvariant == Spec => []ChargeInv
<1>1. ChargeInv /\ [Next]_vars => ChargeInv'
  BY LedgerStep, JobsFiniteStep, ChargesStep DEF ChargeInv
<1> QED BY <1>1, ChargeInit, PTL DEF Spec

\* An agent is never charged, nor about to be, more than its turns used: a settlement that is
\* retried, repeated or lost to a restart charges a turn at most once (Manager.Settle,
\* settleChild, childRuntime.observe).
THEOREM TurnsAreChargedOnce == Spec => []ChargedOnce
<1>1. ChargeInv => ChargedOnce
  <2> SUFFICES ASSUME ChargeInv, NEW a \in Agents
               PROVE  spent[a] + Sum([j \in {k \in jobs : k.agent = a} |-> j.used])
                        <= Sum([t \in {u \in Turns : turn[u].agent = a} |-> turn[t].used])
    BY DEF ChargedOnce
  <2> USE DEF ChargeInv, LedgerInv
  <2>1. spent[a] + Sum(Owed(a)) <= Sum(UsedBy(a)) /\ spent[a] \in Nat
    BY DEF ChargesObserved, ManagerTyped
  <2>2. Owed(a) = [j \in {k \in jobs : k.agent = a} |-> j.used]
    BY DEF Owed, JobsOf
  <2> DEFINE S == {u \in Turns : turn[u].agent = a}
             T == Observed(a)
             f == UsedBy(a)
             e == [t \in S |-> turn[t].used]
  <2>3. S \in SUBSET Turns /\ T \in SUBSET S
    BY DEF Observed
  <2>4. IsFiniteSet(S)
    BY <2>3, TurnsFinite, FS_Subset
  <2>5. f \in [T -> Nat] /\ Sum(Owed(a)) \in Nat
    BY ChargeFacts
  <2>6. e \in [S -> Nat]
    BY UsedNat DEF ChildInv, Shape, TurnsTyped, TurnRecord
  <2>7. \A y \in T : f[y] = e[y]
    BY <2>3 DEF UsedBy
  <2> HIDE DEF S, T, f, e
  <2>8. Sum(f) \in Nat /\ Sum(e) \in Nat /\ Sum(f) <= Sum(e)
    BY <2>3, <2>4, <2>5, <2>6, <2>7, SumSubset
  <2>9. spent[a] + Sum(Owed(a)) <= Sum(e)
    BY <2>1, <2>5, <2>8 DEF f
  <2> QED BY <2>2, <2>9 DEF e, S
<1> QED BY <1>1, ChargeInvariant, PTL

-----------------------------------------------------------------------------
(* Types.                                                                  *)

\* The variables no other invariant speaks of.
RestTyped == settlementErrors \subseteq Turns /\ govSpent \in Nat /\ faults \in 0..MaxFaults

\* They keep their types.
LEMMA RestTypedStep ==
  ASSUME ChildInv, RestTyped, [Next]_vars
  PROVE  RestTyped'
<1> USE DEF ChildInv, Shape, RestTyped
<1>1. faults' \in 0..MaxFaults
  <2>1. faults' = faults \/ Fault
    BY DEF Next, Request, CallStep, TurnStep, Spawn, FollowUp, Interrupt, CloseAgent,
         Takeover, Check, Admit, Reserve, Activate, Track, Submit, Accepted, Refused, Cleanup,
         Interrupted, Release, ReleaseThread, TransitionFails, CloseFails, TurnOpens, TurnEnds,
         TurnRejected, RejectionLost, Observe, AwaitApproval, ResumeApproval,
         Settle, SettleRefused, Restart, vars
  <2> QED BY <2>1, ChildConstants DEF Fault
<1>2. settlementErrors' \subseteq Turns
  <2>1. settlementErrors' = settlementErrors \/ Restart \/ \E j \in jobs : Settle(j) \/ SettleRefused(j)
    BY DEF Next, Request, CallStep, TurnStep, Spawn, FollowUp, Interrupt, CloseAgent,
         Takeover, Check, Admit, Reserve, Activate, Track, Submit, Accepted, Refused, Cleanup,
         Interrupted, Release, ReleaseThread, TransitionFails, CloseFails, TurnOpens, TurnEnds,
         TurnRejected, RejectionLost, Observe, AwaitApproval, ResumeApproval,
         vars, runtime
  <2>2. ASSUME NEW j \in jobs, Settle(j) \/ SettleRefused(j) PROVE settlementErrors' \subseteq Turns
    <3>1. j.turn \in Turns
      BY DEF TrackedTyped, JobRecord
    <3> QED BY <2>2, <3>1 DEF Settle, SettleRefused
  <2>3. ASSUME Restart PROVE settlementErrors' = {}
    BY <2>3 DEF Restart
  <2> QED BY <2>1, <2>2, <2>3
<1>3. govSpent' \in Nat
  <2>1. govSpent' = govSpent \/ Restart \/ \E t \in Turns : Observe(t)
    BY DEF Next, Request, CallStep, TurnStep, Spawn, FollowUp, Interrupt, CloseAgent,
         Takeover, Check, Admit, Reserve, Activate, Track, Submit, Accepted, Refused, Cleanup,
         Interrupted, Release, ReleaseThread, TransitionFails, CloseFails, TurnOpens, TurnEnds,
         TurnRejected, RejectionLost, AwaitApproval, ResumeApproval,
         Settle, SettleRefused, vars, governor
  <2>2. ASSUME NEW t \in Turns, Observe(t) PROVE govSpent' \in Nat
    <3>1. turn[t].used \in Nat
      BY UsedNat DEF TurnsTyped, TurnRecord
    <3>2. govSpent' = govSpent + turn[t].used \/ govSpent' = govSpent
      BY <2>2 DEF Observe, governor
    <3> QED BY <3>1, <3>2
  <2>3. ASSUME Restart PROVE govSpent' = 0
    BY <2>3 DEF Restart
  <2> QED BY <2>1, <2>2, <2>3
<1> QED BY <1>1, <1>2, <1>3

\* Every variable of the agent graph, the manager, the child runtime, the governor and the ledger
\* keeps its type; no agent is promised more than the tree has, and what is held never
\* becomes negative.
THEOREM ChildTypes == Spec => []TypeOK
<1>1. Init => RestTyped
  BY ChildConstants DEF Init, RestTyped
<1>2. ChildInv /\ RestTyped /\ [Next]_vars => RestTyped'
  BY RestTypedStep
<1>3. LedgerInv /\ RestTyped => TypeOK
  <2> SUFFICES ASSUME LedgerInv, RestTyped PROVE TypeOK
    OBVIOUS
  <2> USE DEF LedgerInv, ChildInv, Shape
  <2>1. active \in Nat
    <3>1. {a \in Agents : Occupies(a)} \in SUBSET Agents
      OBVIOUS
    <3> QED BY <3>1, Finite, FS_Subset, FS_CardinalityType DEF SlotsExact
  <2>2. /\ status \in [Agents -> Statuses] /\ turnID \in [Agents -> Turns \cup {NoTurn}]
        /\ result \in [Agents -> Turns \cup {NoTurn}]
        /\ limit \in [Agents -> 0..MaxTokens] /\ spent \in [Agents -> Nat]
        /\ kept \in [Agents -> Nat] /\ own \in [Agents -> Nat] /\ held \in Nat
    BY DEF GraphTyped, ManagerTyped, HeldTyped
  <2>3. /\ turn \in [Turns -> TurnRecord] /\ jobs \subseteq JobRecord /\ flight \in Int
        /\ turns \in [Agents -> [id : Turns \cup {NoTurn}, leased : BOOLEAN]]
        /\ call \in [Callers -> CallRecord]
    BY DEF TurnsTyped, TrackedTyped, CallsTyped
  <2>4. account \in [Scopes -> AccountRecord] /\ reservation \in [Turns -> ReservationRecord]
    BY DEF AccountsTyped
  <2> QED BY <2>1, <2>2, <2>3, <2>4
      DEF TypeOK, RestTyped, TurnRecord, JobRecord, CallRecord, AccountRecord, ReservationRecord
<1> QED BY <1>1, <1>2, <1>3, ChildInvariant, LedgerInvariant, PTL DEF Spec
=============================================================================
