------------------------------- MODULE Sums -------------------------------
(***************************************************************************)
(* Facts about sums over finite sets, SumFunctionOnSet of the community     *)
(* modules: what the proofs about counters and weights rest on.             *)
(***************************************************************************)
EXTENDS Integers, FiniteSets, Functions, FiniteSetTheorems, WellFoundedInduction, TLAPS

(* The element a fold takes first.                                          *)
Chosen(s) == CHOOSE x \in s : TRUE

(* g is the table of partial sums over the subsets of S.                    *)
IsTable(f, g, S) ==
    g = [s \in SUBSET S |-> IF s = {} THEN 0 ELSE f[Chosen(s)] + g[s \ {Chosen(s)}]]

LEMMA SumIsEntry ==
    ASSUME NEW f, NEW S
    PROVE  SumFunctionOnSet(f, S) = (CHOOSE table : IsTable(f, table, S))[S]
BY DEF SumFunctionOnSet, FoldFunctionOnSet, MapThenFoldSet, IsTable, Chosen

(* The least element of a set of numbers.                                   *)
LEMMA LeastNat ==
    ASSUME NEW T \in SUBSET Nat, T # {}
    PROVE  \E x \in T : \A y \in T : x <= y
<1> DEFINE R == OpToRel(<, Nat)
<1>1. IsWellFoundedOn(R, Nat)
  BY NatLessThanWellFounded
<1>2. \A x, y \in Nat : x < y => <<x, y>> \in R
  BY DEF OpToRel
<1> HIDE DEF R
<1>3. PICK x \in T : \A y \in T : ~ (<<y, x>> \in R)
  BY <1>1, WFMin, Zenon
<1>4. \A y \in T : ~ (y < x)
  BY <1>2, <1>3, Zenon
<1> QED
  BY <1>4

LEMMA TableFacts ==
    ASSUME NEW f, NEW g, NEW S, IsTable(f, g, S), NEW s \in SUBSET S
    PROVE  /\ g[{}] = 0
           /\ s # {} => Chosen(s) \in s /\ g[s] = f[Chosen(s)] + g[s \ {Chosen(s)}]
<1>1. {} \in SUBSET S
  OBVIOUS
<1>2. \A t \in SUBSET S : g[t] = IF t = {} THEN 0 ELSE f[Chosen(t)] + g[t \ {Chosen(t)}]
  BY Zenon DEF IsTable
<1>3. s # {} => Chosen(s) \in s
  BY DEF Chosen
<1> QED
  BY <1>1, <1>2, <1>3, Zenon

(* Two tables agree where both are defined.                                 *)
LEMMA TablesAgree ==
    ASSUME NEW f, NEW S, IsFiniteSet(S), NEW g, IsTable(f, g, S), NEW R, NEW h, IsTable(f, h, R),
           NEW u, u \in SUBSET S, u \in SUBSET R
    PROVE  g[u] = h[u]
<1>0. \A s \in SUBSET R : s # {} => h[s] = f[Chosen(s)] + h[s \ {Chosen(s)}]
  BY ZenonT(30) DEF IsTable
<1> DEFINE D == {s \in SUBSET S : s \in SUBSET R /\ g[s] # h[s]}
           T == {Cardinality(s) : s \in D}
<1>1. \A s \in SUBSET S : IsFiniteSet(s) /\ Cardinality(s) \in Nat
  BY FS_Subset, FS_CardinalityType
<1>2. T \in SUBSET Nat
  BY <1>1
<1>3. SUFFICES ASSUME T # {}
               PROVE  FALSE
  BY DEF T
<1>4. PICK n \in T : \A m \in T : n <= m
  BY <1>2, <1>3, LeastNat, Zenon
<1>5. PICK s \in D : Cardinality(s) = n
  BY <1>4
<1>6. s # {}
  BY <1>5, TableFacts, Zenon
<1> DEFINE x == Chosen(s)
<1>7. /\ x \in s /\ g[s] = f[x] + g[s \ {x}] /\ h[s] = f[x] + h[s \ {x}]
      /\ s \ {x} \in SUBSET S /\ s \ {x} \in SUBSET R
  <2>1. s \in SUBSET S /\ s \in SUBSET R
    BY <1>5
  <2>2. x \in s /\ g[s] = f[x] + g[s \ {x}]
    BY <1>6, <2>1, TableFacts
  <2>3. h[s] = f[x] + h[s \ {x}]
    BY <1>0, <1>6, <2>1, Zenon
  <2> QED
    BY <2>1, <2>2, <2>3
<1>8. Cardinality(s \ {x}) = n - 1 /\ n \in Nat
  BY <1>1, <1>5, <1>7, FS_RemoveElement
<1> HIDE DEF x
<1>9. s \ {x} \in D
  BY <1>5, <1>7
<1>10. Cardinality(s \ {x}) \in T
  BY <1>9
<1> HIDE DEF T, D
<1> QED
  BY <1>4, <1>8, <1>10

(* Every finite set has a table.                                            *)
LEMMA TableExists ==
    ASSUME NEW f, NEW S, IsFiniteSet(S)
    PROVE  \E g : IsTable(f, g, S)
<1> DEFINE Has(s) == \E g : IsTable(f, g, s)
           T == {Cardinality(s) : s \in {s \in SUBSET S : ~Has(s)}}
<1>1. \A s \in SUBSET S : IsFiniteSet(s) /\ Cardinality(s) \in Nat
  BY FS_Subset, FS_CardinalityType
<1>2. T \in SUBSET Nat
  BY <1>1
<1>3. SUFFICES ASSUME T # {}
               PROVE  FALSE
  BY DEF T
<1>4. PICK n \in T : \A m \in T : n <= m
  BY <1>2, <1>3, LeastNat, Zenon
<1>5. PICK U \in SUBSET S : ~Has(U) /\ Cardinality(U) = n
  BY <1>4
<1>6. \A s \in SUBSET U : s # U => Has(s)
  <2> SUFFICES ASSUME NEW s \in SUBSET U, s # U, ~Has(s)
               PROVE  FALSE
    OBVIOUS
  <2>1. Cardinality(s) <= n /\ Cardinality(s) # n
    BY <1>1, <1>5, FS_Subset
  <2>2. Cardinality(s) \in T /\ Cardinality(s) \in Nat /\ n \in Nat
    BY <1>1, <1>5
  <2> HIDE DEF T
  <2> QED
    BY <1>4, <2>1, <2>2
<1> DEFINE entry(s) == (CHOOSE table : IsTable(f, table, s))[s]
           G == [s \in SUBSET U |-> IF s = {} THEN 0 ELSE f[Chosen(s)] + entry(s \ {Chosen(s)})]
<1>7. ASSUME NEW t \in SUBSET U, t # U
      PROVE  G[t] = entry(t)
  <2>1. PICK g : g = (CHOOSE table : IsTable(f, table, t)) /\ IsTable(f, g, t)
    BY <1>6, <1>7
  <2>2. CASE t = {}
    <3>1. g[{}] = 0
      BY <2>1, TableFacts, Zenon
    <3>2. G[t] = 0 /\ entry(t) = g[t]
      BY <2>1, <2>2
    <3> QED
      BY <2>2, <3>1, <3>2
  <2>3. CASE t # {}
    <3> DEFINE u == t \ {Chosen(t)}
    <3>1. g[t] = f[Chosen(t)] + g[u] /\ u \in SUBSET t /\ Chosen(t) \in t
      <4>1. t \in SUBSET t
        OBVIOUS
      <4> QED
        BY <2>1, <2>3, <4>1, TableFacts
    <3>2. u \in SUBSET U /\ u # U /\ Has(u)
      BY <1>6, <3>1
    <3>3. PICK h : h = (CHOOSE table : IsTable(f, table, u)) /\ IsTable(f, h, u)
      BY <3>2
    <3>4. IsFiniteSet(t)
      BY <1>1
    <3>5. g[u] = h[u]
      <4>1. u \in SUBSET u
        OBVIOUS
      <4> HIDE DEF u, Has
      <4> QED
        BY <2>1, <3>1, <3>3, <3>4, <4>1, TablesAgree
    <3>6. G[t] = f[Chosen(t)] + entry(u) /\ entry(u) = h[u] /\ entry(t) = g[t]
      BY <2>1, <2>3, <3>3
    <3> QED
      BY <3>1, <3>5, <3>6
  <2> QED
    BY <2>2, <2>3
<1>8. IsTable(f, G, U)
  <2>1. ASSUME NEW s \in SUBSET U, s # {}
        PROVE  entry(s \ {Chosen(s)}) = G[s \ {Chosen(s)}]
    <3>1. Chosen(s) \in s
      BY <2>1 DEF Chosen
    <3>2. s \ {Chosen(s)} \in SUBSET U /\ s \ {Chosen(s)} # U
      BY <3>1
    <3> HIDE DEF G, entry
    <3> QED
      BY <1>7, <3>2
  <2>2. /\ \A s \in SUBSET U : G[s] = IF s = {} THEN 0 ELSE f[Chosen(s)] + entry(s \ {Chosen(s)})
        /\ G = [s \in SUBSET U |-> G[s]]
    OBVIOUS
  <2> HIDE DEF G, entry
  <2>3. \A s \in SUBSET U : G[s] = IF s = {} THEN 0 ELSE f[Chosen(s)] + G[s \ {Chosen(s)}]
    BY <2>1, <2>2, Zenon
  <2>4. G = [s \in SUBSET U |-> IF s = {} THEN 0 ELSE f[Chosen(s)] + G[s \ {Chosen(s)}]]
    BY <2>2, <2>3, Zenon
  <2> QED
    BY <2>4, Zenon DEF IsTable
<1> QED
  BY <1>5, <1>8

-----------------------------------------------------------------------------
(* The sum over the empty set, and over any other set by the element that   *)
(* the fold takes first.                                                    *)
LEMMA SumUnfolds ==
    ASSUME NEW f, NEW S, IsFiniteSet(S)
    PROVE  /\ S = {} => SumFunctionOnSet(f, S) = 0
           /\ S # {} => /\ Chosen(S) \in S
                        /\ SumFunctionOnSet(f, S) =
                               f[Chosen(S)] + SumFunctionOnSet(f, S \ {Chosen(S)})
<1>1. PICK g : g = (CHOOSE table : IsTable(f, table, S)) /\ IsTable(f, g, S)
  BY TableExists
<1>2. SumFunctionOnSet(f, S) = g[S] /\ S \in SUBSET S
  BY <1>1, SumIsEntry
<1>3. S = {} => SumFunctionOnSet(f, S) = 0
  BY <1>1, <1>2, TableFacts
<1>4. ASSUME S # {}
      PROVE  /\ Chosen(S) \in S
             /\ SumFunctionOnSet(f, S) = f[Chosen(S)] + SumFunctionOnSet(f, S \ {Chosen(S)})
  <2> DEFINE u == S \ {Chosen(S)}
  <2>1. Chosen(S) \in S /\ g[S] = f[Chosen(S)] + g[u]
    BY <1>1, <1>2, <1>4, TableFacts
  <2>2. IsFiniteSet(u) /\ u \in SUBSET S /\ u \in SUBSET u
    BY FS_Subset
  <2>3. PICK h : h = (CHOOSE table : IsTable(f, table, u)) /\ IsTable(f, h, u)
    BY <2>2, TableExists
  <2>4. SumFunctionOnSet(f, u) = h[u]
    BY <2>3, SumIsEntry
  <2> HIDE DEF u
  <2>5. g[u] = h[u]
    BY <1>1, <2>2, <2>3, TablesAgree
  <2> QED
    BY <1>2, <2>1, <2>4, <2>5 DEF u
<1> QED
  BY <1>3, <1>4

(* A sum of natural numbers is one.                                         *)
LEMMA SumType ==
    ASSUME NEW f, NEW S, IsFiniteSet(S), \A x \in S : f[x] \in Nat
    PROVE  SumFunctionOnSet(f, S) \in Nat
<1> DEFINE D == {s \in SUBSET S : SumFunctionOnSet(f, s) \notin Nat}
           T == {Cardinality(s) : s \in D}
<1>1. \A s \in SUBSET S : IsFiniteSet(s) /\ Cardinality(s) \in Nat
  BY FS_Subset, FS_CardinalityType
<1>2. SUFFICES ASSUME T # {}
               PROVE  FALSE
  BY DEF T
<1>3. PICK n \in T : \A m \in T : n <= m
  BY <1>1, <1>2, LeastNat, Zenon
<1>4. PICK s \in D : Cardinality(s) = n
  BY <1>3
<1>5. IsFiniteSet(s) /\ n \in Nat /\ s \in SUBSET S /\ SumFunctionOnSet(f, s) \notin Nat
  BY <1>1, <1>4
<1> HIDE DEF T, D
<1>6. s # {}
  <2>1. s = {} => SumFunctionOnSet(f, s) = 0
    BY <1>5, SumUnfolds, Zenon
  <2> QED
    BY <1>5, <2>1
<1>7. PICK x \in s : SumFunctionOnSet(f, s) = f[x] + SumFunctionOnSet(f, s \ {x})
  BY <1>5, <1>6, SumUnfolds, Zenon
<1>8. Cardinality(s \ {x}) = n - 1
  BY <1>4, <1>5, <1>7, FS_RemoveElement, Zenon
<1>9. Cardinality(s \ {x}) \notin T
  BY <1>3, <1>5, <1>8
<1>10. SumFunctionOnSet(f, s \ {x}) \in Nat
  BY <1>5, <1>9 DEF T, D
<1> QED
  BY <1>5, <1>7, <1>10

(* Functions that agree on a set have the same sum.                         *)
LEMMA SumAgrees ==
    ASSUME NEW f, NEW g, NEW S, IsFiniteSet(S), \A x \in S : f[x] = g[x]
    PROVE  SumFunctionOnSet(f, S) = SumFunctionOnSet(g, S)
<1> DEFINE D == {s \in SUBSET S : SumFunctionOnSet(f, s) # SumFunctionOnSet(g, s)}
           T == {Cardinality(s) : s \in D}
<1>1. \A s \in SUBSET S : IsFiniteSet(s) /\ Cardinality(s) \in Nat
  BY FS_Subset, FS_CardinalityType
<1>2. SUFFICES ASSUME T # {}
               PROVE  FALSE
  BY DEF T
<1>3. PICK n \in T : \A m \in T : n <= m
  BY <1>1, <1>2, LeastNat, Zenon
<1>4. PICK s \in D : Cardinality(s) = n
  BY <1>3
<1>5. IsFiniteSet(s) /\ n \in Nat /\ s \in SUBSET S
      /\ SumFunctionOnSet(f, s) # SumFunctionOnSet(g, s)
  BY <1>1, <1>4
<1> HIDE DEF T, D
<1>6. s # {}
  <2>1. s = {} => SumFunctionOnSet(f, s) = 0
    BY <1>5, SumUnfolds, Zenon
  <2>2. s = {} => SumFunctionOnSet(g, s) = 0
    BY <1>5, SumUnfolds, Zenon
  <2> QED
    BY <1>5, <2>1, <2>2
<1> DEFINE x == Chosen(s)
<1>7. x \in s /\ SumFunctionOnSet(f, s) = f[x] + SumFunctionOnSet(f, s \ {x})
  BY <1>5, <1>6, SumUnfolds
<1>8. SumFunctionOnSet(g, s) = g[x] + SumFunctionOnSet(g, s \ {x})
  BY <1>5, <1>6, SumUnfolds
<1> HIDE DEF x
<1>9. Cardinality(s \ {x}) = n - 1
  BY <1>4, <1>5, <1>7, FS_RemoveElement, Zenon
<1>10. Cardinality(s \ {x}) \notin T
  BY <1>3, <1>5, <1>9
<1>11. SumFunctionOnSet(f, s \ {x}) = SumFunctionOnSet(g, s \ {x})
  BY <1>5, <1>10 DEF T, D
<1> QED
  BY <1>5, <1>7, <1>8, <1>11

(* Any element can be taken out of a sum.                                   *)
LEMMA SumTakesOut ==
    ASSUME NEW f, NEW S, IsFiniteSet(S), \A x \in S : f[x] \in Nat, NEW y \in S
    PROVE  /\ SumFunctionOnSet(f, S) = f[y] + SumFunctionOnSet(f, S \ {y})
           /\ SumFunctionOnSet(f, S) \in Nat /\ SumFunctionOnSet(f, S \ {y}) \in Nat
<1> DEFINE Bad(s, z) == SumFunctionOnSet(f, s) # f[z] + SumFunctionOnSet(f, s \ {z})
           D == {s \in SUBSET S : \E z \in s : Bad(s, z)}
           T == {Cardinality(s) : s \in D}
<1>1. \A s \in SUBSET S : IsFiniteSet(s) /\ Cardinality(s) \in Nat
  BY FS_Subset, FS_CardinalityType
<1>t. SumFunctionOnSet(f, S) \in Nat /\ SumFunctionOnSet(f, S \ {y}) \in Nat
  <2>1. IsFiniteSet(S \ {y})
    BY FS_Subset
  <2> QED
    BY <2>1, SumType
<1>2. SUFFICES ASSUME T # {}
               PROVE  FALSE
  BY <1>t, Zenon DEF T
<1>3. PICK n \in T : \A m \in T : n <= m
  <2>1. T \in SUBSET Nat
    BY <1>1
  <2> HIDE DEF T
  <2> QED
    BY <1>2, <2>1, LeastNat
<1>4. PICK s \in D : Cardinality(s) = n
  BY <1>3
<1>5. PICK z \in s : Bad(s, z)
  BY <1>4
<1>6. IsFiniteSet(s) /\ n \in Nat /\ s \in SUBSET S
  BY <1>1, <1>4
<1>7. \A r \in SUBSET S : Cardinality(r) = n - 1 =>
          \A v \in r : SumFunctionOnSet(f, r) = f[v] + SumFunctionOnSet(f, r \ {v})
  <2> SUFFICES ASSUME NEW r \in SUBSET S, Cardinality(r) = n - 1, NEW v \in r, Bad(r, v)
               PROVE  FALSE
    OBVIOUS
  <2>1. Cardinality(r) \in T
    BY Zenon
  <2> HIDE DEF T
  <2> QED
    BY <1>3, <1>6, <2>1
<1> HIDE DEF T, D
<1> DEFINE x == Chosen(s)
<1>8. x \in s /\ SumFunctionOnSet(f, s) = f[x] + SumFunctionOnSet(f, s \ {x})
  BY <1>5, <1>6, SumUnfolds
<1> HIDE DEF x
<1>9. x # z
  BY <1>5, <1>8
<1>10. Cardinality(s \ {x}) = n - 1 /\ Cardinality(s \ {z}) = n - 1
  BY <1>4, <1>5, <1>6, <1>8, FS_RemoveElement, Zenon
<1>11. SumFunctionOnSet(f, s \ {x}) = f[z] + SumFunctionOnSet(f, (s \ {x}) \ {z})
  BY <1>5, <1>6, <1>7, <1>9, <1>10
<1>12. SumFunctionOnSet(f, s \ {z}) = f[x] + SumFunctionOnSet(f, (s \ {z}) \ {x})
  BY <1>6, <1>7, <1>8, <1>9, <1>10
<1>13. (s \ {x}) \ {z} = (s \ {z}) \ {x}
  OBVIOUS
<1>14. f[x] \in Nat /\ f[z] \in Nat /\ SumFunctionOnSet(f, (s \ {x}) \ {z}) \in Nat
  <2>1. (s \ {x}) \ {z} \in SUBSET S /\ IsFiniteSet((s \ {x}) \ {z})
    BY <1>1, <1>6
  <2>2. SumFunctionOnSet(f, (s \ {x}) \ {z}) \in Nat
    BY <2>1, SumType
  <2> QED
    BY <1>5, <1>6, <1>8, <2>2
<1> QED
  BY <1>5, <1>8, <1>11, <1>12, <1>13, <1>14, SMTT(30)

(* The same with a name for what remains.                                   *)
LEMMA SumWithout ==
    ASSUME NEW f, NEW S, IsFiniteSet(S), \A x \in S : f[x] \in Nat, NEW y \in S,
           NEW R, S \ {y} = R
    PROVE  /\ SumFunctionOnSet(f, S) = f[y] + SumFunctionOnSet(f, R)
           /\ SumFunctionOnSet(f, R) \in Nat
BY SumTakesOut

(* Adding one element.                                                      *)
LEMMA SumAdds ==
    ASSUME NEW f, NEW S, IsFiniteSet(S), NEW y, y \notin S, \A x \in S \cup {y} : f[x] \in Nat
    PROVE  /\ SumFunctionOnSet(f, S \cup {y}) = f[y] + SumFunctionOnSet(f, S)
           /\ SumFunctionOnSet(f, S) \in Nat
<1>1. IsFiniteSet(S \cup {y}) /\ (S \cup {y}) \ {y} = S /\ y \in S \cup {y}
  BY FS_AddElement
<1> QED
  BY <1>1, SumTakesOut, SMTT(30)

(* The sum over an interval, element by element from its low end.           *)
LEMMA SumInterval ==
    ASSUME NEW f, NEW a \in Int, NEW b \in Int, \A i \in a .. b : f[i] \in Nat
    PROVE  /\ SumFunctionOnSet(f, a .. b) \in Nat
           /\ a > b => SumFunctionOnSet(f, a .. b) = 0
           /\ a <= b => SumFunctionOnSet(f, a .. b) = f[a] + SumFunctionOnSet(f, a + 1 .. b)
           /\ a <= b => SumFunctionOnSet(f, a .. b) = f[b] + SumFunctionOnSet(f, a .. b - 1)
<1>1. IsFiniteSet(a .. b)
  BY FS_Interval
<1>2. SumFunctionOnSet(f, a .. b) \in Nat
  BY <1>1, SumType
<1>3. a > b => SumFunctionOnSet(f, a .. b) = 0
  <2>1. a > b => a .. b = {}
    OBVIOUS
  <2>2. a .. b = {} => SumFunctionOnSet(f, a .. b) = 0
    BY <1>1, SumUnfolds, Zenon
  <2> QED
    BY <2>1, <2>2
<1>4. a <= b => SumFunctionOnSet(f, a .. b) = f[a] + SumFunctionOnSet(f, a + 1 .. b)
  <2> SUFFICES ASSUME a <= b
               PROVE  SumFunctionOnSet(f, a .. b) = f[a] + SumFunctionOnSet(f, a + 1 .. b)
    OBVIOUS
  <2>1. a \in a .. b /\ (a .. b) \ {a} = a + 1 .. b
    OBVIOUS
  <2> QED
    BY <1>1, <2>1, SumWithout, SMTT(30)
<1>5. a <= b => SumFunctionOnSet(f, a .. b) = f[b] + SumFunctionOnSet(f, a .. b - 1)
  <2> SUFFICES ASSUME a <= b
               PROVE  SumFunctionOnSet(f, a .. b) = f[b] + SumFunctionOnSet(f, a .. b - 1)
    OBVIOUS
  <2>1. b \in a .. b /\ (a .. b) \ {b} = a .. b - 1
    OBVIOUS
  <2> QED
    BY <1>1, <2>1, SumWithout
<1> QED
  BY <1>2, <1>3, <1>4, <1>5

(* Functions that agree on an interval have the same sum over it.           *)
LEMMA SumAgreesOnInterval ==
    ASSUME NEW f, NEW g, NEW a \in Int, NEW b \in Int, \A i \in a .. b : f[i] = g[i]
    PROVE  SumFunctionOnSet(f, a .. b) = SumFunctionOnSet(g, a .. b)
<1>1. IsFiniteSet(a .. b)
  BY FS_Interval
<1> QED
  BY <1>1, SumAgrees

(* A sum does not change when the indexes are shifted by one.               *)
LEMMA SumShifts ==
    ASSUME NEW f, NEW g, NEW n \in Nat, \A i \in 1 .. n : f[i + 1] \in Nat /\ g[i] = f[i + 1]
    PROVE  SumFunctionOnSet(g, 1 .. n) = SumFunctionOnSet(f, 2 .. n + 1)
<1> DEFINE T == {k \in 0 .. n : SumFunctionOnSet(g, 1 .. k) # SumFunctionOnSet(f, 2 .. k + 1)}
<1>1. SUFFICES ASSUME T # {}
               PROVE  FALSE
  BY DEF T
<1>2. PICK k \in T : \A m \in T : k <= m
  <2>1. T \in SUBSET Nat
    OBVIOUS
  <2> HIDE DEF T
  <2> QED
    BY <1>1, <2>1, LeastNat
<1>3. k \in 0 .. n /\ SumFunctionOnSet(g, 1 .. k) # SumFunctionOnSet(f, 2 .. k + 1)
  BY <1>2
<1>4. /\ \A i \in 1 .. k : g[i] \in Nat /\ g[i] = f[i + 1]
      /\ \A i \in 2 .. k + 1 : f[i] \in Nat
  <2>1. \A i \in 1 .. k : i \in 1 .. n
    BY <1>3
  <2>2. \A i \in 2 .. k + 1 : i - 1 \in 1 .. n /\ (i - 1) + 1 = i
    BY <1>3
  <2>3. ASSUME NEW i \in 2 .. k + 1
        PROVE  f[i] \in Nat
    <3>1. f[(i - 1) + 1] \in Nat
      BY <2>2, Zenon
    <3> QED
      BY <2>2, <3>1
  <2> QED
    BY <2>1, <2>3
<1>5. k > 0
  <2>1. SumFunctionOnSet(g, 1 .. 0) = 0
    BY SumInterval
  <2>2. SumFunctionOnSet(f, 2 .. 1) = 0
    BY SumInterval
  <2> QED
    BY <1>3, <2>1, <2>2
<1>6. SumFunctionOnSet(g, 1 .. k) = g[k] + SumFunctionOnSet(g, 1 .. k - 1)
  BY <1>3, <1>4, <1>5, SumInterval
<1>7. SumFunctionOnSet(f, 2 .. k + 1) = f[k + 1] + SumFunctionOnSet(f, 2 .. k)
  <2>1. (k + 1) - 1 = k /\ k + 1 \in Int /\ 2 <= k + 1
    BY <1>3, <1>5
  <2>2. SumFunctionOnSet(f, 2 .. k + 1) = f[k + 1] + SumFunctionOnSet(f, 2 .. (k + 1) - 1)
    BY <1>4, <2>1, SumInterval
  <2> QED
    BY <2>1, <2>2
<1>8. SumFunctionOnSet(g, 1 .. k - 1) = SumFunctionOnSet(f, 2 .. k)
  <2>1. k - 1 \in 0 .. n /\ k - 1 \notin T /\ (k - 1) + 1 = k
    <3> HIDE DEF T
    <3> QED
      BY <1>2, <1>3, <1>5
  <2> QED
    BY <2>1
<1>9. g[k] = f[k + 1]
  BY <1>3, <1>4, <1>5
<1> QED
  BY <1>3, <1>6, <1>7, <1>8, <1>9

(* The increments of total from a to b are the terms of f.                  *)
Increments(f, total, a, b) ==
    \A i \in Nat : a <= i /\ i < b => f[i] \in Nat /\ total[i + 1] = total[i] + f[i]

(* A function whose increments are the terms adds up the terms.             *)
LEMMA SumTelescopes ==
    ASSUME NEW f, NEW total \in [Nat -> Nat], NEW a \in Nat, NEW b \in Nat, a <= b,
           Increments(f, total, a, b)
    PROVE  SumFunctionOnSet(f, a .. b - 1) = total[b] - total[a]
<1>0. \A i \in Nat : a <= i /\ i < b => f[i] \in Nat /\ total[i + 1] = total[i] + f[i]
  BY DEF Increments
<1> DEFINE T == {k \in Nat : a <= k /\ k <= b /\ SumFunctionOnSet(f, a .. k - 1) # total[k] - total[a]}
<1> SUFFICES ASSUME SumFunctionOnSet(f, a .. b - 1) # total[b] - total[a]
             PROVE  FALSE
  OBVIOUS
<1>1. T # {}
  <2>1. b \in T
    OBVIOUS
  <2> QED
    BY <2>1, Zenon
<1>2. PICK k \in T : \A m \in T : k <= m
  <2>1. T \in SUBSET Nat
    OBVIOUS
  <2> HIDE DEF T
  <2> QED
    BY <1>1, <2>1, LeastNat, Zenon
<1>3. /\ k \in Nat /\ a <= k /\ k <= b
      /\ SumFunctionOnSet(f, a .. k - 1) # total[k] - total[a]
  BY <1>2
<1>4. \A i \in a .. k - 1 : f[i] \in Nat
  BY <1>0, <1>3
<1>5. total[a] \in Nat /\ total[k] \in Nat
  BY <1>3
<1>6. k # a
  <2>1. a - 1 \in Int /\ a > a - 1 /\ \A i \in a .. a - 1 : f[i] \in Nat
    OBVIOUS
  <2>2. SumFunctionOnSet(f, a .. a - 1) = 0
    BY <2>1, SumInterval
  <2> QED
    BY <1>3, <1>5, <2>2
<1>7. /\ k - 1 \in Nat /\ a <= k - 1 /\ k - 1 < b /\ (k - 1) + 1 = k /\ (k - 1) - 1 = k - 2
      /\ k - 2 \in Int /\ k - 1 \in Int
  BY <1>3, <1>6
<1>8. k - 1 \notin T
  <2> HIDE DEF T
  <2> QED
    BY <1>2, <1>3, <1>7
<1>9. SumFunctionOnSet(f, a .. k - 2) = total[k - 1] - total[a]
  BY <1>3, <1>7, <1>8
<1>10. SumFunctionOnSet(f, a .. k - 1) = f[k - 1] + SumFunctionOnSet(f, a .. (k - 1) - 1)
  BY <1>4, <1>7, SumInterval
<1>11. /\ f[k - 1] \in Nat /\ total[k - 1] \in Nat
       /\ total[k] = total[k - 1] + f[k - 1]
  <2>1. total[(k - 1) + 1] = total[k - 1] + f[k - 1] /\ f[k - 1] \in Nat
    BY <1>0, <1>7, Zenon
  <2> QED
    BY <1>7, <2>1
<1>12. SumFunctionOnSet(f, a .. k - 1) = f[k - 1] + SumFunctionOnSet(f, a .. k - 2)
  BY <1>7, <1>10
<1>13. f[k - 1] + (total[k - 1] - total[a]) = total[k] - total[a]
  <2>1. PICK u \in Nat : u = f[k - 1]
    BY <1>11, Zenon
  <2>2. PICK v \in Nat : v = total[k - 1]
    BY <1>11, Zenon
  <2>3. PICK w \in Nat : w = total[a]
    BY <1>5
  <2>4. total[k] = v + u
    BY <1>11, <2>1, <2>2
  <2>5. u + (v - w) = (v + u) - w
    OBVIOUS
  <2> QED
    BY <2>1, <2>2, <2>3, <2>4, <2>5
<1> QED
  BY <1>3, <1>9, <1>12, <1>13
=============================================================================
