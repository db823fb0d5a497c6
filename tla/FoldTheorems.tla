---------------------------- MODULE FoldTheorems ----------------------------
(* What the models use of sums over finite sets (SumFunctionOnSet) and of filtered
   sequences (Filter), for every function, set and sequence.

   Induction is by a minimal counterexample: the finite subsets are well-founded under
   strict inclusion, the naturals under <, so that if a fact fails it fails at a smallest
   place, where it can be derived from the place below. *)
EXTENDS Integers, Filter, Functions, FiniteSetTheorems, TLAPS

\* The sum of f over S, as so many pairs.
Units(f, S) == UNION {{x} \X (1 .. f[x]) : x \in S}

\* One more element brings its own pairs.
LEMMA UnitsAdd ==
    ASSUME NEW f, NEW S, NEW x, x \notin S
    PROVE  /\ Units(f, S \cup {x}) = Units(f, S) \cup ({x} \X (1 .. f[x]))
           /\ Units(f, S) \cap ({x} \X (1 .. f[x])) = {}
  BY DEF Units

\* The numbers from 1 to n are n numbers.
LEMMA UpTo ==
    ASSUME NEW n \in Nat
    PROVE  IsFiniteSet(1 .. n) /\ Cardinality(1 .. n) = n
  BY FS_Interval

\* The pairs of one element are as many as its value.
LEMMA UnitsOne ==
    ASSUME NEW x, NEW n \in Nat
    PROVE  IsFiniteSet({x} \X (1 .. n)) /\ Cardinality({x} \X (1 .. n)) = n
<1>1. IsFiniteSet({x}) /\ Cardinality({x}) = 1
  BY FS_Singleton
<1>2. IsFiniteSet(1 .. n) /\ Cardinality(1 .. n) = n
  BY FS_Interval
<1>. DEFINE A == {x}
            B == 1 .. n
<1>. HIDE DEF A, B
<1>3. IsFiniteSet(A) /\ Cardinality(A) = 1 /\ IsFiniteSet(B) /\ Cardinality(B) = n
  BY <1>1, <1>2 DEF A, B
<1>4. IsFiniteSet(A \X B) /\ Cardinality(A \X B) = Cardinality(A) * Cardinality(B)
  BY <1>3, FS_Product, Zenon
<1>. QED  BY <1>3, <1>4 DEF A, B

\* The pairs of a finite set with natural values are finitely many.
LEMMA UnitsFinite ==
    ASSUME NEW f, NEW S, IsFiniteSet(S), \A x \in S : f[x] \in Nat
    PROVE  IsFiniteSet(Units(f, S)) /\ Cardinality(Units(f, S)) \in Nat
<1>. DEFINE g == [x \in S |-> {x} \X (1 .. f[x])]
            T == {g[x] : x \in S}
<1>1. g \in Surjection(S, T)
  BY Zenon DEF Surjection
<1>2. IsFiniteSet(T)
  BY <1>1, FS_Surjection
<1>3. \A x \in S : IsFiniteSet(g[x])
  BY Zenon, UnitsOne
<1>4. T = {{x} \X (1 .. f[x]) : x \in S}
  OBVIOUS
<1>5. IsFiniteSet(Units(f, S))
  <2>1. \A A \in T : IsFiniteSet(A)
    BY <1>3, Zenon
  <2>. HIDE DEF T
  <2>. QED  BY Zenon, <1>2, <1>4, <2>1, FS_UNION DEF Units
<1>. QED  BY <1>5, FS_CardinalityType

\* One more element adds its value to the number of pairs.
LEMMA UnitsGrow ==
    ASSUME NEW f, NEW S, IsFiniteSet(S), \A y \in S : f[y] \in Nat,
           NEW x, x \notin S, f[x] \in Nat
    PROVE  Cardinality(Units(f, S \cup {x})) = f[x] + Cardinality(Units(f, S))
<1>1. IsFiniteSet(Units(f, S)) /\ Cardinality(Units(f, S)) \in Nat
  BY UnitsFinite
<1>2. /\ IsFiniteSet({x} \X (1 .. f[x])) /\ Cardinality({x} \X (1 .. f[x])) = f[x]
  BY Zenon, UnitsOne
<1>3. Cardinality(Units(f, S) \cap ({x} \X (1 .. f[x]))) = 0
  BY Zenon, UnitsAdd, FS_EmptySet
<1>. DEFINE U == Units(f, S)
            V == {x} \X (1 .. f[x])
<1>4. Units(f, S \cup {x}) = U \cup V
  BY UnitsAdd, Zenon
<1>. HIDE DEF U, V
<1>5. IsFiniteSet(U) /\ IsFiniteSet(V)
  BY <1>1, <1>2 DEF U, V
<1>6. Cardinality(U \cup V) = Cardinality(U) + Cardinality(V) - Cardinality(U \cap V)
  BY <1>5, FS_Union, Zenon
<1>7. Cardinality(U) \in Nat /\ Cardinality(V) = f[x] /\ Cardinality(U \cap V) = 0
  BY <1>1, <1>2, <1>3 DEF U, V
<1>8. Cardinality(U \cup V) = f[x] + Cardinality(U)
  BY <1>6, <1>7
<1>. QED  BY <1>4, <1>8 DEF U

\* The fold of the community modules, whose order of evaluation is a CHOOSE, counts the
\* pairs: what the deposits of several channels (hrmp.rs) or the bytes of a queue add up to does
\* not depend on the order in which they are added.
LEMMA SumIsUnits ==
    ASSUME NEW f, NEW S, IsFiniteSet(S), \A x \in S : f[x] \in Nat
    PROVE  SumFunctionOnSet(f, S) = Cardinality(Units(f, S))
<1>. DEFINE one(s) == CHOOSE x \in s : TRUE
            turn(g) == [s \in SUBSET S |->
                           IF s = {} THEN 0 ELSE f[one(s)] + g[s \ {one(s)}]]
            it == CHOOSE g : g = turn(g)
            w == [s \in SUBSET S |-> Cardinality(Units(f, s))]
<1>1. SumFunctionOnSet(f, S) = it[S]
  BY Zenon DEF SumFunctionOnSet, FoldFunctionOnSet, MapThenFoldSet
<1>2. \A s \in SUBSET S : w[s] = IF s = {} THEN 0 ELSE f[one(s)] + w[s \ {one(s)}]
  <2>. SUFFICES ASSUME NEW s \in SUBSET S
       PROVE  w[s] = IF s = {} THEN 0 ELSE f[one(s)] + w[s \ {one(s)}]
    BY Zenon
  <2>1. CASE s = {}
    <3>1. Units(f, {}) = {}
      BY DEF Units
    <3>. QED  BY <2>1, <3>1, FS_EmptySet
  <2>2. CASE s # {}
    <3>1. one(s) \in s
      BY <2>2
    <3>. DEFINE x == one(s)
                t == s \ {x}
    <3>. HIDE DEF x
    <3>2. /\ IsFiniteSet(t) /\ t \in SUBSET S /\ x \notin t /\ t \cup {x} = s
          /\ \A y \in t : f[y] \in Nat
          /\ f[x] \in Nat
      BY <3>1, FS_Subset DEF x
    <3>3. w[s] = f[x] + w[t]
      BY <3>2, UnitsGrow
    <3>. QED  BY <2>2, <3>3 DEF x
  <2>. QED  BY <2>1, <2>2
<1>3. w = turn(w)
  <2>. HIDE DEF one
  <2>. QED BY Zenon, <1>2
<1>4. it = turn(it)
  <2>. HIDE DEF w
  <2>. QED BY Zenon, <1>3
<1>. HIDE DEF it
<1>5. \A s \in SUBSET S : it[s] = IF s = {} THEN 0 ELSE f[one(s)] + it[s \ {one(s)}]
  <2>. HIDE DEF one
  <2>. QED BY Zenon, <1>4
<1>. HIDE DEF w
<1>6. SUFFICES \A s \in SUBSET S : it[s] = w[s]
  BY Zenon, <1>1 DEF w
<1>. DEFINE odd == {s \in SUBSET S : it[s] # w[s]}
<1>7. SUFFICES ASSUME odd # {} PROVE FALSE
  OBVIOUS
<1>8. odd \subseteq FiniteSubsetsOf(S)
  BY FS_Subset DEF FiniteSubsetsOf
<1>9. PICK s \in odd : \A t \in odd : <<t, s>> \notin StrictSubsetOrdering(S)
  <2>. HIDE DEF odd
  <2>. QED BY <1>7, <1>8, WFMin, FS_StrictSubsetOrderingWellFounded
<1>10. s # {}
  BY Zenon, <1>2, <1>5
<1>11. one(s) \in s
  BY <1>10
<1>. DEFINE r == s \ {one(s)}
<1>. HIDE DEF one
<1>12. r \in SUBSET S /\ r \subseteq s /\ r # s
  BY <1>11
<1>13. <<r, s>> \in StrictSubsetOrdering(S)
  BY <1>12 DEF StrictSubsetOrdering
<1>14. it[r] = w[r]
  BY Zenon, <1>9, <1>12, <1>13
<1>. QED  BY <1>2, <1>5, <1>10, <1>14

\* Nothing sums to 0.
LEMMA SumEmpty ==
    ASSUME NEW f PROVE SumFunctionOnSet(f, {}) = 0
<1>1. Units(f, {}) = {}
  BY DEF Units
<1>. QED  BY <1>1, SumIsUnits, FS_EmptySet

\* A sum of naturals is a natural.
LEMMA SumType ==
    ASSUME NEW f, NEW S, IsFiniteSet(S), \A x \in S : f[x] \in Nat
    PROVE  SumFunctionOnSet(f, S) \in Nat
  BY SumIsUnits, UnitsFinite

\* One more element adds its value: a channel opened, a message queued.
LEMMA SumAdd ==
    ASSUME NEW f, NEW S, IsFiniteSet(S), \A y \in S : f[y] \in Nat,
           NEW x, x \notin S, f[x] \in Nat
    PROVE  SumFunctionOnSet(f, S \cup {x}) = f[x] + SumFunctionOnSet(f, S)
<1>. DEFINE T == S \cup {x}
<1>1. IsFiniteSet(T) /\ \A y \in T : f[y] \in Nat
  BY FS_AddElement
<1>. HIDE DEF T
<1>2. SumFunctionOnSet(f, T) = Cardinality(Units(f, T))
  BY <1>1, SumIsUnits
<1>3. SumFunctionOnSet(f, S) = Cardinality(Units(f, S))
  BY SumIsUnits
<1>. QED  BY <1>2, <1>3, UnitsGrow DEF T

\* An element taken out takes its value with it: a channel closed.
LEMMA SumRemove ==
    ASSUME NEW f, NEW S, IsFiniteSet(S), \A y \in S : f[y] \in Nat, NEW x \in S
    PROVE  SumFunctionOnSet(f, S) = f[x] + SumFunctionOnSet(f, S \ {x})
<1>. DEFINE T == S \ {x}
<1>1. IsFiniteSet(T) /\ x \notin T /\ T \cup {x} = S /\ \A y \in T : f[y] \in Nat
  BY FS_RemoveElement
<1>. HIDE DEF T
<1>2. SumFunctionOnSet(f, T \cup {x}) = f[x] + SumFunctionOnSet(f, T)
  BY <1>1, SumAdd
<1>. QED  BY <1>1, <1>2 DEF T

\* The sum depends on the values over the set only.
LEMMA SumSame ==
    ASSUME NEW f, NEW g, NEW S, IsFiniteSet(S), \A x \in S : f[x] \in Nat /\ g[x] = f[x]
    PROVE  SumFunctionOnSet(g, S) = SumFunctionOnSet(f, S)
<1>1. Units(g, S) = Units(f, S)
  BY DEF Units
<1>2. \A x \in S : g[x] \in Nat
  OBVIOUS
<1>. QED  BY <1>1, <1>2, SumIsUnits

\* A change of one value changes the sum by as much: one deposit taken or returned.
LEMMA SumUpdate ==
    ASSUME NEW f, NEW g, NEW S, IsFiniteSet(S), NEW x \in S,
           \A y \in S : f[y] \in Nat /\ g[y] \in Nat,
           \A y \in S \ {x} : g[y] = f[y]
    PROVE  SumFunctionOnSet(g, S) = SumFunctionOnSet(f, S) - f[x] + g[x]
<1>1. IsFiniteSet(S \ {x})
  BY FS_RemoveElement
<1>2. SumFunctionOnSet(g, S \ {x}) = SumFunctionOnSet(f, S \ {x})
  BY <1>1, SumSame
<1>3. SumFunctionOnSet(f, S \ {x}) \in Nat
  BY <1>1, SumType
<1>4. SumFunctionOnSet(f, S) = f[x] + SumFunctionOnSet(f, S \ {x})
  BY SumRemove
<1>5. SumFunctionOnSet(g, S) = g[x] + SumFunctionOnSet(g, S \ {x})
  BY SumRemove
<1>. QED  BY <1>2, <1>3, <1>4, <1>5

\* A part sums to at most the whole.
LEMMA SumPart ==
    ASSUME NEW f, NEW S, IsFiniteSet(S), \A x \in S : f[x] \in Nat, NEW T \in SUBSET S
    PROVE  SumFunctionOnSet(f, T) <= SumFunctionOnSet(f, S)
<1>1. IsFiniteSet(T)
  BY FS_Subset
<1>2. Units(f, T) \subseteq Units(f, S)
  BY DEF Units
<1>3. IsFiniteSet(Units(f, S))
  BY UnitsFinite
<1>4. Cardinality(Units(f, T)) <= Cardinality(Units(f, S))
  BY <1>2, <1>3, FS_Subset
<1>. QED  BY <1>1, <1>4, SumIsUnits

\* The sum of a set is that of a part and that of the rest.
LEMMA SumSplit ==
    ASSUME NEW f, NEW S, IsFiniteSet(S), \A x \in S : f[x] \in Nat, NEW T \in SUBSET S
    PROVE  SumFunctionOnSet(f, S) = SumFunctionOnSet(f, T) + SumFunctionOnSet(f, S \ T)
<1>. DEFINE R == S \ T
            U == Units(f, T)
            V == Units(f, R)
<1>1. IsFiniteSet(T) /\ IsFiniteSet(R)
  BY FS_Subset
<1>2. Units(f, S) = U \cup V /\ U \cap V = {}
  BY DEF Units
<1>3. /\ IsFiniteSet(U) /\ Cardinality(U) \in Nat
      /\ IsFiniteSet(V) /\ Cardinality(V) \in Nat
  BY <1>1, UnitsFinite
<1>4. SumFunctionOnSet(f, T) = Cardinality(U) /\ SumFunctionOnSet(f, R) = Cardinality(V)
  BY <1>1, SumIsUnits
<1>5. SumFunctionOnSet(f, S) = Cardinality(U \cup V)
  BY <1>2, SumIsUnits
<1>. HIDE DEF U, V
<1>6. Cardinality(U \cup V) = Cardinality(U) + Cardinality(V) - Cardinality(U \cap V)
  BY <1>3, FS_Union, Zenon
<1>7. Cardinality(U \cap V) = 0
  BY <1>2, FS_EmptySet
<1>. QED  BY <1>3, <1>4, <1>5, <1>6, <1>7

\* Values that fall by at least r on a part, and do not rise elsewhere, leave a sum that is
\* smaller by at least the sum of r: the deposits given back when several channels close.
LEMMA SumBound ==
    ASSUME NEW f, NEW g, NEW r, NEW S, IsFiniteSet(S), NEW T \in SUBSET S,
           \A x \in S : f[x] \in Nat /\ g[x] \in Nat,
           \A x \in T : r[x] \in Nat /\ g[x] + r[x] <= f[x],
           \A x \in S \ T : g[x] <= f[x]
    PROVE  SumFunctionOnSet(g, S) + SumFunctionOnSet(r, T) <= SumFunctionOnSet(f, S)
<1>. DEFINE F(s) == SumFunctionOnSet(f, s)
            G(s) == SumFunctionOnSet(g, s)
            R(s) == SumFunctionOnSet(r, s \cap T)
            odd == {s \in SUBSET S : ~(G(s) + R(s) <= F(s))}
<1>1. \A s \in SUBSET S : /\ IsFiniteSet(s) /\ IsFiniteSet(s \cap T)
                          /\ F(s) \in Nat /\ G(s) \in Nat /\ R(s) \in Nat
  <2>. SUFFICES ASSUME NEW s \in SUBSET S
       PROVE  /\ IsFiniteSet(s) /\ IsFiniteSet(s \cap T)
              /\ F(s) \in Nat /\ G(s) \in Nat /\ R(s) \in Nat
    OBVIOUS
  <2>1. IsFiniteSet(s) /\ IsFiniteSet(s \cap T)
    BY FS_Subset
  <2>. QED  BY <2>1, SumType
<1>2. ASSUME NEW s \in SUBSET S, NEW x \in s
      PROVE  /\ F(s) = f[x] + F(s \ {x})
             /\ G(s) = g[x] + G(s \ {x})
             /\ x \in T => R(s) = r[x] + R(s \ {x})
             /\ x \notin T => R(s) = R(s \ {x})
  <2>1. IsFiniteSet(s) /\ IsFiniteSet(s \cap T)
    BY Zenon, <1>1
  <2>2. F(s) = f[x] + F(s \ {x}) /\ G(s) = g[x] + G(s \ {x})
    BY <2>1, SumRemove
  <2>3. (s \ {x}) \cap T = (s \cap T) \ {x}
    OBVIOUS
  <2>4. ASSUME x \in T PROVE R(s) = r[x] + R(s \ {x})
    <3>1. SumFunctionOnSet(r, s \cap T) = r[x] + SumFunctionOnSet(r, (s \cap T) \ {x})
      BY <2>1, <2>4, SumRemove
    <3>. QED  BY <2>3, <3>1
  <2>5. ASSUME x \notin T PROVE R(s) = R(s \ {x})
    <3>1. (s \ {x}) \cap T = s \cap T
      BY <2>5
    <3>. QED  BY <3>1
  <2>. QED  BY <2>2, <2>4, <2>5
<1>3. G({}) + R({}) <= F({})
  <2>1. {} \cap T = {}
    OBVIOUS
  <2>. QED  BY <2>1, SumEmpty
<1>. HIDE DEF F, G, R
<1>4. SUFFICES ASSUME odd # {} PROVE FALSE
  <2>1. S \cap T = T
    OBVIOUS
  <2>2. G(S) + R(S) <= F(S)
    BY <1>4
  <2>. QED  BY <2>1, <2>2 DEF F, G, R
<1>5. odd \subseteq FiniteSubsetsOf(S)
  BY FS_Subset DEF FiniteSubsetsOf
<1>6. PICK s \in odd : \A t \in odd : <<t, s>> \notin StrictSubsetOrdering(S)
  <2>. HIDE DEF odd
  <2>. QED BY <1>4, <1>5, WFMin, FS_StrictSubsetOrderingWellFounded
<1>7. PICK x \in s : TRUE
  BY <1>3
<1>8. <<s \ {x}, s>> \in StrictSubsetOrdering(S) /\ s \ {x} \in SUBSET S
  BY <1>7 DEF StrictSubsetOrdering
<1>9. G(s \ {x}) + R(s \ {x}) <= F(s \ {x})
  BY Zenon, <1>6, <1>8
<1>10. F(s \ {x}) \in Nat /\ G(s \ {x}) \in Nat /\ R(s \ {x}) \in Nat
  BY Zenon, <1>1, <1>8
<1>11. f[x] \in Nat /\ g[x] \in Nat
  BY <1>7
<1>12. CASE x \in T
  <2>1. r[x] \in Nat /\ g[x] + r[x] <= f[x]
    BY <1>12
  <2>2. /\ F(s) = f[x] + F(s \ {x}) /\ G(s) = g[x] + G(s \ {x})
        /\ R(s) = r[x] + R(s \ {x})
    BY <1>2, <1>12
  <2>3. G(s) + R(s) <= F(s)
    BY <1>9, <1>10, <1>11, <2>1, <2>2
  <2>. QED  BY <2>3
<1>13. CASE x \notin T
  BY <1>2, <1>9, <1>10, <1>11, <1>13
<1>. QED  BY <1>12, <1>13

\* A sum is the same over renamed elements: queue positions after a pruning.
LEMMA SumMoved ==
    ASSUME NEW f, NEW g, NEW S, NEW T, IsFiniteSet(S),
           NEW b \in Bijection(S, T),
           \A x \in S : f[b[x]] \in Nat /\ g[x] = f[b[x]]
    PROVE  IsFiniteSet(T) /\ SumFunctionOnSet(g, S) = SumFunctionOnSet(f, T)
<1>1. IsFiniteSet(T)
  BY FS_Bijection, Zenon DEF ExistsBijection
<1>2. \A y \in T : \E x \in S : y = b[x]
  BY DEF Bijection, Surjection
<1>3. \A x, y \in S : b[x] = b[y] => x = y
  BY DEF Bijection, Injection, IsInjective
<1>4. \A x \in S : b[x] \in T
  BY DEF Bijection, Injection
<1>5. \A y \in T : f[y] \in Nat
  BY <1>2
<1>. DEFINE B == [u \in Units(g, S) |-> <<b[u[1]], u[2]>>]
<1>6. \A u \in Units(g, S) : u = <<u[1], u[2]>> /\ u[1] \in S /\ u[2] \in 1 .. f[b[u[1]]]
  BY DEF Units
<1>7. \A y \in T : \A i \in 1 .. f[y] : <<y, i>> \in Units(f, T)
  BY DEF Units
<1>7b. \A x \in S : \A i \in 1 .. f[b[x]] : <<x, i>> \in Units(g, S)
  BY DEF Units
<1>8. \A v \in Units(f, T) : v = <<v[1], v[2]>> /\ v[1] \in T /\ v[2] \in 1 .. f[v[1]]
  BY DEF Units
<1>9. B \in [Units(g, S) -> Units(f, T)]
  BY <1>4, <1>6, <1>7
<1>10. \A u, v \in Units(g, S) : B[u] = B[v] => u = v
  BY <1>3, <1>6
<1>11. \A v \in Units(f, T) : \E u \in Units(g, S) : B[u] = v
  <2>. TAKE v \in Units(f, T)
  <2>1. PICK x \in S : v[1] = b[x]
    BY <1>2, <1>8
  <2>2. <<x, v[2]>> \in Units(g, S)
    BY <2>1, <1>7b, <1>8
  <2>3. B[<<x, v[2]>>] = v
    BY <2>1, <2>2, <1>8
  <2>. QED  BY <2>2, <2>3
<1>12. B \in Bijection(Units(g, S), Units(f, T))
  <2>. HIDE DEF B
  <2>. QED BY <1>9, <1>10, <1>11 DEF Bijection, Injection, Surjection, IsInjective
<1>13. IsFiniteSet(Units(g, S))
  BY UnitsFinite
<1>14. Cardinality(Units(g, S)) = Cardinality(Units(f, T))
  BY <1>12, <1>13, FS_Bijection, Zenon DEF ExistsBijection
<1>. QED  BY <1>1, <1>5, <1>14, SumIsUnits

\* A queue with one more element has the sum with one more value.
LEMMA SumNext ==
    ASSUME NEW f, NEW g, NEW n \in Nat,
           \A i \in 1 .. n + 1 : g[i] \in Nat,
           \A i \in 1 .. n : f[i] = g[i]
    PROVE  SumFunctionOnSet(g, 1 .. n + 1) = SumFunctionOnSet(f, 1 .. n) + g[n + 1]
<1>. DEFINE S == 1 .. n
            x == n + 1
<1>1. 1 .. n + 1 = S \cup {x} /\ x \notin S /\ g[x] \in Nat /\ \A i \in S : g[i] \in Nat
  OBVIOUS
<1>2. IsFiniteSet(S)
  BY UpTo
<1>3. \A i \in S : g[i] \in Nat /\ f[i] = g[i]
  OBVIOUS
<1>. HIDE DEF S, x
<1>4. SumFunctionOnSet(g, S \cup {x}) = g[x] + SumFunctionOnSet(g, S)
  BY <1>1, <1>2, SumAdd
<1>5. SumFunctionOnSet(f, S) = SumFunctionOnSet(g, S)
  BY <1>2, <1>3, SumSame
<1>6. SumFunctionOnSet(g, S) \in Nat
  BY <1>2, <1>3, SumType
<1>7. SumFunctionOnSet(g, S \cup {x}) = SumFunctionOnSet(f, S) + g[x]
  BY <1>1, <1>4, <1>5, <1>6
<1>. QED  BY Zenon, <1>1, <1>7 DEF S, x

\* A set of naturals that is not empty has a least element.
LEMMA Least ==
    ASSUME NEW T \in SUBSET Nat, T # {}
    PROVE  \E n \in T : \A m \in T : n <= m
<1>1. PICK n \in T : \A m \in T : <<m, n>> \notin OpToRel(<, Nat)
  BY Zenon, WFMin, NatLessThanWellFounded
<1>2. \A m \in T : ~(m < n)
  BY Zenon, <1>1 DEF OpToRel
<1>. QED  BY <1>2

\* The equation a filter's recursion is to satisfy up to position n.
KeptUpTo(g, s, K, n) ==
    g = [i \in 0 .. n |-> IF i = 0 THEN <<>>
                          ELSE IF s[i] \in K THEN Append(g[i - 1], s[i]) ELSE g[i - 1]]

\* The recursive function of Filter exists, so Filter is the value it has at the end: the
\* usual induction, as the least length without such a function.
LEMMA FilterDefined ==
    ASSUME NEW s, Len(s) \in Nat, NEW K
    PROVE  \E g : KeptUpTo(g, s, K, Len(s)) /\ Filter(s, K) = g[Len(s)]
<1>. DEFINE bad == {n \in Nat : ~\E g : KeptUpTo(g, s, K, n)}
<1>1. bad = {}
  <2>. SUFFICES ASSUME bad # {} PROVE FALSE
    OBVIOUS
  <2>1. PICK n \in bad : \A m \in bad : n <= m
    BY Zenon, Least
  <2>2. n # 0
    <3>1. KeptUpTo([i \in 0 .. 0 |-> <<>>], s, K, 0)
      BY DEF KeptUpTo
    <3>. QED  BY <3>1
  <2>3. n - 1 \in Nat /\ n - 1 \notin bad
    BY <2>1, <2>2
  <2>4. PICK g : KeptUpTo(g, s, K, n - 1)
    BY <2>3
  <2>. DEFINE new == IF s[n] \in K THEN Append(g[n - 1], s[n]) ELSE g[n - 1]
              h == [i \in 0 .. n |-> IF i = n THEN new ELSE g[i]]
  <2>. HIDE DEF new
  <2>5. ASSUME NEW i \in 0 .. n
        PROVE  h[i] = IF i = 0 THEN <<>>
                      ELSE IF s[i] \in K THEN Append(h[i - 1], s[i]) ELSE h[i - 1]
    <3>1. CASE i = n
      BY <3>1, <2>2, <2>3 DEF new
    <3>2. CASE i # n
      <4>1. i \in 0 .. n - 1
        BY <3>2, <2>3
      <4>2. i # 0 => i - 1 \in 0 .. n /\ i - 1 # n
        BY <4>1, <2>3
      <4>. QED  BY Zenon, <4>1, <4>2, <3>2, <2>4 DEF KeptUpTo
    <3>. QED  BY <3>1, <3>2
  <2>6. KeptUpTo(h, s, K, n)
    BY <2>5 DEF KeptUpTo
  <2>. QED  BY <2>6
<1>2. \E g : KeptUpTo(g, s, K, Len(s))
  BY <1>1
<1>. DEFINE it == CHOOSE g : KeptUpTo(g, s, K, Len(s))
<1>3. Filter(s, K) = it[Len(s)]
  BY Zenon DEF Filter, KeptUpTo
<1>. QED  BY Zenon, <1>2, <1>3

\* What the filter keeps, and that it keeps it in order.
Picked(r, s, K, n, e) ==
    /\ e \in [1 .. Len(r) -> 1 .. n]
    /\ \A i, j \in 1 .. Len(r) : i < j => e[i] < e[j]
    /\ \A i \in 1 .. Len(r) : r[i] = s[e[i]]
    /\ \A j \in 1 .. n : s[j] \in K <=> \E i \in 1 .. Len(r) : e[i] = j

\* What `retain` leaves of a queue: the elements of the set, each at its position, in order.
LEMMA FilterKeeps ==
    ASSUME NEW M, NEW s \in Seq(M), NEW K
    PROVE  /\ Filter(s, K) \in Seq(M)
           /\ \E e : Picked(Filter(s, K), s, K, Len(s), e)
<1>1. Len(s) \in Nat
  OBVIOUS
<1>2. PICK g : KeptUpTo(g, s, K, Len(s)) /\ Filter(s, K) = g[Len(s)]
  BY <1>1, FilterDefined
<1>. DEFINE Good(n) == g[n] \in Seq(M) /\ \E e : Picked(g[n], s, K, n, e)
            bad == {n \in 0 .. Len(s) : ~Good(n)}
<1>3. SUFFICES ASSUME bad # {} PROVE FALSE
  BY <1>1, <1>2
<1>. HIDE DEF Good
<1>4a. bad \in SUBSET Nat
  BY <1>1
<1>4. PICK n \in bad : \A m \in bad : n <= m
  <2>. HIDE DEF bad
  <2>. QED  BY <1>3, <1>4a, Least
<1>5. \A i \in 0 .. Len(s) : g[i] = IF i = 0 THEN <<>>
                 ELSE IF s[i] \in K THEN Append(g[i - 1], s[i]) ELSE g[i - 1]
  BY Zenon, <1>2 DEF KeptUpTo
<1>6. n # 0
  <2>1. g[0] = <<>>
    BY <1>5
  <2>2. Picked(<<>>, s, K, 0, <<>>)
    BY DEF Picked
  <2>3. Good(0)
    BY <2>1, <2>2 DEF Good
  <2>. QED  BY <2>3
<1>7. n - 1 \in 0 .. Len(s) /\ Good(n - 1) /\ n \in 1 .. Len(s)
  BY <1>1, <1>4, <1>6
<1>7a. SUFFICES Good(n)
  OBVIOUS
<1>. DEFINE p == g[n - 1]
<1>8. p \in Seq(M) /\ Len(p) \in Nat
  BY <1>7 DEF Good
<1>9. PICK e : Picked(p, s, K, n - 1, e)
  BY <1>7 DEF Good
<1>10. g[n] = IF s[n] \in K THEN Append(p, s[n]) ELSE p
  BY <1>5, <1>7
<1>. HIDE DEF p
<1>11. CASE s[n] \notin K
  <2>1. 1 .. n - 1 \subseteq 1 .. n /\ \A j \in 1 .. n : j # n => j \in 1 .. n - 1
    BY <1>7
  <2>2. e \in [1 .. Len(p) -> 1 .. n - 1]
    BY <1>9 DEF Picked
  <2>3. ~\E i \in 1 .. Len(p) : e[i] = n
    BY <2>2, <1>7
  <2>4. e \in [1 .. Len(p) -> 1 .. n]
    BY <2>1, <2>2
  <2>5. \A j \in 1 .. n : s[j] \in K <=> \E i \in 1 .. Len(p) : e[i] = j
    BY <2>1, <2>3, <1>9, <1>11 DEF Picked
  <2>6. Picked(p, s, K, n, e)
    BY <2>4, <2>5, <1>9 DEF Picked
  <2>. QED  BY <2>6, <1>8, <1>10, <1>11 DEF Good
<1>12. CASE s[n] \in K
  <2>. DEFINE r == Append(p, s[n])
              d == [i \in 1 .. Len(p) + 1 |-> IF i <= Len(p) THEN e[i] ELSE n]
  <2>1. r \in Seq(M) /\ Len(r) = Len(p) + 1 /\ Len(p) \in Nat
    BY <1>7, <1>8
  <2>2. \A i \in 1 .. Len(r) : r[i] = IF i <= Len(p) THEN p[i] ELSE s[n]
    BY <1>7, <1>8
  <2>. HIDE DEF r
  <2>2a. e \in [1 .. Len(p) -> 1 .. n - 1]
    BY <1>9 DEF Picked
  <2>2b. \A i \in 1 .. Len(r) : i > Len(p) => i = Len(p) + 1
    BY <2>1
  <2>3. d \in [1 .. Len(r) -> 1 .. n]
    BY <2>1, <2>2a, <1>7
  <2>4. ASSUME NEW i \in 1 .. Len(r), NEW j \in 1 .. Len(r), i < j
        PROVE  d[i] < d[j]
    <3>1. i <= Len(p) /\ i \in 1 .. Len(p)
      BY <2>1, <2>4
    <3>2. e[i] < n
      BY <3>1, <2>2a, <1>7
    <3>3. CASE j <= Len(p)
      BY <3>1, <3>3, <2>1, <2>4, <1>9 DEF Picked
    <3>4. CASE ~(j <= Len(p))
      BY <3>1, <3>2, <3>4, <2>1
    <3>. QED  BY <3>3, <3>4
  <2>5. \A i \in 1 .. Len(r) : r[i] = s[d[i]]
    BY <2>1, <2>2, <1>7, <1>9 DEF Picked
  <2>6. ASSUME NEW j \in 1 .. n
        PROVE  s[j] \in K <=> \E i \in 1 .. Len(r) : d[i] = j
    <3>1. CASE j = n
      BY <3>1, <2>1, <1>12
    <3>2. CASE j # n
      <4>1. j \in 1 .. n - 1
        BY <3>2, <1>7
      <4>2. s[j] \in K <=> \E i \in 1 .. Len(p) : e[i] = j
        BY <4>1, <1>9 DEF Picked
      <4>. QED  BY <4>2, <3>2, <2>1
    <3>. QED  BY <3>1, <3>2
  <2>7. Picked(r, s, K, n, d)
    BY Zenon, <2>3, <2>4, <2>5, <2>6 DEF Picked
  <2>. QED  BY <2>1, <2>7, <1>10, <1>12 DEF r, Good
<1>. QED  BY <1>11, <1>12

\* What `retain` leaves is no longer than the queue, and sums to no more.
LEMMA FilterShrinks ==
    ASSUME NEW M, NEW s \in Seq(M), NEW K, NEW f, NEW g,
           \A i \in 1 .. Len(s) : f[i] \in Nat,
           \A i \in 1 .. Len(Filter(s, K)) : \A j \in 1 .. Len(s) :
               Filter(s, K)[i] = s[j] => g[i] = f[j]
    PROVE  /\ Len(Filter(s, K)) <= Len(s)
           /\ SumFunctionOnSet(g, 1 .. Len(Filter(s, K)))
                 <= SumFunctionOnSet(f, 1 .. Len(s))
<1>. DEFINE r == Filter(s, K)
<1>1. r \in Seq(M) /\ \E e : Picked(r, s, K, Len(s), e)
  BY FilterKeeps
<1>1a. \A i \in 1 .. Len(r) : \A j \in 1 .. Len(s) : r[i] = s[j] => g[i] = f[j]
  OBVIOUS
<1>. HIDE DEF r
<1>2. PICK e : Picked(r, s, K, Len(s), e)
  BY <1>1
<1>. DEFINE D == 1 .. Len(r)
            C == 1 .. Len(s)
            R == {e[i] : i \in D}
<1>3. Len(r) \in Nat /\ Len(s) \in Nat
  BY <1>1
<1>4. e \in [D -> C] /\ \A i, j \in D : i < j => e[i] < e[j]
  BY <1>2 DEF Picked
<1>5. ASSUME NEW i \in D, NEW j \in D, e[i] = e[j] PROVE i = j
  <2>1. i \in Int /\ j \in Int /\ e[i] \in Int
    BY <1>4
  <2>2. ~(i < j) /\ ~(j < i)
    BY <1>4, <1>5, <2>1
  <2>. QED  BY <2>1, <2>2
<1>6. e \in Bijection(D, R) /\ R \subseteq C
  <2>1. e \in [D -> R] /\ R \subseteq C
    BY Zenon, <1>4
  <2>. HIDE DEF D
  <2>2. \A t \in R : \E i \in D : e[i] = t
    OBVIOUS
  <2>. QED  BY <2>1, <2>2, <1>5 DEF Bijection, Injection, Surjection, IsInjective
<1>7. /\ IsFiniteSet(D) /\ Cardinality(D) = Len(r)
      /\ IsFiniteSet(C) /\ Cardinality(C) = Len(s)
  BY <1>3, UpTo
<1>8. \A i \in D : e[i] \in C /\ f[e[i]] \in Nat /\ g[i] = f[e[i]]
  BY <1>2, <1>1a DEF Picked
<1>. HIDE DEF D, C, R
<1>9. IsFiniteSet(R) /\ Cardinality(R) = Cardinality(D)
  BY <1>6, <1>7, FS_Bijection, Zenon DEF ExistsBijection
<1>10. Cardinality(R) <= Cardinality(C)
  BY <1>6, <1>7, FS_Subset
<1>11. SumFunctionOnSet(g, D) = SumFunctionOnSet(f, R)
  BY <1>6, <1>7, <1>8, SumMoved
<1>12. SumFunctionOnSet(f, R) <= SumFunctionOnSet(f, C)
  <2>1. \A x \in C : f[x] \in Nat
    BY DEF C
  <2>. QED  BY <2>1, <1>6, <1>7, SumPart
<1>13. Len(r) <= Len(s)
  BY <1>7, <1>9, <1>10
<1>14. SumFunctionOnSet(g, D) <= SumFunctionOnSet(f, C)
  BY <1>11, <1>12
<1>. QED  BY <1>13, <1>14 DEF r, D, C

=============================================================================
