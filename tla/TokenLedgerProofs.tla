------------------------- MODULE TokenLedgerProofs -------------------------
(***************************************************************************)
(* Theorems about the token ledger, for any threads, limits and reports.   *)
(*                                                                         *)
(* The budget is a sum over all responses, so the first part proves what   *)
(* is needed of the library's SumFunctionOnSet: how a sum changes when an  *)
(* element is added, when two functions have the same sum, and when a sum  *)
(* is zero.  Its inductions are on a smallest counterexample.              *)
(***************************************************************************)
EXTENDS TokenLedger, FiniteSetTheorems, SequenceTheorems, TLAPS

-----------------------------------------------------------------------------
(* Induction on sets *)

\* A set of naturals with zero and every successor is all of them.
LEMMA NatSetInduction ==
    ASSUME NEW C \in SUBSET Nat, 0 \in C, \A n \in C : n + 1 \in C
    PROVE  C = Nat
  <1> SUFFICES ASSUME Nat \ C # {} PROVE FALSE
    OBVIOUS
  <1>1. PICK x \in Nat \ C : \A y \in Nat \ C : ~(<<y, x>> \in OpToRel(<, Nat))
    BY NatLessThanWellFounded, WFMin
  <1>2. \A y \in Nat \ C : ~(y < x)
    BY <1>1 DEF OpToRel
  <1>3. x # 0 /\ x - 1 \in Nat
    OBVIOUS
  <1>4. x - 1 \in C
    BY <1>2, <1>3
  <1>5. (x - 1) + 1 = x
    OBVIOUS
  <1> QED BY <1>4, <1>5

\* Every nonempty family of subsets of a finite set has a smallest member.
LEMMA SmallestSubset ==
    ASSUME NEW S, IsFiniteSet(S), NEW B \in SUBSET SUBSET S, B # {}
    PROVE  \E T \in B : \A U \in B : U \subseteq T => U = T
  <1>1. IsWellFoundedOn(StrictSubsetOrdering(S), SUBSET S)
    BY FS_StrictSubsetOrderingWellFounded, FS_FiniteSubsetsOfFinite
  <1>2. PICK T \in B : \A U \in B : ~(<<U, T>> \in StrictSubsetOrdering(S))
    BY <1>1, WFMin
  <1> QED BY <1>2 DEF StrictSubsetOrdering

-----------------------------------------------------------------------------
(* Sums *)

Pick(s) == CHOOSE x \in s : TRUE

\* The recursive equation of a sum over the subsets of S.
Rec(f, S, g) ==
    g = [s \in SUBSET S |-> IF s = {} THEN 0 ELSE f[Pick(s)] + g[s \ {Pick(s)}]]

\* SumFunctionOnSet is the solution of its equation, at S.
LEMMA SumDef ==
    ASSUME NEW f, NEW S
    PROVE  SumFunctionOnSet(f, S) = (CHOOSE g : Rec(f, S, g))[S]
  BY DEF SumFunctionOnSet, FoldFunctionOnSet, MapThenFoldSet, Rec, Pick

\* The element a sum takes first.
LEMMA PickIn == \A s : s # {} => Pick(s) \in s
  BY DEF Pick

\* The equation has a solution in the naturals.
LEMMA RecExists ==
    ASSUME NEW S, IsFiniteSet(S), NEW f, \A x \in S : f[x] \in Nat
    PROVE  \E g \in [SUBSET S -> Nat] : Rec(f, S, g)
  <1> DEFINE Step(g, s) == IF s = {} THEN 0 ELSE f[Pick(s)] + g[s \ {Pick(s)}]
             Upto(n, g) == \A s \in SUBSET S : Cardinality(s) <= n => g[s] = Step(g, s)
             C == {n \in Nat : \E g \in [SUBSET S -> Nat] : Upto(n, g)}
  <1>c. \A s \in SUBSET S : IsFiniteSet(s) /\ Cardinality(s) \in Nat /\ Cardinality(s) <= Cardinality(S)
    BY FS_Subset, FS_CardinalityType
  <1>r. \A s \in SUBSET S : s # {} =>
           /\ Pick(s) \in S /\ s \ {Pick(s)} \in SUBSET S
           /\ Cardinality(s \ {Pick(s)}) = Cardinality(s) - 1
    BY <1>c, PickIn, FS_RemoveElement
  <1>1. 0 \in C
    <2> DEFINE g == [s \in SUBSET S |-> 0]
    <2>1. g \in [SUBSET S -> Nat]
      OBVIOUS
    <2>2. ASSUME NEW s \in SUBSET S, Cardinality(s) <= 0
          PROVE  s = {}
      BY <1>c, <2>2, FS_EmptySet
    <2>3. Upto(0, g)
      BY <2>2
    <2> QED BY <2>1, <2>3
  <1>2. ASSUME NEW n \in C
        PROVE  n + 1 \in C
    <2>0. n \in Nat /\ n + 1 \in Nat /\ n + 1 # 0
      OBVIOUS
    <2>1. PICK g \in [SUBSET S -> Nat] : Upto(n, g)
      OBVIOUS
    <2> DEFINE h == [s \in SUBSET S |-> IF Cardinality(s) = n + 1 THEN f[Pick(s)] + g[s \ {Pick(s)}] ELSE g[s]]
    <2>2. ASSUME NEW s \in SUBSET S, Cardinality(s) = n + 1
          PROVE  s # {}
      BY <2>0, <2>2, FS_EmptySet
    <2>3. h \in [SUBSET S -> Nat]
      <3>1. ASSUME NEW s \in SUBSET S PROVE h[s] \in Nat
        <4>1. CASE Cardinality(s) = n + 1
          <5>1. f[Pick(s)] \in Nat /\ g[s \ {Pick(s)}] \in Nat
            BY <1>r, <2>2, <4>1
          <5> QED BY <4>1, <5>1
        <4>2. CASE Cardinality(s) # n + 1
          BY <4>2
        <4> QED BY <4>1, <4>2
      <3> QED BY <3>1
    <2>4. ASSUME NEW s \in SUBSET S, Cardinality(s) <= n + 1
          PROVE  h[s] = Step(h, s)
      <3>1. CASE Cardinality(s) = n + 1
        <4>1. s # {} /\ s \ {Pick(s)} \in SUBSET S /\ Cardinality(s \ {Pick(s)}) # n + 1
          BY <1>r, <2>2, <3>1
        <4>2. h[s \ {Pick(s)}] = g[s \ {Pick(s)}]
          BY <4>1
        <4> QED BY <3>1, <4>1, <4>2
      <3>2. CASE Cardinality(s) # n + 1
        <4>1. Cardinality(s) <= n
          BY <1>c, <2>4, <3>2
        <4>2. h[s] = Step(g, s)
          BY <2>1, <3>2, <4>1
        <4>3. CASE s = {}
          BY <4>2, <4>3
        <4>4. CASE s # {}
          <5>1. s \ {Pick(s)} \in SUBSET S /\ Cardinality(s \ {Pick(s)}) # n + 1
            BY <1>c, <1>r, <4>1, <4>4
          <5>2. h[s \ {Pick(s)}] = g[s \ {Pick(s)}]
            BY <5>1
          <5> QED BY <4>2, <4>4, <5>2
        <4> QED BY <4>3, <4>4
      <3> QED BY <3>1, <3>2
    <2>5. Upto(n + 1, h)
      BY <2>4
    <2> HIDE DEF h, Upto
    <2> QED BY <2>0, <2>3, <2>5
  <1>3. Cardinality(S) \in C
    <2>1. C \in SUBSET Nat
      OBVIOUS
    <2> HIDE DEF C
    <2>2. C = Nat
      BY <1>1, <1>2, <2>1, NatSetInduction
    <2> QED BY <1>c, <2>2
  <1>4. PICK g \in [SUBSET S -> Nat] : Upto(Cardinality(S), g)
    BY <1>3
  <1>5. \A s \in SUBSET S : g[s] = Step(g, s)
    BY <1>c, <1>4
  <1> HIDE DEF Step
  <1>6. g = [s \in SUBSET S |-> Step(g, s)]
    BY <1>5
  <1> QED BY <1>6 DEF Step, Rec

\* Solutions over two sets agree on a subset on which the functions agree.
LEMMA RecAgree ==
    ASSUME NEW T, IsFiniteSet(T), NEW f, NEW k, \A x \in T : f[x] = k[x]
    PROVE  \A S, R, g, h :
              T \subseteq S /\ T \subseteq R /\ Rec(f, S, g) /\ Rec(k, R, h) => g[T] = h[T]
  <1> SUFFICES ASSUME NEW S, NEW R, NEW g, NEW h,
                      T \subseteq S, T \subseteq R, Rec(f, S, g), Rec(k, R, h)
               PROVE  g[T] = h[T]
    OBVIOUS
  <1> DEFINE B == {s \in SUBSET T : g[s] # h[s]}
  <1> SUFFICES ASSUME B # {} PROVE FALSE
    OBVIOUS
  <1>1. PICK s \in B : \A u \in B : u \subseteq s => u = s
    <2>1. B \in SUBSET SUBSET T
      OBVIOUS
    <2> HIDE DEF B
    <2> QED BY <2>1, SmallestSubset
  <1>2. s \in SUBSET T /\ s \in SUBSET S /\ s \in SUBSET R
    OBVIOUS
  <1>3. /\ g[s] = IF s = {} THEN 0 ELSE f[Pick(s)] + g[s \ {Pick(s)}]
        /\ h[s] = IF s = {} THEN 0 ELSE k[Pick(s)] + h[s \ {Pick(s)}]
    BY <1>2 DEF Rec
  <1>4. s # {}
    BY <1>3
  <1>5. Pick(s) \in s
    BY <1>4, PickIn
  <1>6. g[s \ {Pick(s)}] = h[s \ {Pick(s)}]
    BY <1>1, <1>5
  <1> QED BY <1>1, <1>2, <1>3, <1>4, <1>5, <1>6

\* A sum depends on the values at its indices only.
LEMMA SumSame ==
    ASSUME NEW S, IsFiniteSet(S), NEW f, NEW k, \A x \in S : f[x] \in Nat /\ f[x] = k[x]
    PROVE  SumFunctionOnSet(f, S) = SumFunctionOnSet(k, S)
  <1>1. (\E g : Rec(f, S, g)) /\ (\E g : Rec(k, S, g))
    BY RecExists
  <1>2. Rec(f, S, CHOOSE g : Rec(f, S, g)) /\ Rec(k, S, CHOOSE g : Rec(k, S, g))
    BY <1>1
  <1>3. S \subseteq S /\ \A x \in S : f[x] = k[x]
    OBVIOUS
  <1>4. (CHOOSE g : Rec(f, S, g))[S] = (CHOOSE g : Rec(k, S, g))[S]
    <2>1. \A g, h : Rec(f, S, g) /\ Rec(k, S, h) => g[S] = h[S]
      BY <1>3, RecAgree
    <2> QED BY <1>2, <2>1, Zenon
  <1> QED BY <1>4, SumDef

\* The sum of nothing, and what a sum takes first.
LEMMA SumStep ==
    ASSUME NEW S, IsFiniteSet(S), NEW f, \A x \in S : f[x] \in Nat
    PROVE  /\ SumFunctionOnSet(f, S) \in Nat
           /\ S = {} => SumFunctionOnSet(f, S) = 0
           /\ S # {} => /\ Pick(S) \in S
                        /\ SumFunctionOnSet(f, S) =
                             f[Pick(S)] + SumFunctionOnSet(f, S \ {Pick(S)})
  <1> DEFINE R == S \ {Pick(S)}
             g == CHOOSE e : Rec(f, S, e)
             h == CHOOSE e : Rec(f, R, e)
  <1>0. IsFiniteSet(R) /\ R \subseteq S
    BY FS_RemoveElement
  <1>1. PICK e \in [SUBSET S -> Nat] : Rec(f, S, e)
    BY RecExists
  <1>2. Rec(f, S, g)
    BY <1>1
  <1>3. Rec(f, R, h)
    <2>1. \E d : Rec(f, R, d)
      BY <1>0, RecExists
    <2> QED BY <2>1
  <1>4. SumFunctionOnSet(f, S) = g[S] /\ SumFunctionOnSet(f, R) = h[R]
    BY SumDef
  <1> HIDE DEF g, h
  <1>5. g[S] = e[S]
    <2>1. \A c, d : Rec(f, S, c) /\ Rec(f, S, d) => c[S] = d[S]
      BY RecAgree
    <2> QED BY <1>1, <1>2, <2>1
  <1>6. g[R] = h[R]
    <2>1. \A c, d : Rec(f, S, c) /\ Rec(f, R, d) => c[R] = d[R]
      BY <1>0, RecAgree
    <2> QED BY <1>2, <1>3, <2>1
  <1>7. g[S] = IF S = {} THEN 0 ELSE f[Pick(S)] + g[R]
    BY <1>2 DEF Rec
  <1> HIDE DEF R
  <1>8. S # {} => Pick(S) \in S
    BY PickIn
  <1>9. SumFunctionOnSet(f, S) \in Nat
    BY <1>1, <1>4, <1>5
  <1>10. S = {} => SumFunctionOnSet(f, S) = 0
    BY <1>4, <1>7
  <1>11. S # {} => SumFunctionOnSet(f, S) = f[Pick(S)] + SumFunctionOnSet(f, R)
    BY <1>4, <1>6, <1>7
  <1> QED BY <1>8, <1>9, <1>10, <1>11 DEF R

\* Adding an index adds its value, whatever order the sum takes.
LEMMA SumAdd ==
    ASSUME NEW S, IsFiniteSet(S), NEW x, x \notin S, NEW f, \A y \in S \cup {x} : f[y] \in Nat
    PROVE  SumFunctionOnSet(f, S \cup {x}) = f[x] + SumFunctionOnSet(f, S)
  <1> DEFINE A == S \cup {x}
             Good(T, z) == SumFunctionOnSet(f, T \cup {z}) = f[z] + SumFunctionOnSet(f, T)
             B == {T \in SUBSET A : \E z \in A \ T : ~Good(T, z)}
  <1>0. IsFiniteSet(A) /\ \A T \in SUBSET A : IsFiniteSet(T)
    BY FS_AddElement, FS_Subset
  <1>s. \A T \in SUBSET A : SumFunctionOnSet(f, T) \in Nat
    BY <1>0, SumStep
  <1>1. ASSUME B # {} PROVE FALSE
    <2>1. PICK T \in B : \A U \in B : U \subseteq T => U = T
      <3>1. B \in SUBSET SUBSET A
        OBVIOUS
      <3> HIDE DEF A, B
      <3> QED BY <1>0, <1>1, <3>1, SmallestSubset
    <2>2. T \in SUBSET A
      OBVIOUS
    <2>3. PICK z \in A \ T : ~Good(T, z)
      BY <2>1
    <2>4. \A U \in SUBSET T : U # T => \A y \in A \ U : Good(U, y)
      BY <2>1, <2>2
    <2> DEFINE V == T \cup {z}
               p == Pick(V)
    <2> HIDE DEF A, B, Good
    <2>5. V \in SUBSET A /\ V # {} /\ IsFiniteSet(V)
      BY <1>0, <2>2, <2>3
    <2>f. \A y \in A : f[y] \in Nat
      BY DEF A
    <2>6. p \in V /\ SumFunctionOnSet(f, V) = f[p] + SumFunctionOnSet(f, V \ {p})
      <3>1. \A y \in V : f[y] \in Nat
        BY <2>5, <2>f
      <3> HIDE DEF V
      <3> QED BY <2>5, <3>1, SumStep
    <2> HIDE DEF p
    <2>7. CASE p = z
      <3>1. V \ {p} = T
        BY <2>3, <2>7
      <3> QED BY <2>3, <2>6, <2>7, <3>1 DEF Good
    <2>8. CASE p # z
      <3> DEFINE U == T \ {p}
      <3>1. /\ p \in T /\ U \in SUBSET T /\ U # T /\ p \in A \ U /\ z \in A \ U
            /\ V \ {p} = U \cup {z} /\ U \cup {p} = T /\ U \in SUBSET A
        BY <2>2, <2>3, <2>6, <2>8
      <3>2. Good(U, p) /\ Good(U, z)
        BY <2>4, <3>1
      <3>3. f[p] \in Nat /\ f[z] \in Nat /\ SumFunctionOnSet(f, U) \in Nat
        BY <1>s, <2>f, <3>1 DEF A
      <3> HIDE DEF U
      <3>4. SumFunctionOnSet(f, T) = f[p] + SumFunctionOnSet(f, U)
        BY <3>1, <3>2 DEF Good
      <3>5. SumFunctionOnSet(f, V) = f[p] + (f[z] + SumFunctionOnSet(f, U))
        BY <2>6, <3>1, <3>2 DEF Good
      <3>6. SumFunctionOnSet(f, V) = f[z] + SumFunctionOnSet(f, T)
        BY <3>3, <3>4, <3>5
      <3> QED BY <2>3, <3>6 DEF Good
    <2> QED BY <2>7, <2>8
  <1>2. S \in SUBSET A /\ x \in A \ S
    OBVIOUS
  <1>3. Good(S, x)
    BY <1>1, <1>2
  <1> QED BY <1>3

\* A sum is at least each of its terms, and zero when all of them are.
LEMMA SumBounds ==
    ASSUME NEW S, IsFiniteSet(S), NEW f, \A x \in S : f[x] \in Nat
    PROVE  /\ \A x \in S : SumFunctionOnSet(f, S) >= f[x]
           /\ (\A x \in S : f[x] = 0) => SumFunctionOnSet(f, S) = 0
  <1>1. ASSUME NEW x \in S
        PROVE  SumFunctionOnSet(f, S) >= f[x]
    <2>1. IsFiniteSet(S \ {x}) /\ S = (S \ {x}) \cup {x}
      BY FS_RemoveElement
    <2>2. SumFunctionOnSet(f, (S \ {x}) \cup {x}) = f[x] + SumFunctionOnSet(f, S \ {x})
      BY <2>1, SumAdd
    <2>3. SumFunctionOnSet(f, S \ {x}) \in Nat
      BY <2>1, SumStep
    <2>4. SumFunctionOnSet(f, S) = f[x] + SumFunctionOnSet(f, S \ {x})
      BY <2>1, <2>2, Zenon
    <2> QED BY <2>3, <2>4
  <1>2. ASSUME \A x \in S : f[x] = 0
        PROVE  SumFunctionOnSet(f, S) = 0
    <2> DEFINE B == {T \in SUBSET S : SumFunctionOnSet(f, T) # 0}
    <2>1. ASSUME B # {} PROVE FALSE
      <3>1. PICK T \in B : \A U \in B : U \subseteq T => U = T
        <4>1. B \in SUBSET SUBSET S
          OBVIOUS
        <4> HIDE DEF B
        <4> QED BY <2>1, <4>1, SmallestSubset
      <3>2. IsFiniteSet(T) /\ T \in SUBSET S /\ \A x \in T : f[x] \in Nat
        BY FS_Subset
      <3>3. /\ T = {} => SumFunctionOnSet(f, T) = 0
            /\ T # {} => /\ Pick(T) \in T
                         /\ SumFunctionOnSet(f, T) =
                              f[Pick(T)] + SumFunctionOnSet(f, T \ {Pick(T)})
        BY <3>2, SumStep
      <3>4. T # {} => SumFunctionOnSet(f, T \ {Pick(T)}) = 0
        BY <3>1, <3>2, <3>3
      <3> QED BY <1>2, <3>1, <3>2, <3>3, <3>4
    <2>2. S \in SUBSET S
      OBVIOUS
    <2> QED BY <2>1, <2>2
  <1> QED BY <1>1, <1>2

\* The sum over two disjoint sets.
LEMMA SumUnion ==
    ASSUME NEW S, IsFiniteSet(S), NEW R, IsFiniteSet(R), S \cap R = {},
           NEW f, \A x \in S \cup R : f[x] \in Nat
    PROVE  SumFunctionOnSet(f, S \cup R) = SumFunctionOnSet(f, S) + SumFunctionOnSet(f, R)
  <1> DEFINE Good(T) == SumFunctionOnSet(f, S \cup T) = SumFunctionOnSet(f, S) + SumFunctionOnSet(f, T)
             B == {T \in SUBSET R : ~Good(T)}
  <1>0. \A T \in SUBSET R : /\ IsFiniteSet(T) /\ IsFiniteSet(S \cup T)
                            /\ \A x \in T : f[x] \in Nat
                            /\ \A x \in S \cup T : f[x] \in Nat
                            /\ SumFunctionOnSet(f, T) \in Nat
                            /\ SumFunctionOnSet(f, S \cup T) \in Nat
    BY FS_Subset, FS_Union, SumStep
  <1>s. SumFunctionOnSet(f, S) \in Nat
    BY SumStep
  <1>1. ASSUME B # {} PROVE FALSE
    <2>1. PICK T \in B : \A U \in B : U \subseteq T => U = T
      <3>1. B \in SUBSET SUBSET R
        OBVIOUS
      <3> HIDE DEF B
      <3> QED BY <1>1, <3>1, SmallestSubset
    <2>2. T \in SUBSET R /\ ~Good(T)
      OBVIOUS
    <2>3. CASE T = {}
      <3>1. S \cup T = S /\ SumFunctionOnSet(f, T) = 0
        BY <1>0, <2>2, <2>3, SumStep
      <3> QED BY <1>s, <2>2, <3>1
    <2>4. CASE T # {}
      <3>1. PICK x \in T : TRUE
        BY <2>4
      <3> DEFINE U == T \ {x}
      <3>2. U \in SUBSET R /\ U \subseteq T /\ U # T /\ x \in R /\ x \notin S
        BY <2>2, <3>1
      <3>3. Good(U)
        BY <2>1, <3>2
      <3>4. U \cup {x} = T /\ (S \cup U) \cup {x} = S \cup T /\ x \notin U /\ x \notin S \cup U
        BY <3>1, <3>2
      <3> HIDE DEF U, Good, B
      <3>5. f[x] \in Nat
        BY <3>2
      <3>6. SumFunctionOnSet(f, U \cup {x}) = f[x] + SumFunctionOnSet(f, U)
        BY <1>0, <3>2, <3>4, <3>5, SumAdd
      <3>7. SumFunctionOnSet(f, (S \cup U) \cup {x}) = f[x] + SumFunctionOnSet(f, S \cup U)
        <4>1. \A y \in (S \cup U) \cup {x} : f[y] \in Nat
          BY <1>0, <3>2, <3>5
        <4>2. IsFiniteSet(S \cup U)
          BY <1>0, <3>2
        <4> QED BY <3>4, <4>1, <4>2, SumAdd
      <3>8. SumFunctionOnSet(f, U) \in Nat /\ SumFunctionOnSet(f, S \cup U) \in Nat
        BY <1>0, <3>2
      <3>9. SumFunctionOnSet(f, S \cup U) = SumFunctionOnSet(f, S) + SumFunctionOnSet(f, U)
        BY <3>3 DEF Good
      <3>10. SumFunctionOnSet(f, T) = f[x] + SumFunctionOnSet(f, U)
        BY <3>4, <3>6, Zenon
      <3>11. SumFunctionOnSet(f, S \cup T) = f[x] + SumFunctionOnSet(f, S \cup U)
        BY <3>4, <3>7, Zenon
      <3>12. SumFunctionOnSet(f, S \cup T) = SumFunctionOnSet(f, S) + SumFunctionOnSet(f, T)
        BY <1>s, <3>5, <3>8, <3>9, <3>10, <3>11
      <3> QED BY <2>2, <3>12 DEF Good
    <2> QED BY <2>3, <2>4
  <1>2. R \in SUBSET R
    OBVIOUS
  <1> QED BY <1>1, <1>2

-----------------------------------------------------------------------------
(* Usage and the rows of the ledger *)

ResponseType ==
    [estimate : Nat \ {0}, usage : Usage, settled : BOOLEAN, interrupted : BOOLEAN]

Log == [Threads -> Seq(ResponseType)]

\* The greater and the smaller of two integers.
LEMMA MaxMin ==
    ASSUME NEW a \in Int, NEW b \in Int
    PROVE  /\ Max({a, b}) = IF a >= b THEN a ELSE b
           /\ Min({a, b}) = IF a <= b THEN a ELSE b
  <1>1. /\ \E x \in {a, b} : \A y \in {a, b} : x >= y
        /\ \E x \in {a, b} : \A y \in {a, b} : x <= y
    OBVIOUS
  <1>2. /\ Max({a, b}) \in {a, b} /\ \A y \in {a, b} : Max({a, b}) >= y
        /\ Min({a, b}) \in {a, b} /\ \A y \in {a, b} : Min({a, b}) <= y
    BY <1>1 DEF Max, Min
  <1> QED BY <1>2

\* Merging takes the greater of each category.
LEMMA MergeAt ==
    ASSUME NEW u \in Usage, NEW v \in Usage
    PROVE  /\ Merge(u, v) \in Usage
           /\ \A c \in Categories : Merge(u, v)[c] = IF u[c] >= v[c] THEN u[c] ELSE v[c]
  <1>1. \A c \in Categories : u[c] \in Nat /\ v[c] \in Nat
    BY DEF Usage
  <1>2. \A c \in Categories : Max({u[c], v[c]}) = IF u[c] >= v[c] THEN u[c] ELSE v[c]
    BY <1>1, MaxMin
  <1> QED BY <1>1, <1>2 DEF Merge, Usage

\* Reports merge in any order, and no report changes nothing.
LEMMA MergeFacts ==
    /\ NoUsage \in Usage
    /\ \A u, v \in Usage : Merge(u, v) \in Usage /\ Merge(u, v) = Merge(v, u)
    /\ \A u \in Usage : Merge(u, NoUsage) = u /\ Merge(NoUsage, u) = u
  <1>1. NoUsage \in Usage /\ \A c \in Categories : NoUsage[c] = 0
    BY DEF NoUsage, Usage
  <1>2. ASSUME NEW u \in Usage, NEW v \in Usage
        PROVE  Merge(u, v) \in Usage /\ Merge(u, v) = Merge(v, u)
    <2>1. /\ \A c \in Categories : u[c] \in Nat /\ v[c] \in Nat
          /\ \A c \in Categories : Merge(u, v)[c] = Merge(v, u)[c]
      BY MergeAt DEF Usage
    <2>2. Merge(u, v) \in Usage /\ Merge(v, u) \in Usage
      BY MergeAt
    <2> QED BY <2>1, <2>2 DEF Usage
  <1>3. ASSUME NEW u \in Usage
        PROVE  Merge(u, NoUsage) = u
    <2>1. \A c \in Categories : u[c] \in Nat /\ Merge(u, NoUsage)[c] = u[c]
      BY <1>1, MergeAt DEF Usage
    <2>2. Merge(u, NoUsage) \in Usage
      BY <1>1, MergeAt
    <2> QED BY <2>1, <2>2 DEF Usage
  <1> QED BY <1>1, <1>2, <1>3

\* Nothing but a report of zeros adds up to zero.
LEMMA TotalFacts ==
    ASSUME NEW u \in Usage
    PROVE  Total(u) \in Nat /\ (Total(u) = 0 <=> u = NoUsage)
  <1>1. u["input"] \in Nat /\ u["output"] \in Nat
    BY DEF Usage, Categories
  <1>2. Total(u) = 0 => u = NoUsage
    <2>1. ASSUME Total(u) = 0 PROVE \A c \in Categories : u[c] = 0
      BY <1>1, <2>1 DEF Total, Categories
    <2> QED BY <2>1 DEF NoUsage, Usage
  <1>3. Total(NoUsage) = 0
    BY DEF Total, NoUsage, Categories
  <1> QED BY <1>1, <1>2, <1>3 DEF Total

\* What a response counts for.
LEMMA CountedFacts ==
    ASSUME NEW r \in ResponseType
    PROVE  Counted(r) \in Nat \ {0}
  <1>1. r.estimate \in Nat \ {0} /\ r.usage \in Usage
    BY DEF ResponseType
  <1> QED BY <1>1, TotalFacts DEF Counted

\* The sequences of the ledger.
LEMMA LogRows ==
    ASSUME NEW rs \in Log, NEW th \in Threads
    PROVE  /\ rs[th] \in Seq(ResponseType) /\ Len(rs[th]) \in Nat
           /\ DOMAIN rs[th] = 1 .. Len(rs[th])
           /\ \A i \in 1 .. Len(rs[th]) : rs[th][i] \in ResponseType
  <1>1. rs[th] \in Seq(ResponseType)
    BY DEF Log
  <1> QED BY <1>1, LenProperties, ElementOfSeq

\* The same responses with the same counts, of which more may be settled.
SameRows(rs, qs) ==
    /\ qs \in Log
    /\ \A t \in Threads :
          /\ Len(qs[t]) = Len(rs[t])
          /\ \A i \in 1 .. Len(rs[t]) :
                /\ qs[t][i].estimate = rs[t][i].estimate
                /\ qs[t][i].usage = rs[t][i].usage
                /\ rs[t][i].settled => qs[t][i].settled

\* Sequences of responses change one row at a time.
Put(rs, th, i, r) == [rs EXCEPT ![th] = [rs[th] EXCEPT ![i] = r]]

\* What such a change leaves.
LEMMA PutRows ==
    ASSUME NEW rs \in Log, NEW th \in Threads, NEW i \in 1 .. Len(rs[th]), NEW r \in ResponseType
    PROVE  /\ Put(rs, th, i, r) \in Log
           /\ \A t \in Threads \ {th} : Put(rs, th, i, r)[t] = rs[t]
           /\ Len(Put(rs, th, i, r)[th]) = Len(rs[th])
           /\ Put(rs, th, i, r)[th][i] = r
           /\ \A j \in 1 .. Len(rs[th]) : j # i => Put(rs, th, i, r)[th][j] = rs[th][j]
  <1> DEFINE qs == Put(rs, th, i, r)
  <1>1. rs[th] \in Seq(ResponseType)
    BY DEF Log
  <1> DEFINE s == [rs[th] EXCEPT ![i] = r]
  <1>2. /\ s \in Seq(ResponseType) /\ Len(s) = Len(rs[th])
        /\ \A j \in 1 .. Len(rs[th]) : s[j] = IF j = i THEN r ELSE rs[th][j]
    BY <1>1, ExceptSeq
  <1> HIDE DEF s
  <1>3. qs = [rs EXCEPT ![th] = s]
    BY DEF s, Put
  <1> HIDE DEF qs
  <1>4. /\ qs \in Log /\ qs[th] = s
        /\ \A t \in Threads \ {th} : qs[t] = rs[t]
    BY <1>2, <1>3 DEF Log
  <1> QED BY <1>2, <1>4 DEF qs

\* Settling a thread marks its last response and touches nothing else.
LEMMA SettleRows ==
    ASSUME NEW rs \in Log, NEW th \in Threads
    PROVE  /\ SameRows(rs, Settle(rs, th))
           /\ \A t \in Threads \ {th} : Settle(rs, th)[t] = rs[t]
           /\ \A i \in 1 .. Len(rs[th]) : Settle(rs, th)[th][i].settled <=>
                 rs[th][i].settled \/ i = Len(rs[th])
           /\ \A i \in 1 .. Len(rs[th]) : Settle(rs, th)[th][i].interrupted = rs[th][i].interrupted
  <1>0. /\ Len(rs[th]) \in Nat /\ DOMAIN rs[th] = 1 .. Len(rs[th])
        /\ \A t \in Threads : \A i \in 1 .. Len(rs[t]) : rs[t][i] \in ResponseType
    BY LogRows
  <1>1. CASE InFlight(rs, th)
    <2> DEFINE n == Len(rs[th])
               r == [rs[th][n] EXCEPT !.settled = TRUE]
    <2>1. n \in 1 .. n /\ rs[th][n] \in ResponseType
      BY <1>0, <1>1 DEF InFlight
    <2>2. /\ r \in ResponseType /\ r.settled = TRUE /\ r.estimate = rs[th][n].estimate
          /\ r.usage = rs[th][n].usage /\ r.interrupted = rs[th][n].interrupted
      BY <2>1 DEF ResponseType
    <2>3. Settle(rs, th) = Put(rs, th, n, r)
      BY <1>1 DEF Settle, Put
    <2> HIDE DEF r
    <2>4. /\ Settle(rs, th) \in Log
          /\ \A t \in Threads \ {th} : Settle(rs, th)[t] = rs[t]
          /\ Len(Settle(rs, th)[th]) = n
          /\ Settle(rs, th)[th][n] = r
          /\ \A j \in 1 .. n : j # n => Settle(rs, th)[th][j] = rs[th][j]
      BY <2>1, <2>2, <2>3, PutRows
    <2> HIDE DEF n
    <2>5. SameRows(rs, Settle(rs, th))
      <3>1. ASSUME NEW t \in Threads, NEW i \in 1 .. Len(rs[t])
            PROVE  /\ Len(Settle(rs, th)[t]) = Len(rs[t])
                   /\ Settle(rs, th)[t][i].estimate = rs[t][i].estimate
                   /\ Settle(rs, th)[t][i].usage = rs[t][i].usage
                   /\ rs[t][i].settled => Settle(rs, th)[t][i].settled
        <4>1. CASE t = th /\ i = n
          BY <2>2, <2>4, <4>1 DEF n
        <4>2. CASE t = th /\ i # n
          BY <2>4, <4>2 DEF n
        <4>3. CASE t # th
          BY <2>4, <4>3
        <4> QED BY <4>1, <4>2, <4>3
      <3>2. \A t \in Threads : Len(Settle(rs, th)[t]) = Len(rs[t])
        BY <2>4 DEF n
      <3> QED BY <2>4, <3>1, <3>2 DEF SameRows
    <2> QED BY <2>2, <2>4, <2>5 DEF n
  <1>2. CASE ~InFlight(rs, th)
    <2>1. Settle(rs, th) = rs
      BY <1>2 DEF Settle
    <2>2. \A i \in 1 .. Len(rs[th]) : i = Len(rs[th]) => rs[th][i].settled
      BY <1>0, <1>2 DEF InFlight, Last
    <2>3. SameRows(rs, rs)
      BY DEF SameRows
    <2> QED BY <2>1, <2>2, <2>3
  <1> QED BY <1>1, <1>2

\* settle_thread does as much or nothing.
LEMMA SettleThreadRows ==
    ASSUME NEW rs \in Log, NEW th \in Threads
    PROVE  /\ SameRows(rs, SettleThread(rs, th))
           /\ \A t \in Threads \ {th} : SettleThread(rs, th)[t] = rs[t]
           /\ \A i \in 1 .. Len(rs[th]) :
                 /\ SettleThread(rs, th)[th][i].settled => rs[th][i].settled \/ i = Len(rs[th])
                 /\ SettleThread(rs, th)[th][i].interrupted = rs[th][i].interrupted
  <1>1. CASE SettleThread(rs, th) = Settle(rs, th)
    BY <1>1, SettleRows
  <1>2. CASE SettleThread(rs, th) = rs
    BY <1>2 DEF SameRows
  <1> QED BY <1>1, <1>2 DEF SettleThread

\* Settling after settling.
LEMMA SameTrans ==
    ASSUME NEW rs \in Log, NEW qs, NEW ps, SameRows(rs, qs), SameRows(qs, ps)
    PROVE  SameRows(rs, ps)
  BY DEF SameRows

\* Settling all threads, by either call.
LEMMA SettleEachRows ==
    ASSUME NEW rs \in Log
    PROVE  /\ SameRows(rs, SettleEach(rs, Settle))
           /\ SameRows(rs, SettleEach(rs, SettleThread))
           /\ \A t \in Threads : \A i \in 1 .. Len(rs[t]) :
                 /\ SettleEach(rs, Settle)[t][i].interrupted = rs[t][i].interrupted
                 /\ SettleEach(rs, SettleThread)[t][i].interrupted = rs[t][i].interrupted
  <1>1. ASSUME NEW qs, NEW ps, ps = [t \in Threads |-> qs[t]],
               \A t \in Threads : /\ qs[t] \in Seq(ResponseType)
                                  /\ Len(qs[t]) = Len(rs[t])
                                  /\ \A i \in 1 .. Len(rs[t]) :
                                        /\ qs[t][i].estimate = rs[t][i].estimate
                                        /\ qs[t][i].usage = rs[t][i].usage
                                        /\ qs[t][i].interrupted = rs[t][i].interrupted
                                        /\ rs[t][i].settled => qs[t][i].settled
        PROVE  /\ SameRows(rs, ps)
               /\ \A t \in Threads : \A i \in 1 .. Len(rs[t]) : ps[t][i].interrupted = rs[t][i].interrupted
    BY <1>1 DEF SameRows, Log
  <1>2. \A t \in Threads :
           /\ Settle(rs, t)[t] \in Seq(ResponseType)
           /\ Len(Settle(rs, t)[t]) = Len(rs[t])
           /\ \A i \in 1 .. Len(rs[t]) :
                 /\ Settle(rs, t)[t][i].estimate = rs[t][i].estimate
                 /\ Settle(rs, t)[t][i].usage = rs[t][i].usage
                 /\ Settle(rs, t)[t][i].interrupted = rs[t][i].interrupted
                 /\ rs[t][i].settled => Settle(rs, t)[t][i].settled
    BY SettleRows DEF SameRows, Log
  <1>3. \A t \in Threads :
           /\ SettleThread(rs, t)[t] \in Seq(ResponseType)
           /\ Len(SettleThread(rs, t)[t]) = Len(rs[t])
           /\ \A i \in 1 .. Len(rs[t]) :
                 /\ SettleThread(rs, t)[t][i].estimate = rs[t][i].estimate
                 /\ SettleThread(rs, t)[t][i].usage = rs[t][i].usage
                 /\ SettleThread(rs, t)[t][i].interrupted = rs[t][i].interrupted
                 /\ rs[t][i].settled => SettleThread(rs, t)[t][i].settled
    BY SettleThreadRows DEF SameRows, Log
  <1>4. /\ SettleEach(rs, Settle) = [t \in Threads |-> Settle(rs, t)[t]]
        /\ SettleEach(rs, SettleThread) = [t \in Threads |-> SettleThread(rs, t)[t]]
    BY DEF SettleEach
  <1> DEFINE S1 == [t \in Threads |-> Settle(rs, t)[t]]
             S2 == [t \in Threads |-> SettleThread(rs, t)[t]]
  <1>5. /\ \A t \in Threads : S1[t] = Settle(rs, t)[t] /\ S2[t] = SettleThread(rs, t)[t]
        /\ S1 = [t \in Threads |-> S1[t]] /\ S2 = [t \in Threads |-> S2[t]]
    OBVIOUS
  <1> HIDE DEF S1, S2
  <1>6. /\ SameRows(rs, S1)
        /\ \A t \in Threads : \A i \in 1 .. Len(rs[t]) : S1[t][i].interrupted = rs[t][i].interrupted
    BY <1>1, <1>2, <1>5
  <1>7. /\ SameRows(rs, S2)
        /\ \A t \in Threads : \A i \in 1 .. Len(rs[t]) : S2[t][i].interrupted = rs[t][i].interrupted
    BY SMTT(30), <1>1, <1>3, <1>5
  <1> QED BY <1>4, <1>6, <1>7 DEF S1, S2

\* mark_interrupted only marks.
LEMMA CutRows ==
    ASSUME NEW rs \in Log
    PROVE  /\ SameRows(rs, Cut(rs))
           /\ \A t \in Threads : \A i \in 1 .. Len(rs[t]) :
                 Cut(rs)[t][i].settled = rs[t][i].settled
  <1> DEFINE Row(t, i) == [rs[t][i] EXCEPT !.interrupted =
                              @ \/ (rs[t][i].usage = NoUsage /\ ~rs[t][i].settled)]
  <1>1. Cut(rs) = [t \in Threads |-> [i \in DOMAIN rs[t] |-> Row(t, i)]]
    BY DEF Cut
  <1>2. ASSUME NEW t \in Threads, NEW i \in 1 .. Len(rs[t])
        PROVE  /\ Row(t, i) \in ResponseType
               /\ Row(t, i).estimate = rs[t][i].estimate
               /\ Row(t, i).usage = rs[t][i].usage
               /\ Row(t, i).settled = rs[t][i].settled
    <2>1. rs[t][i] \in ResponseType
      BY LogRows
    <2>2. (rs[t][i].interrupted \/ (rs[t][i].usage = NoUsage /\ ~rs[t][i].settled)) \in BOOLEAN
      OBVIOUS
    <2> QED BY <2>1, <2>2 DEF ResponseType
  <1> HIDE DEF Row
  <1>3. ASSUME NEW t \in Threads
        PROVE  /\ Cut(rs)[t] \in Seq(ResponseType)
               /\ Len(Cut(rs)[t]) = Len(rs[t])
               /\ \A i \in 1 .. Len(rs[t]) : Cut(rs)[t][i] = Row(t, i)
    <2>1. Cut(rs)[t] = [i \in 1 .. Len(rs[t]) |-> Row(t, i)] /\ Len(rs[t]) \in Nat
      BY <1>1, LogRows
    <2>2. Cut(rs)[t] \in [1 .. Len(rs[t]) -> ResponseType]
      BY <1>2, <2>1
    <2>3. Cut(rs)[t] \in Seq(ResponseType)
      BY <2>1, <2>2, SeqDef
    <2>4. DOMAIN Cut(rs)[t] = 1 .. Len(Cut(rs)[t]) /\ Len(Cut(rs)[t]) \in Nat
      BY <2>3, LenProperties
    <2>5. 1 .. Len(rs[t]) = 1 .. Len(Cut(rs)[t])
      BY <2>1, <2>4
    <2>6. Len(Cut(rs)[t]) = Len(rs[t])
      <3>1. ASSUME NEW a \in Nat, NEW b \in Nat, 1 .. a = 1 .. b PROVE a = b
        <4>1. a > 0 => a \in 1 .. a
          OBVIOUS
        <4>2. b > 0 => b \in 1 .. b
          OBVIOUS
        <4>3. (a > 0 => a <= b) /\ (b > 0 => b <= a)
          BY <3>1, <4>1, <4>2
        <4> QED BY <4>3
      <3> QED BY <2>1, <2>4, <2>5, <3>1
    <2> QED BY <2>1, <2>3, <2>6
  <1>4. Cut(rs) \in Log
    BY <1>1, <1>3 DEF Log
  <1> QED BY <1>2, <1>3, <1>4 DEF SameRows

\* Counting a new response settles the one before and appends an estimate.
LEMMA ObserveResponseRows ==
    ASSUME NEW rs \in Log, NEW th \in Threads, ContextOf(th) \in Nat
    PROVE  LET qs == ObserveResponse(rs, th)
               n == Len(rs[th])
           IN  /\ qs \in Log
               /\ \A t \in Threads \ {th} : qs[t] = rs[t]
               /\ Len(qs[th]) = n + 1
               /\ qs[th][n + 1] = Response(ContextOf(th) + Output)
               /\ \A i \in 1 .. n :
                     /\ qs[th][i].estimate = rs[th][i].estimate
                     /\ qs[th][i].usage = rs[th][i].usage
                     /\ qs[th][i].settled <=> rs[th][i].settled \/ i = n
  <1> DEFINE ps == Settle(rs, th)
             n == Len(rs[th])
             r == Response(ContextOf(th) + Output)
             s == Append(ps[th], r)
             qs == ObserveResponse(rs, th)
  <1>1. /\ ps \in Log /\ Len(ps[th]) = n
        /\ \A t \in Threads \ {th} : ps[t] = rs[t]
        /\ \A i \in 1 .. n : /\ ps[th][i].estimate = rs[th][i].estimate
                             /\ ps[th][i].usage = rs[th][i].usage
                             /\ ps[th][i].settled <=> rs[th][i].settled \/ i = n
    BY SettleRows DEF SameRows
  <1>2. r \in ResponseType
    BY MergeFacts, LedgerAssumption DEF Response, ResponseType
  <1>3. qs = [ps EXCEPT ![th] = s]
    BY DEF ObserveResponse
  <1> HIDE DEF ps, r
  <1>4. ps[th] \in Seq(ResponseType) /\ n \in Nat
    BY <1>1, LogRows DEF Log
  <1>5. /\ s \in Seq(ResponseType) /\ Len(s) = n + 1 /\ s[n + 1] = r
        /\ \A i \in 1 .. n : s[i] = ps[th][i]
    BY <1>1, <1>2, <1>4
  <1> HIDE DEF s, qs
  <1>6. qs \in Log /\ qs[th] = s /\ \A t \in Threads \ {th} : qs[t] = ps[t]
    BY <1>1, <1>3, <1>5 DEF Log
  <1> QED BY <1>1, <1>5, <1>6 DEF qs, r

\* The report u of the i-th response of th turned rs into qs.
Reported(rs, qs, th, i, u) ==
    /\ qs \in Log
    /\ \A t \in Threads \ {th} : qs[t] = rs[t]
    /\ Len(qs[th]) = Len(rs[th])
    /\ \A j \in 1 .. Len(rs[th]) :
          /\ j # i => qs[th][j] = rs[th][j]
          /\ qs[th][j].estimate = rs[th][j].estimate
          /\ qs[th][j].settled = rs[th][j].settled
    /\ qs[th][i].usage = Merge(rs[th][i].usage, u)

\* A report reaches the usage of its response and nothing else.
LEMMA ObserveUsageRows ==
    ASSUME NEW rs \in Log, NEW th \in Threads, NEW i \in 1 .. Len(rs[th]), NEW u \in Usage
    PROVE  Reported(rs, ObserveUsage(rs, th, i, u), th, i, u)
  <1> DEFINE qs == ObserveUsage(rs, th, i, u)
             r == [rs[th][i] EXCEPT !.usage = Merge(@, u)]
  <1>1. rs[th][i] \in ResponseType
    BY LogRows
  <1>2. rs[th][i].usage \in Usage
    BY <1>1 DEF ResponseType
  <1>3. CASE u = NoUsage
    BY <1>2, <1>3, MergeFacts DEF ObserveUsage, Reported
  <1>4. CASE u # NoUsage
    <2>1. Merge(rs[th][i].usage, u) \in Usage
      BY <1>2, MergeFacts
    <2>2. /\ r \in ResponseType /\ r.usage = Merge(rs[th][i].usage, u)
          /\ r.estimate = rs[th][i].estimate /\ r.settled = rs[th][i].settled
      BY <1>1, <2>1 DEF ResponseType
    <2>3. qs = Put(rs, th, i, r)
      BY <1>4 DEF ObserveUsage, Put
    <2> HIDE DEF r, qs
    <2>4. /\ qs \in Log
          /\ \A t \in Threads \ {th} : qs[t] = rs[t]
          /\ Len(qs[th]) = Len(rs[th])
          /\ qs[th][i] = r
          /\ \A j \in 1 .. Len(rs[th]) : j # i => qs[th][j] = rs[th][j]
      BY <2>2, <2>3, PutRows
    <2>5. /\ \A j \in 1 .. Len(rs[th]) :
                /\ j # i => qs[th][j] = rs[th][j]
                /\ qs[th][j].estimate = rs[th][j].estimate
                /\ qs[th][j].settled = rs[th][j].settled
          /\ qs[th][i].usage = Merge(rs[th][i].usage, u)
      BY <2>2, <2>4
    <2> QED BY <2>4, <2>5 DEF qs, Reported
  <1> QED BY <1>3, <1>4

\* The responses of the ledger are finitely many and count for something.
CountFn(rs) == [p \in All(rs) |-> Counted(rs[p[1]][p[2]])]

\* A position of the ledger is a thread and an index.
LEMMA AllRows ==
    ASSUME NEW rs \in Log
    PROVE  /\ \A t \in Threads : \A i \in 1 .. Len(rs[t]) : <<t, i>> \in All(rs)
           /\ \A p \in All(rs) : /\ p[1] \in Threads /\ p[2] \in 1 .. Len(rs[p[1]])
                                 /\ p = <<p[1], p[2]>>
           /\ \A p \in All(rs) : CountFn(rs)[p] \in Nat \ {0}
  <1>1. \A t \in Threads : DOMAIN rs[t] = 1 .. Len(rs[t])
    BY LogRows
  <1>2. \A t \in Threads : \A i \in 1 .. Len(rs[t]) : <<t, i>> \in All(rs)
    BY <1>1 DEF All
  <1>3. ASSUME NEW p \in All(rs)
        PROVE  /\ p[1] \in Threads /\ p[2] \in 1 .. Len(rs[p[1]])
               /\ p = <<p[1], p[2]>>
    <2>1. PICK t \in Threads : p \in {<<t, i>> : i \in DOMAIN rs[t]}
      BY DEF All
    <2>2. PICK i \in 1 .. Len(rs[t]) : p = <<t, i>>
      BY <1>1, <2>1
    <2> QED BY <2>2
  <1>4. ASSUME NEW p \in All(rs)
        PROVE  CountFn(rs)[p] \in Nat \ {0}
    <2>1. rs[p[1]][p[2]] \in ResponseType
      BY <1>3, LogRows
    <2> QED BY <2>1, CountedFacts DEF CountFn
  <1> QED BY <1>2, <1>3, <1>4

\* What keeps the counts keeps the budget, and who has reported.
LEMMA SameBudget ==
    ASSUME NEW rs \in Log, NEW qs, SameRows(rs, qs)
    PROVE  /\ All(qs) = All(rs)
           /\ Budget(qs) = Budget(rs)
           /\ Unreported(qs) = Unreported(rs)
           /\ \A S : SumOf(qs, S) = SumOf(rs, S)
  <1>1. /\ qs \in Log
        /\ \A t \in Threads : /\ DOMAIN qs[t] = 1 .. Len(rs[t])
                              /\ DOMAIN rs[t] = 1 .. Len(rs[t])
    BY LogRows DEF SameRows
  <1>2. All(qs) = All(rs)
    BY <1>1 DEF All
  <1>3. \A p \in All(rs) : /\ Counted(qs[p[1]][p[2]]) = Counted(rs[p[1]][p[2]])
                           /\ qs[p[1]][p[2]].usage = rs[p[1]][p[2]].usage
    BY AllRows DEF SameRows, Counted
  <1>4. CountFn(qs) = CountFn(rs)
    BY <1>2, <1>3 DEF CountFn
  <1>5. \A S : SumOf(qs, S) = SumOf(rs, S)
    BY <1>4 DEF SumOf, CountFn
  <1>6. Unreported(qs) = Unreported(rs)
    BY <1>2, <1>3 DEF Unreported
  <1> QED BY <1>2, <1>5, <1>6 DEF Budget

-----------------------------------------------------------------------------
(* The inductive invariant *)

Shapes ==
    /\ started \subseteq Threads /\ Main \in started
    /\ context \in [Threads -> Nat]
    /\ responses \in Log
    /\ streamId \in [Threads -> Nat]
    /\ pendingUsage \in [Threads -> Usage]
    /\ crossed \in BOOLEAN /\ ceiling \in BOOLEAN
    /\ phase \in {"open", "closed", "reconciled"}
    /\ reports \in [Threads -> [1 .. MaxResponses -> Usage]]

\* Only the last response of a thread is in flight, and the stream is at most
\* one response ahead of the messages.
Order ==
    \A th \in Threads :
       /\ Len(responses[th]) <= MaxResponses
       /\ streamId[th] <= Len(responses[th]) + 1
       /\ streamId[th] <= MaxResponses
       /\ \A i \in 1 .. Len(responses[th]) : i < Len(responses[th]) => responses[th][i].settled

\* ReportsMergedOnce, and no report is ahead of the stream.
Merged ==
    \A th \in Threads :
       /\ \A i \in 1 .. Len(responses[th]) : responses[th][i].usage = reports[th][i]
       /\ Len(responses[th]) + 1 <= MaxResponses =>
             pendingUsage[th] = reports[th][Len(responses[th]) + 1]
       /\ \A i \in 1 .. MaxResponses :
             i > Len(responses[th]) + 1 => reports[th][i] = NoUsage

\* The numbers of the constants.
LEMMA Numbers ==
    /\ MaxTokens \in Nat /\ ShareThreshold \in Nat /\ ReserveTurns \in Nat
    /\ MainBase \in Nat /\ SubagentBase \in Nat /\ Growth \in Nat
    /\ MaxResponses \in Nat /\ MaxInputs \in Nat
    /\ Output \in Nat /\ Output # 0
    /\ Usages \subseteq Usage /\ Main \in Threads /\ Subagents \subseteq Threads
  BY LedgerAssumption DEF Threads

\* A message on a thread starts it and takes its context from it.
LEMMA StartShapes ==
    ASSUME Shapes, NEW th \in Threads, Start(th)
    PROVE  /\ started' \subseteq Threads /\ Main \in started'
           /\ ContextOf(th) \in Nat
  BY Numbers DEF Shapes, Start, ContextOf

\* Steps that settle or mark responses and change no report.
LEMMA SameKeeps ==
    ASSUME Shapes, Order, Merged, SameRows(responses, responses'),
           UNCHANGED <<streamId, pendingUsage, reports>>
    PROVE  Order' /\ Merged' /\ responses' \in Log
  <1>1. \A th \in Threads : Len(responses[th]) \in Nat
    BY LogRows DEF Shapes
  <1>2. Order'
    BY <1>1 DEF SameRows, Order
  <1>3. Merged'
    BY <1>1 DEF SameRows, Merged
  <1> QED BY <1>2, <1>3 DEF SameRows

\* A report of the stream, before or after its response is counted.
LEMMA DeltaKeeps ==
    ASSUME Shapes, Order, Merged, NEW th \in Threads, NEW u \in Usages, MessageDelta(th, u)
    PROVE  Shapes' /\ Order' /\ Merged'
  <1> DEFINE k == streamId[th]
             n == Len(responses[th])
  <1>0. /\ u \in Usage /\ k \in 1 .. MaxResponses /\ k <= n + 1 /\ n \in Nat
        /\ DOMAIN responses[th] = 1 .. n /\ MaxResponses \in Nat
        /\ \A t \in Threads : Len(responses[t]) \in Nat
        /\ UNCHANGED <<started, streamId, phase>>
    BY LogRows, Numbers DEF Shapes, Order, MessageDelta
  <1>1. /\ reports' \in [Threads -> [1 .. MaxResponses -> Usage]]
        /\ \A t \in Threads \ {th} : reports'[t] = reports[t]
        /\ \A i \in 1 .. MaxResponses : i # k => reports'[th][i] = reports[th][i]
        /\ reports'[th][k] = Merge(reports[th][k], u)
    <2>1. reports' = [reports EXCEPT ![th] = [reports[th] EXCEPT ![k] = Merge(reports[th][k], u)]]
      BY DEF MessageDelta
    <2>2. Merge(reports[th][k], u) \in Usage
      BY <1>0, MergeFacts DEF Shapes
    <2> QED BY <1>0, <2>1, <2>2 DEF Shapes
  <1>2. crossed' \in BOOLEAN /\ ceiling' \in BOOLEAN
    BY DEF MessageDelta, AfterUpdate, CheckLimits
  <1>3. CASE k \in 1 .. n
    <2>1. responses' = ObserveUsage(responses, th, k, u) /\ pendingUsage' = pendingUsage
      BY <1>0, <1>3 DEF MessageDelta
    <2>2. /\ responses' \in Log
          /\ \A t \in Threads \ {th} : responses'[t] = responses[t]
          /\ Len(responses'[th]) = n
          /\ \A j \in 1 .. n : /\ j # k => responses'[th][j] = responses[th][j]
                               /\ responses'[th][j].settled = responses[th][j].settled
          /\ responses'[th][k].usage = Merge(responses[th][k].usage, u)
      <3>1. responses \in Log /\ k \in 1 .. Len(responses[th])
        BY <1>0, <1>3 DEF Shapes
      <3>2. Reported(responses, responses', th, k, u)
        BY <1>0, <2>1, <3>1, ObserveUsageRows
      <3> QED BY <3>2 DEF Reported
    <2>3. context' \in [Threads -> Nat]
      <3>1. responses'[th][k].usage \in Usage
        BY <1>0, <1>3, <2>2, LogRows DEF ResponseType
      <3>2. Total(responses'[th][k].usage) \in Nat
        BY <3>1, TotalFacts
      <3> QED BY <1>0, <1>3, <3>2 DEF MessageDelta, Shapes
    <2>4. Order'
      BY <1>0, <2>2 DEF Order
    <2>5. Merged'
      <3>1. ASSUME NEW t \in Threads, t # th
            PROVE  /\ \A i \in 1 .. Len(responses'[t]) : responses'[t][i].usage = reports'[t][i]
                   /\ Len(responses'[t]) + 1 <= MaxResponses =>
                         pendingUsage'[t] = reports'[t][Len(responses'[t]) + 1]
                   /\ \A i \in 1 .. MaxResponses :
                         i > Len(responses'[t]) + 1 => reports'[t][i] = NoUsage
        BY SMTT(30), <1>1, <2>1, <2>2, <3>1 DEF Merged
      <3>2. \A i \in 1 .. n : responses'[th][i].usage = reports'[th][i]
        BY SMTT(30), <1>0, <1>1, <1>3, <2>2 DEF Merged, Order
      <3>3. /\ n + 1 <= MaxResponses => pendingUsage'[th] = reports'[th][n + 1]
            /\ \A i \in 1 .. MaxResponses : i > n + 1 => reports'[th][i] = NoUsage
        <4>1. /\ n + 1 <= MaxResponses => pendingUsage[th] = reports[th][n + 1]
              /\ \A i \in 1 .. MaxResponses : i > n + 1 => reports[th][i] = NoUsage
          BY DEF Merged
        <4>2. \A i \in 1 .. MaxResponses : i > n => reports'[th][i] = reports[th][i]
          BY <1>0, <1>1, <1>3
        <4>3. n + 1 <= MaxResponses => n + 1 \in 1 .. MaxResponses /\ n + 1 > n
          BY <1>0
        <4>4. \A i \in 1 .. MaxResponses : i > n + 1 => i > n
          BY <1>0
        <4> HIDE DEF n
        <4> QED BY <2>1, <4>1, <4>2, <4>3, <4>4
      <3> QED BY <2>2, <3>1, <3>2, <3>3 DEF Merged
    <2> QED BY <1>0, <1>1, <1>2, <2>1, <2>2, <2>3, <2>4, <2>5 DEF Shapes
  <1>4. CASE k \notin 1 .. n
    <2>1. k = n + 1
      BY <1>0, <1>4
    <2>2. /\ pendingUsage' = [pendingUsage EXCEPT ![th] = Merge(@, u)]
          /\ UNCHANGED <<responses, context>>
      BY <1>0, <1>4 DEF MessageDelta
    <2>3. pendingUsage' \in [Threads -> Usage]
      BY <1>0, <2>2, MergeFacts DEF Shapes
    <2>4. Order'
      BY <1>0, <2>2 DEF Order
    <2>5. Merged'
      <3>1. pendingUsage'[th] = Merge(pendingUsage[th], u)
            /\ \A t \in Threads \ {th} : pendingUsage'[t] = pendingUsage[t]
        BY <2>2 DEF Shapes
      <3>2. pendingUsage[th] = reports[th][k]
        BY <1>0, <2>1 DEF Merged
      <3>3. \A i \in 1 .. n : responses'[th][i].usage = reports'[th][i]
        BY <1>0, <1>1, <2>1, <2>2 DEF Merged, Order
      <3>4. /\ pendingUsage'[th] = reports'[th][n + 1]
            /\ \A i \in 1 .. MaxResponses : i > n + 1 => reports'[th][i] = NoUsage
        BY <1>0, <1>1, <2>1, <3>1, <3>2 DEF Merged
      <3>5. ASSUME NEW t \in Threads, t # th
            PROVE  /\ \A i \in 1 .. Len(responses'[t]) : responses'[t][i].usage = reports'[t][i]
                   /\ Len(responses'[t]) + 1 <= MaxResponses =>
                         pendingUsage'[t] = reports'[t][Len(responses'[t]) + 1]
                   /\ \A i \in 1 .. MaxResponses :
                         i > Len(responses'[t]) + 1 => reports'[t][i] = NoUsage
        BY <1>1, <2>2, <3>1, <3>5 DEF Merged
      <3> QED BY <2>2, <3>3, <3>4, <3>5 DEF Merged
    <2> QED BY <1>0, <1>1, <1>2, <2>2, <2>3, <2>4, <2>5 DEF Shapes
  <1> QED BY <1>3, <1>4

\* The message that counts a new response: what waited for it and what the
\* message brought are merged.
LEMMA NewResponseRows ==
    ASSUME Shapes, NEW th \in Threads, NEW i \in 1 .. MaxResponses,
           NEW u \in Usages \cup {NoUsage}, AssistantMessage(th, i, u),
           i = Len(responses[th]) + 1
    PROVE  LET n == Len(responses[th])
               stash == pendingUsage[th]
           IN  /\ responses' \in Log
               /\ \A t \in Threads \ {th} : responses'[t] = responses[t]
               /\ Len(responses'[th]) = n + 1
               /\ \A j \in 1 .. n :
                     /\ responses'[th][j].estimate = responses[th][j].estimate
                     /\ responses'[th][j].usage = responses[th][j].usage
                     /\ responses'[th][j].settled <=> responses[th][j].settled \/ j = n
               /\ responses'[th][n + 1].estimate = ContextOf(th) + Output
               /\ responses'[th][n + 1].usage = Merge(u, stash)
               /\ ~responses'[th][n + 1].settled
  <1> DEFINE n == Len(responses[th])
             rs == ObserveResponse(responses, th)
             qs == ObserveUsage(rs, th, i, u)
             stash == pendingUsage[th]
  <1>0. /\ n \in Nat /\ i = n + 1 /\ u \in Usage /\ stash \in Usage /\ ContextOf(th) \in Nat
        /\ responses \in Log
    BY LogRows, Numbers, MergeFacts, StartShapes DEF Shapes, AssistantMessage
  <1>1. responses' = ObserveUsage(qs, th, i, stash)
    BY DEF AssistantMessage, Next1
  <1>2. /\ rs \in Log /\ Len(rs[th]) = n + 1
        /\ \A t \in Threads \ {th} : rs[t] = responses[t]
        /\ rs[th][n + 1] = Response(ContextOf(th) + Output)
        /\ \A j \in 1 .. n :
              /\ rs[th][j].estimate = responses[th][j].estimate
              /\ rs[th][j].usage = responses[th][j].usage
              /\ rs[th][j].settled <=> responses[th][j].settled \/ j = n
    BY <1>0, ObserveResponseRows
  <1>3. /\ rs[th][n + 1].usage = NoUsage /\ rs[th][n + 1].settled = FALSE
        /\ rs[th][n + 1].estimate = ContextOf(th) + Output
    BY <1>2 DEF Response
  <1> HIDE DEF rs
  <1>4. i \in 1 .. Len(rs[th])
    BY <1>0, <1>2
  <1>5. /\ qs \in Log /\ Len(qs[th]) = n + 1
        /\ \A t \in Threads \ {th} : qs[t] = rs[t]
        /\ \A j \in 1 .. n + 1 : /\ j # i => qs[th][j] = rs[th][j]
                                 /\ qs[th][j].estimate = rs[th][j].estimate
                                 /\ qs[th][j].settled = rs[th][j].settled
        /\ qs[th][i].usage = Merge(rs[th][i].usage, u)
    <2>1. Reported(rs, qs, th, i, u)
      BY <1>0, <1>2, <1>4, ObserveUsageRows
    <2> HIDE DEF qs
    <2> QED BY <1>2, <2>1 DEF Reported
  <1>6. qs[th][i].usage = u
    BY <1>0, <1>3, <1>5, MergeFacts
  <1> HIDE DEF qs
  <1>7. i \in 1 .. Len(qs[th])
    BY <1>0, <1>5
  <1>8. /\ responses' \in Log /\ Len(responses'[th]) = n + 1
        /\ \A t \in Threads \ {th} : responses'[t] = qs[t]
        /\ \A j \in 1 .. n + 1 : /\ j # i => responses'[th][j] = qs[th][j]
                                 /\ responses'[th][j].estimate = qs[th][j].estimate
                                 /\ responses'[th][j].settled = qs[th][j].settled
        /\ responses'[th][i].usage = Merge(qs[th][i].usage, stash)
    <2>1. Reported(qs, ObserveUsage(qs, th, i, stash), th, i, stash)
      BY <1>0, <1>5, <1>7, ObserveUsageRows
    <2> QED BY <1>1, <1>5, <2>1 DEF Reported
  <1>9. \A j \in 1 .. n : j \in 1 .. n + 1 /\ j # i
    BY <1>0
  <1>10. n + 1 \in 1 .. n + 1
    BY <1>0
  <1>11. \A j \in 1 .. n :
              /\ responses'[th][j].estimate = responses[th][j].estimate
              /\ responses'[th][j].usage = responses[th][j].usage
              /\ responses'[th][j].settled <=> responses[th][j].settled \/ j = n
    BY <1>2, <1>5, <1>8, <1>9
  <1>12. /\ responses'[th][n + 1].estimate = ContextOf(th) + Output
         /\ responses'[th][n + 1].usage = Merge(u, stash)
         /\ ~responses'[th][n + 1].settled
    BY <1>0, <1>3, <1>5, <1>6, <1>8, <1>10
  <1> QED BY <1>2, <1>5, <1>8, <1>11, <1>12

\* A later message of a counted response.
LEMMA OldResponseRows ==
    ASSUME Shapes, NEW th \in Threads, NEW i \in 1 .. MaxResponses,
           NEW u \in Usages \cup {NoUsage}, AssistantMessage(th, i, u),
           i # Len(responses[th]) + 1
    PROVE  LET n == Len(responses[th])
           IN  /\ i = n
               /\ responses' = ObserveUsage(responses, th, n, u)
               /\ responses' \in Log
               /\ \A t \in Threads \ {th} : responses'[t] = responses[t]
               /\ Len(responses'[th]) = n
               /\ \A j \in 1 .. n : /\ j # n => responses'[th][j] = responses[th][j]
                                    /\ responses'[th][j].estimate = responses[th][j].estimate
                                    /\ responses'[th][j].settled = responses[th][j].settled
               /\ responses'[th][n].usage = Merge(responses[th][n].usage, u)
  <1> DEFINE n == Len(responses[th])
  <1>0. n \in Nat /\ u \in Usage /\ responses \in Log
    BY LogRows, Numbers, MergeFacts DEF Shapes
  <1>1. i = n
    BY DEF AssistantMessage, Next1
  <1>2. responses' = ObserveUsage(ObserveUsage(responses, th, i, u), th, i, NoUsage)
    BY DEF AssistantMessage, Next1
  <1>3. responses' = ObserveUsage(responses, th, n, u)
    BY <1>1, <1>2 DEF ObserveUsage
  <1>4. n \in 1 .. Len(responses[th])
    BY <1>0, <1>1
  <1>5. Reported(responses, responses', th, n, u)
    BY <1>0, <1>3, <1>4, ObserveUsageRows
  <1> QED BY <1>0, <1>1, <1>3, <1>5 DEF Reported

\* An assistant message, of a new response or a counted one.
LEMMA AssistantKeeps ==
    ASSUME Shapes, Order, Merged, NEW th \in Threads, NEW i \in 1 .. MaxResponses,
           NEW u \in Usages \cup {NoUsage}, AssistantMessage(th, i, u)
    PROVE  Shapes' /\ Order' /\ Merged'
  <1> DEFINE n == Len(responses[th])
  <1>0. /\ u \in Usage /\ n \in Nat /\ MaxResponses \in Nat
        /\ \A t \in Threads : Len(responses[t]) \in Nat
        /\ UNCHANGED <<streamId, phase>>
        /\ started' \subseteq Threads /\ Main \in started' /\ ContextOf(th) \in Nat
    BY LogRows, Numbers, MergeFacts, StartShapes DEF Shapes, AssistantMessage
  <1>1. /\ reports' \in [Threads -> [1 .. MaxResponses -> Usage]]
        /\ \A t \in Threads \ {th} : reports'[t] = reports[t]
        /\ \A j \in 1 .. MaxResponses : j # i => reports'[th][j] = reports[th][j]
        /\ reports'[th][i] = Merge(reports[th][i], u)
    <2>1. reports' = [reports EXCEPT ![th] = [reports[th] EXCEPT ![i] = Merge(reports[th][i], u)]]
      BY DEF AssistantMessage
    <2>2. Merge(reports[th][i], u) \in Usage
      BY <1>0, MergeFacts DEF Shapes
    <2> QED BY <1>0, <2>1, <2>2 DEF Shapes
  <1>2. crossed' \in BOOLEAN /\ ceiling' \in BOOLEAN
    BY DEF AssistantMessage, AfterUpdate, CheckLimits
  <1>3. /\ pendingUsage' \in [Threads -> Usage]
        /\ \A t \in Threads \ {th} : pendingUsage'[t] = pendingUsage[t]
        /\ pendingUsage'[th] = IF i = n + 1 THEN NoUsage ELSE pendingUsage[th]
    BY MergeFacts DEF AssistantMessage, Shapes, Next1
  <1>4. /\ responses' \in Log /\ Len(responses'[th]) = (IF i = n + 1 THEN n + 1 ELSE n)
        /\ \A t \in Threads \ {th} : responses'[t] = responses[t]
        /\ i \in 1 .. Len(responses'[th])
    BY <1>0, NewResponseRows, OldResponseRows
  <1>5. context' \in [Threads -> Nat]
    <2>1. responses'[th][i].usage \in Usage
      BY <1>4, LogRows DEF ResponseType
    <2>2. Total(responses'[th][i].usage) \in Nat
      BY <2>1, TotalFacts
    <2>3. ContextOf(th) + Output \in Nat /\ ContextOf(th) + 0 \in Nat
      BY <1>0, Numbers
    <2>4. \E x \in Nat : context' = [context EXCEPT ![th] = x]
      BY <1>0, <2>2, <2>3 DEF AssistantMessage
    <2> QED BY <2>4 DEF Shapes
  <1>6. ASSUME NEW t \in Threads, t # th
        PROVE  /\ \A j \in 1 .. Len(responses'[t]) : responses'[t][j].usage = reports'[t][j]
               /\ Len(responses'[t]) + 1 <= MaxResponses =>
                     pendingUsage'[t] = reports'[t][Len(responses'[t]) + 1]
               /\ \A j \in 1 .. MaxResponses :
                     j > Len(responses'[t]) + 1 => reports'[t][j] = NoUsage
    BY <1>1, <1>3, <1>4, <1>6 DEF Merged
  <1>7. /\ \A j \in 1 .. n : responses[th][j].usage = reports[th][j]
        /\ n + 1 <= MaxResponses => pendingUsage[th] = reports[th][n + 1]
        /\ \A j \in 1 .. MaxResponses : j > n + 1 => reports[th][j] = NoUsage
    BY DEF Merged
  <1>8. CASE i = n + 1
    <2>1. /\ Len(responses'[th]) = n + 1
          /\ \A j \in 1 .. n :
                /\ responses'[th][j].usage = responses[th][j].usage
                /\ responses'[th][j].settled <=> responses[th][j].settled \/ j = n
          /\ responses'[th][n + 1].usage = Merge(u, pendingUsage[th])
      BY <1>8, NewResponseRows
    <2>2. Order'
      <3>1. \A j \in 1 .. n + 1 : j < n + 1 => responses'[th][j].settled
        <4>1. \A j \in 1 .. n : j < n => responses[th][j].settled
          BY DEF Order
        <4>2. \A j \in 1 .. n + 1 : j < n + 1 => j \in 1 .. n /\ (j < n \/ j = n)
          BY <1>0
        <4> QED BY <2>1, <4>1, <4>2
      <3>2. n + 1 <= MaxResponses /\ streamId[th] <= n + 1 + 1 /\ streamId[th] <= MaxResponses
        BY <1>0, <1>8 DEF Order, Shapes
      <3>3. ASSUME NEW t \in Threads, t # th
            PROVE  /\ Len(responses'[t]) <= MaxResponses
                   /\ streamId'[t] <= Len(responses'[t]) + 1 /\ streamId'[t] <= MaxResponses
                   /\ \A j \in 1 .. Len(responses'[t]) :
                         j < Len(responses'[t]) => responses'[t][j].settled
        BY <1>0, <1>4, <3>3 DEF Order
      <3> QED BY <1>0, <2>1, <3>1, <3>2, <3>3 DEF Order
    <2>3. responses'[th][n + 1].usage = reports'[th][n + 1]
      <3>1. pendingUsage[th] = reports[th][n + 1] /\ reports[th][n + 1] \in Usage
        BY <1>0, <1>7, <1>8 DEF Shapes
      <3> QED BY <1>0, <1>1, <1>8, <2>1, <3>1, MergeFacts
    <2>4. \A j \in 1 .. n + 1 : responses'[th][j].usage = reports'[th][j]
      <3>1. \A j \in 1 .. n + 1 : j \in 1 .. n \/ j = n + 1
        BY <1>0
      <3>2. ASSUME NEW j \in 1 .. n PROVE responses'[th][j].usage = reports'[th][j]
        <4>1. j # i /\ j \in 1 .. MaxResponses
          BY <1>0, <1>8
        <4>2. reports'[th][j] = reports[th][j]
          BY <1>1, <4>1
        <4>3. responses'[th][j].usage = responses[th][j].usage
          BY <2>1
        <4>4. responses[th][j].usage = reports[th][j]
          BY <1>7
        <4> QED BY <4>2, <4>3, <4>4
      <3> QED BY <2>3, <3>1, <3>2
    <2>5. n + 2 <= MaxResponses => pendingUsage'[th] = reports'[th][n + 2]
      <3>1. n + 2 <= MaxResponses =>
               n + 2 \in 1 .. MaxResponses /\ n + 2 > n + 1 /\ n + 2 # i
        BY <1>0, <1>8
      <3> QED BY <1>1, <1>3, <1>7, <1>8, <3>1
    <2>6. \A j \in 1 .. MaxResponses : j > n + 2 => reports'[th][j] = NoUsage
      BY <1>0, <1>1, <1>7, <1>8
    <2>7. (n + 1) + 1 = n + 2
      BY <1>0
    <2>8. Merged'
      BY <1>6, <2>1, <2>4, <2>5, <2>6, <2>7 DEF Merged
    <2> QED BY <1>0, <1>1, <1>2, <1>3, <1>4, <1>5, <2>2, <2>8 DEF Shapes
  <1>9. CASE i # n + 1
    <2>1. /\ i = n /\ Len(responses'[th]) = n
          /\ \A j \in 1 .. n : /\ j # n => responses'[th][j] = responses[th][j]
                               /\ responses'[th][j].settled = responses[th][j].settled
          /\ responses'[th][n].usage = Merge(responses[th][n].usage, u)
      BY <1>9, OldResponseRows
    <2>2. Order'
      BY <1>0, <1>4, <2>1 DEF Order
    <2>3. \A j \in 1 .. n : responses'[th][j].usage = reports'[th][j]
      BY <1>0, <1>1, <1>7, <2>1
    <2>4. n + 1 <= MaxResponses => pendingUsage'[th] = reports'[th][n + 1]
      BY <1>0, <1>1, <1>3, <1>7, <2>1
    <2>5. \A j \in 1 .. MaxResponses : j > n + 1 => reports'[th][j] = NoUsage
      BY <1>0, <1>1, <1>7, <2>1
    <2>6. Merged'
      BY <1>6, <2>1, <2>3, <2>4, <2>5 DEF Merged
    <2> QED BY <1>0, <1>1, <1>2, <1>3, <1>4, <1>5, <2>2, <2>6 DEF Shapes
  <1> QED BY <1>8, <1>9

\* What a step does to the rows of the responses: a report, a message, or a
\* change of marks only.
LEMMA MarksOnly ==
    ASSUME Shapes,
           \/ \E th \in Threads : LaunchSubagent(th) \/ MessageStart(th)
           \/ \E th \in Threads : \E done \in Subagents \cup {th} : UserMessage(th, done)
           \/ Interrupt \/ ResultMessage \/ CeilingStop \/ Reconcile \/ UNCHANGED ledgerVars
    PROVE  SameRows(responses, responses') /\ UNCHANGED <<pendingUsage, reports>>
  <1>0. responses \in Log
    BY DEF Shapes
  <1>s. SameRows(responses, responses)
    BY <1>0 DEF SameRows
  <1>1. ASSUME NEW th \in Threads, LaunchSubagent(th) \/ MessageStart(th)
        PROVE  SameRows(responses, responses') /\ UNCHANGED <<pendingUsage, reports>>
    BY <1>1, <1>s DEF LaunchSubagent, MessageStart
  <1>2. ASSUME NEW th \in Threads, NEW done \in Subagents \cup {th}, UserMessage(th, done)
        PROVE  SameRows(responses, responses') /\ UNCHANGED <<pendingUsage, reports>>
    <2> DEFINE qs == IF done = th THEN responses ELSE SettleThread(responses, done)
    <2>1. done \in Threads
      BY Numbers
    <2>2. SameRows(responses, qs)
      BY <1>0, <1>s, <2>1, SettleThreadRows
    <2>3. qs \in Log
      BY <2>2 DEF SameRows
    <2>4. responses' = Settle(qs, th) /\ UNCHANGED <<pendingUsage, reports>>
      BY <1>2 DEF UserMessage
    <2> HIDE DEF qs
    <2>5. SameRows(qs, responses')
      BY <2>3, <2>4, SettleRows
    <2> QED BY <1>0, <2>2, <2>4, <2>5, SameTrans
  <1>3. CASE Interrupt
    BY <1>0, <1>3, CutRows DEF Interrupt
  <1>4. CASE ResultMessage
    BY <1>0, <1>4, SettleEachRows DEF ResultMessage, SettleAll
  <1>5. CASE CeilingStop
    <2>1. SameRows(responses, Cut(responses)) /\ Cut(responses) \in Log
      BY <1>0, CutRows DEF SameRows
    <2>2. SameRows(Cut(responses), SettleEach(Cut(responses), SettleThread))
      BY <2>1, SettleEachRows
    <2>3. SameRows(responses, SettleEach(Cut(responses), SettleThread))
      BY <1>0, <2>1, <2>2, SameTrans
    <2> QED BY <1>5, <2>3 DEF CeilingStop, SettleAll
  <1>6. CASE Reconcile
    BY <1>0, <1>6, SettleEachRows DEF Reconcile
  <1>7. CASE UNCHANGED ledgerVars
    BY <1>7, <1>s DEF ledgerVars
  <1> QED BY <1>1, <1>2, <1>3, <1>4, <1>5, <1>6, <1>7

\* The steps, as those that bring a report or a response and the others.
LEMMA Steps ==
    ASSUME [LedgerNext]_ledgerVars
    PROVE  \/ \E th \in Threads : LaunchSubagent(th) \/ MessageStart(th)
           \/ \E th \in Threads : \E u \in Usages : MessageDelta(th, u)
           \/ \E th \in Threads : \E i \in 1 .. MaxResponses : \E u \in Usages \cup {NoUsage} :
                 AssistantMessage(th, i, u)
           \/ \E th \in Threads : \E done \in Subagents \cup {th} : UserMessage(th, done)
           \/ Interrupt \/ ResultMessage \/ CeilingStop \/ Reconcile \/ UNCHANGED ledgerVars
  BY DEF LedgerNext, Reconciled

\* The initial ledger is empty.
LEMMA ShapesInit ==
    ASSUME LedgerInit
    PROVE  Shapes /\ Order /\ Merged /\ \A th \in Threads : Len(responses[th]) = 0
  <1>1. responses \in Log /\ \A th \in Threads : responses[th] = << >> /\ Len(responses[th]) = 0
    BY DEF LedgerInit, Log
  <1>2. NoUsage \in Usage
    BY MergeFacts
  <1>3. reports = [th \in Threads |-> [i \in 1 .. MaxResponses |-> NoUsage]]
    BY DEF LedgerInit
  <1>4. Shapes
    BY <1>1, <1>2, <1>3, Numbers DEF LedgerInit, Shapes
  <1>5. Order
    BY <1>1, Numbers DEF LedgerInit, Order
  <1>6. Merged
    <2>1. \A th \in Threads : \A i \in 1 .. MaxResponses : reports[th][i] = NoUsage
      BY <1>3
    <2>2. \A th \in Threads : pendingUsage[th] = NoUsage
      BY DEF LedgerInit
    <2>3. 0 + 1 = 1 /\ (1 <= MaxResponses => 1 \in 1 .. MaxResponses)
      BY Numbers
    <2> QED BY <1>1, <2>1, <2>2, <2>3 DEF Merged
  <1> QED BY <1>1, <1>4, <1>5, <1>6

\* The message_start of the next response, and a subagent's launch.
LEMMA StartKeeps ==
    ASSUME Shapes, Order, Merged, NEW th \in Threads, LaunchSubagent(th) \/ MessageStart(th)
    PROVE  Shapes' /\ Order' /\ Merged'
  <1>0. /\ responses' = responses /\ UNCHANGED <<pendingUsage, reports, phase>>
        /\ started' \subseteq Threads /\ Main \in started' /\ ContextOf(th) \in Nat
        /\ context' = [context EXCEPT ![th] = ContextOf(th)]
    BY StartShapes DEF LaunchSubagent, MessageStart
  <1>1. \A t \in Threads : Len(responses[t]) \in Nat
    BY LogRows DEF Shapes
  <1>2. crossed' \in BOOLEAN /\ ceiling' \in BOOLEAN
    BY DEF LaunchSubagent, MessageStart, CheckLimits, Shapes
  <1>3. /\ streamId' \in [Threads -> Nat]
        /\ \A t \in Threads : \/ streamId'[t] = streamId[t]
                              \/ /\ streamId'[t] = Len(responses[t]) + 1
                                 /\ streamId'[t] <= MaxResponses
    BY <1>1 DEF LaunchSubagent, MessageStart, Next1, Shapes
  <1>4. Order'
    BY SMTT(30), <1>0, <1>1, <1>3 DEF Order
  <1>5. Merged'
    BY <1>0 DEF Merged
  <1> QED BY <1>0, <1>2, <1>3, <1>4, <1>5 DEF Shapes

\* Every step keeps the shapes, the order of the stream and the reports.
LEMMA StepKeeps ==
    ASSUME Shapes, Order, Merged, [LedgerNext]_ledgerVars
    PROVE  Shapes' /\ Order' /\ Merged'
  <1>1. ASSUME NEW th \in Threads, LaunchSubagent(th) \/ MessageStart(th)
        PROVE  Shapes' /\ Order' /\ Merged'
    BY <1>1, StartKeeps
  <1>2. ASSUME NEW th \in Threads, NEW u \in Usages, MessageDelta(th, u)
        PROVE  Shapes' /\ Order' /\ Merged'
    BY <1>2, DeltaKeeps
  <1>3. ASSUME NEW th \in Threads, NEW i \in 1 .. MaxResponses, NEW u \in Usages \cup {NoUsage},
               AssistantMessage(th, i, u)
        PROVE  Shapes' /\ Order' /\ Merged'
    BY <1>3, AssistantKeeps
  <1>4. ASSUME NEW th \in Threads, NEW done \in Subagents \cup {th}, UserMessage(th, done)
        PROVE  Shapes' /\ Order' /\ Merged'
    <2>1. SameRows(responses, responses') /\ UNCHANGED <<streamId, pendingUsage, reports>>
      BY <1>4, MarksOnly DEF UserMessage
    <2>2. Order' /\ Merged' /\ responses' \in Log
      BY <2>1, SameKeeps
    <2>3. /\ started' \subseteq Threads /\ Main \in started' /\ ContextOf(th) \in Nat
          /\ phase' = phase
      BY <1>4, StartShapes DEF UserMessage
    <2>4. ContextOf(th) + Growth \in Nat
      BY <2>3, Numbers
    <2>5. context' \in [Threads -> Nat] /\ crossed' \in BOOLEAN /\ ceiling' \in BOOLEAN
      BY <1>4, <2>4 DEF UserMessage, CheckLimits, Shapes
    <2> QED BY <2>1, <2>2, <2>3, <2>5 DEF Shapes
  <1>5. CASE Interrupt \/ ResultMessage \/ CeilingStop \/ Reconcile \/ UNCHANGED ledgerVars
    <2>1. SameRows(responses, responses') /\ UNCHANGED <<pendingUsage, reports>>
      BY <1>5, MarksOnly
    <2>2. /\ UNCHANGED <<started, context, streamId, crossed, ceiling>>
          /\ phase' \in {phase, "closed", "reconciled"}
      BY <1>5 DEF Interrupt, ResultMessage, CeilingStop, Reconcile, ledgerVars
    <2>3. Order' /\ Merged' /\ responses' \in Log
      BY <2>1, <2>2, SameKeeps
    <2> QED BY <2>1, <2>2, <2>3 DEF Shapes
  <1> QED BY <1>1, <1>2, <1>3, <1>4, <1>5, Steps

\* The shapes and the order, in the words of LedgerTypeOK.
LEMMA ShapesGive ==
    ASSUME Shapes, Order, Merged
    PROVE  LedgerTypeOK /\ ReportsMergedOnce
  <1>1. \A th \in Threads : /\ DOMAIN responses[th] = 1 .. Len(responses[th])
                            /\ \A i \in 1 .. Len(responses[th]) : responses[th][i] \in ResponseType
    BY LogRows DEF Shapes
  <1>2. LedgerTypeOK
    <2>1. \A th \in Threads : \A i \in 1 .. Len(responses[th]) :
             responses[th][i].estimate \in Nat /\ responses[th][i].usage \in Usage
      BY <1>1 DEF ResponseType
    <2>2. started \subseteq Threads /\ context \in [Threads -> Nat] /\ pendingUsage \in [Threads -> Usage]
      BY DEF Shapes
    <2> QED BY <1>1, <2>1, <2>2 DEF Order, LedgerTypeOK
  <1>3. ReportsMergedOnce
    BY <1>1 DEF Merged, ReportsMergedOnce, Next1
  <1> QED BY <1>2, <1>3

\* The ledger has its types, and only the last response of a thread is in
\* flight, for any number of threads and responses.
THEOREM LedgerTypeHolds == LedgerSpec => []LedgerTypeOK
  <1>1. LedgerInit => Shapes /\ Order /\ Merged
    BY ShapesInit
  <1>2. (Shapes /\ Order /\ Merged) /\ [LedgerNext]_ledgerVars => (Shapes /\ Order /\ Merged)'
    BY StepKeeps
  <1>3. Shapes /\ Order /\ Merged => LedgerTypeOK
    BY ShapesGive
  <1> QED BY <1>1, <1>2, <1>3, PTL DEF LedgerSpec

\* What a response counts is the merge of all that was reported for it,
\* however the stream events and the messages that brought it interleave.
THEOREM ReportsMergedOnceHolds == LedgerSpec => []ReportsMergedOnce
  <1>1. LedgerInit => Shapes /\ Order /\ Merged
    BY ShapesInit
  <1>2. (Shapes /\ Order /\ Merged) /\ [LedgerNext]_ledgerVars => (Shapes /\ Order /\ Merged)'
    BY StepKeeps
  <1>3. Shapes /\ Order /\ Merged => ReportsMergedOnce
    BY ShapesGive
  <1> QED BY <1>1, <1>2, <1>3, PTL DEF LedgerSpec

-----------------------------------------------------------------------------
(* One entry for each settled response *)

\* A step that settles keeps what was settled.
LEMMA SettledMono ==
    ASSUME NEW rs \in Log, NEW qs, SameRows(rs, qs), NEW th \in Threads
    PROVE  SettledIn(rs, th) \subseteq SettledIn(qs, th)
  <1>1. /\ DOMAIN rs[th] = 1 .. Len(rs[th]) /\ DOMAIN qs[th] = 1 .. Len(rs[th])
        /\ \A i \in 1 .. Len(rs[th]) : rs[th][i].settled => qs[th][i].settled
    BY LogRows DEF SameRows
  <1> QED BY <1>1 DEF SettledIn

\* Every response that a step settles gets its entry in that step.
LEMMA EntriesStep ==
    ASSUME logged = UNION {SettledIn(responses, t) : t \in Threads},
           \A t \in Threads : SettledIn(responses, t) \subseteq SettledIn(responses', t),
           NEW D, logged' = logged \cup D,
           \A t \in Threads : SettledIn(responses', t) \subseteq SettledIn(responses, t) \cup D,
           \A d \in D : \E t \in Threads : d \in SettledIn(responses', t)
    PROVE  logged' = UNION {SettledIn(responses', t) : t \in Threads}
  OBVIOUS

\* The entries over a step: each action logs what it settles, and none else.
LEMMA EntriesKeep ==
    ASSUME Shapes, Order, Merged, Shapes', EntriesMatchSettled, [LedgerNext]_ledgerVars
    PROVE  EntriesMatchSettled'
  <1> SUFFICES ASSUME phase' # "reconciled"
               PROVE  logged' = UNION {SettledIn(responses', t) : t \in Threads}
    BY DEF EntriesMatchSettled
  <1>0. responses \in Log /\ responses' \in Log
    BY DEF Shapes
  <1>p. phase # "reconciled" \/ UNCHANGED ledgerVars
    BY ZenonT(30) DEF LedgerNext, LaunchSubagent, MessageStart, MessageDelta, AssistantMessage, UserMessage,
           Interrupt, ResultMessage, CeilingStop, Reconcile, Reconciled, Open
  <1>q. phase # "reconciled"
    BY <1>p DEF ledgerVars
  <1>e. logged = UNION {SettledIn(responses, t) : t \in Threads}
    BY <1>q DEF EntriesMatchSettled
  <1>t. \A t \in Threads : responses'[t] = responses[t] => SettledIn(responses', t) = SettledIn(responses, t)
    BY DEF SettledIn
  <1>m. SameRows(responses, responses') =>
           \A t \in Threads : SettledIn(responses, t) \subseteq SettledIn(responses', t)
    BY <1>0, SettledMono
  <1>d. \A t \in Threads : /\ DOMAIN responses[t] = 1 .. Len(responses[t])
                           /\ DOMAIN responses'[t] = 1 .. Len(responses'[t])
                           /\ Len(responses[t]) \in Nat
    BY <1>0, LogRows
  <1>1. ASSUME NEW th \in Threads, LaunchSubagent(th) \/ MessageStart(th)
        PROVE  logged' = UNION {SettledIn(responses', t) : t \in Threads}
    BY <1>1, <1>e DEF LaunchSubagent, MessageStart
  <1>2. ASSUME NEW th \in Threads, NEW u \in Usages, MessageDelta(th, u)
        PROVE  logged' = UNION {SettledIn(responses', t) : t \in Threads}
    <2>1. /\ logged' = logged \cup SettledIn(responses', th)
          /\ responses' = responses \/ responses' = ObserveUsage(responses, th, streamId[th], u)
      BY <1>2 DEF MessageDelta, AfterUpdate
    <2>2. /\ \A t \in Threads \ {th} : responses'[t] = responses[t]
          /\ Len(responses'[th]) = Len(responses[th])
          /\ \A j \in 1 .. Len(responses[th]) : responses'[th][j].settled = responses[th][j].settled
      <3>1. CASE responses' = responses
        BY <3>1
      <3>2. CASE responses' # responses
        <4>1. streamId[th] \in 1 .. Len(responses[th]) /\ u \in Usage
          BY <1>2, <1>d, <3>2, Numbers DEF MessageDelta
        <4>2. Reported(responses, responses', th, streamId[th], u)
          BY <1>0, <2>1, <3>2, <4>1, ObserveUsageRows
        <4> QED BY <4>2 DEF Reported
      <3> QED BY <3>1, <3>2
    <2>3. SettledIn(responses', th) = SettledIn(responses, th)
      BY <1>d, <2>2 DEF SettledIn
    <2>4. \A t \in Threads : SettledIn(responses', t) = SettledIn(responses, t)
      BY <1>t, <2>2, <2>3
    <2> QED BY <1>e, <2>1, <2>4, EntriesStep
  <1>3. ASSUME NEW th \in Threads, NEW i \in 1 .. MaxResponses, NEW u \in Usages \cup {NoUsage},
               AssistantMessage(th, i, u)
        PROVE  logged' = UNION {SettledIn(responses', t) : t \in Threads}
    <2>1. logged' = logged \cup SettledIn(responses', th)
      BY <1>3 DEF AssistantMessage, AfterUpdate
    <2>2. /\ \A t \in Threads \ {th} : responses'[t] = responses[t]
          /\ Len(responses'[th]) \in {Len(responses[th]), Len(responses[th]) + 1}
          /\ \A j \in 1 .. Len(responses[th]) : responses[th][j].settled => responses'[th][j].settled
      <3>1. CASE i = Len(responses[th]) + 1
        BY <1>3, <3>1, NewResponseRows
      <3>2. CASE i # Len(responses[th]) + 1
        BY <1>3, <3>2, OldResponseRows
      <3> QED BY <3>1, <3>2
    <2>3. 1 .. Len(responses[th]) \subseteq 1 .. Len(responses'[th])
      BY <1>d, <2>2
    <2>4. SettledIn(responses, th) \subseteq SettledIn(responses', th)
      BY <1>d, <2>2, <2>3 DEF SettledIn
    <2>5. \A t \in Threads : t # th => SettledIn(responses', t) = SettledIn(responses, t)
      BY <1>t, <2>2
    <2> QED BY <1>e, <2>1, <2>4, <2>5, EntriesStep
  <1>4. ASSUME NEW th \in Threads, NEW done \in Subagents \cup {th}, UserMessage(th, done)
        PROVE  logged' = UNION {SettledIn(responses', t) : t \in Threads}
    <2> DEFINE qs == IF done = th THEN responses ELSE SettleThread(responses, done)
               D == SettledIn(responses', th) \cup (SettledIn(responses', done) \ SettledIn(responses, done))
    <2>1. done \in Threads
      BY Numbers
    <2>2. \A t \in Threads : SettledIn(responses, t) \subseteq SettledIn(responses', t)
      BY <1>4, <1>m, MarksOnly
    <2>3. responses' = Settle(qs, th) /\ logged' = logged \cup D
      BY <1>4 DEF UserMessage
    <2>4. qs \in Log /\ \A t \in Threads : t # done => qs[t] = responses[t]
      BY <1>0, <2>1, SettleThreadRows DEF SameRows
    <2> HIDE DEF qs
    <2>5. \A t \in Threads : t # done /\ t # th => responses'[t] = responses[t]
      BY <2>3, <2>4, SettleRows
    <2>6. \A t \in Threads : SettledIn(responses', t) \subseteq SettledIn(responses, t) \cup D
      BY <1>t, <2>5
    <2>7. \A d \in D : \E t \in Threads : d \in SettledIn(responses', t)
      BY <2>1
    <2> HIDE DEF D
    <2> QED BY <1>e, <2>2, <2>3, <2>6, <2>7, EntriesStep
  <1>5. CASE Interrupt
    <2>1. \A t \in Threads : /\ Len(responses'[t]) = Len(responses[t])
                             /\ \A j \in 1 .. Len(responses[t]) :
                                   responses'[t][j].settled = responses[t][j].settled
      BY <1>0, <1>5, CutRows DEF Interrupt, SameRows
    <2>2. \A t \in Threads : SettledIn(responses', t) = SettledIn(responses, t)
      BY <1>d, <2>1 DEF SettledIn
    <2> QED BY <1>5, <1>e, <2>2 DEF Interrupt
  <1>6. CASE ResultMessage
    <2> DEFINE D == UNION {SettledIn(responses', t) \ SettledIn(responses, t) : t \in Threads}
    <2>1. logged' = logged \cup D
      BY <1>6 DEF ResultMessage, SettleAll
    <2>2. \A t \in Threads : SettledIn(responses, t) \subseteq SettledIn(responses', t)
      BY <1>6, <1>m, MarksOnly
    <2> QED BY <1>e, <2>1, <2>2, EntriesStep
  <1>7. CASE CeilingStop
    <2> DEFINE cs == Cut(responses)
               D == UNION {SettledIn(responses', t) \ SettledIn(cs, t) : t \in Threads}
    <2>1. logged' = logged \cup D
      BY <1>7 DEF CeilingStop, SettleAll
    <2>2. \A t \in Threads : SettledIn(responses, t) \subseteq SettledIn(responses', t)
      BY <1>7, <1>m, MarksOnly
    <2>3. /\ cs \in Log
          /\ \A t \in Threads : /\ Len(cs[t]) = Len(responses[t])
                                /\ \A j \in 1 .. Len(responses[t]) : cs[t][j].settled = responses[t][j].settled
      BY <1>0, CutRows DEF SameRows
    <2> HIDE DEF cs
    <2>4. \A t \in Threads : DOMAIN cs[t] = 1 .. Len(responses[t])
      BY <2>3, LogRows
    <2>5. \A t \in Threads : SettledIn(cs, t) = SettledIn(responses, t)
      BY <1>d, <2>3, <2>4 DEF SettledIn
    <2> QED BY <1>e, <2>1, <2>2, <2>5, EntriesStep
  <1>8. CASE Reconcile
    BY <1>8 DEF Reconcile
  <1>9. CASE UNCHANGED ledgerVars
    BY <1>9, <1>e DEF ledgerVars
  <1> QED BY <1>1, <1>2, <1>3, <1>4, <1>5, <1>6, <1>7, <1>8, <1>9, Steps

\* Until the reconciliation every settled response of every thread has its
\* limits_checked entry, and no other response has one.
THEOREM EntriesMatchSettledHolds == LedgerSpec => []EntriesMatchSettled
  <1> DEFINE Inv == Shapes /\ Order /\ Merged /\ EntriesMatchSettled
  <1>1. LedgerInit => Inv
    <2>1. ASSUME LedgerInit PROVE EntriesMatchSettled
      <3>1. logged = {} /\ \A t \in Threads : responses[t] = << >>
        BY <2>1 DEF LedgerInit
      <3>2. \A t \in Threads : DOMAIN responses[t] = {}
        BY <3>1
      <3>3. \A t \in Threads : SettledIn(responses, t) = {}
        BY <3>2 DEF SettledIn
      <3> QED BY <3>1, <3>3 DEF EntriesMatchSettled
    <2> QED BY <2>1, ShapesInit
  <1>2. Inv /\ [LedgerNext]_ledgerVars => Inv'
    BY StepKeeps, EntriesKeep
  <1> QED BY <1>1, <1>2, PTL DEF LedgerSpec

-----------------------------------------------------------------------------
(* The limits *)

\* An empty ledger has no budget to watch.
LEMMA EmptyBudget ==
    ASSUME NEW rs, \A th \in Threads : rs[th] = << >>
    PROVE  All(rs) = {} /\ Budget(rs) = 0
  <1>1. \A th \in Threads : DOMAIN rs[th] = {}
    OBVIOUS
  <1>2. All(rs) = {}
    BY <1>1 DEF All
  <1>3. \A f : SumFunctionOnSet(f, {}) = 0
    BY SumStep, FS_EmptySet
  <1> QED BY <1>2, <1>3 DEF Budget, SumOf

\* A step that changes the budget or the main context checks the limits.
LEMMA LimitsKeep ==
    ASSUME Shapes, LimitsWatch, [LedgerNext]_ledgerVars
    PROVE  LimitsWatch'
  <1>0. responses \in Log
    BY DEF Shapes
  <1>1. CASE CheckLimits
    BY <1>1 DEF CheckLimits, LimitsWatch
  <1>2. CASE /\ SameRows(responses, responses') /\ context'[Main] = context[Main]
             /\ UNCHANGED <<crossed, ceiling>>
    BY <1>0, <1>2, SameBudget DEF LimitsWatch
  <1>3. ASSUME NEW th \in Threads, LaunchSubagent(th) \/ MessageStart(th)
        PROVE  LimitsWatch'
    <2>1. CASE LaunchSubagent(th)
      BY <1>1, <2>1 DEF LaunchSubagent
    <2>2. CASE MessageStart(th)
      <3>1. context'[Main] = context[Main]
        BY <2>2, Numbers DEF MessageStart, ContextOf, Shapes
      <3>2. SameRows(responses, responses') /\ UNCHANGED <<crossed, ceiling>>
        BY <2>2, MarksOnly DEF MessageStart
      <3> QED BY <1>2, <3>1, <3>2
    <2> QED BY <1>3, <2>1, <2>2
  <1>4. ASSUME NEW th \in Threads, NEW u \in Usages, MessageDelta(th, u)
        PROVE  LimitsWatch'
    BY <1>1, <1>4 DEF MessageDelta, AfterUpdate
  <1>5. ASSUME NEW th \in Threads, NEW i \in 1 .. MaxResponses, NEW u \in Usages \cup {NoUsage},
               AssistantMessage(th, i, u)
        PROVE  LimitsWatch'
    BY <1>1, <1>5 DEF AssistantMessage, AfterUpdate
  <1>6. ASSUME NEW th \in Threads, NEW done \in Subagents \cup {th}, UserMessage(th, done)
        PROVE  LimitsWatch'
    BY <1>1, <1>6 DEF UserMessage
  <1>7. CASE Interrupt \/ ResultMessage \/ CeilingStop \/ Reconcile \/ UNCHANGED ledgerVars
    <2>1. SameRows(responses, responses')
      BY <1>7, MarksOnly
    <2>2. UNCHANGED <<context, crossed, ceiling>>
      BY <1>7 DEF Interrupt, ResultMessage, CeilingStop, Reconcile, ledgerVars
    <2> QED BY <1>2, <2>1, <2>2
  <1> QED BY <1>3, <1>4, <1>5, <1>6, <1>7, Steps

\* A budget beyond the threshold or the ceiling has always been noticed.
THEOREM LimitsWatchHolds == LedgerSpec => []LimitsWatch
  <1> DEFINE Inv == Shapes /\ Order /\ Merged /\ LimitsWatch
  <1>1. LedgerInit => Inv
    <2>1. ASSUME LedgerInit PROVE LimitsWatch
      <3>1. \A th \in Threads : responses[th] = << >>
        BY <2>1 DEF LedgerInit
      <3>2. Budget(responses) = 0
        BY <3>1, EmptyBudget
      <3> QED BY <3>2 DEF LimitsWatch
    <2> QED BY <2>1, ShapesInit
  <1>2. Inv /\ [LedgerNext]_ledgerVars => Inv'
    BY StepKeeps, LimitsKeep
  <1> QED BY <1>1, <1>2, PTL DEF LedgerSpec

\* The ledger is finite.
LEMMA AllFinite ==
    ASSUME NEW rs \in Log, \A t \in Threads : Len(rs[t]) <= MaxResponses
    PROVE  IsFiniteSet(All(rs))
  <1>1. IsFiniteSet(Threads)
    BY LedgerAssumption, FS_AddElement DEF Threads
  <1>2. IsFiniteSet(1 .. MaxResponses)
    BY Numbers, FS_Interval
  <1>3. IsFiniteSet(Threads \X (1 .. MaxResponses))
    BY <1>1, <1>2, FS_Product
  <1>4. ASSUME NEW p \in All(rs)
        PROVE  p \in Threads \X (1 .. MaxResponses)
    <2>1. p[1] \in Threads /\ p[2] \in 1 .. Len(rs[p[1]]) /\ p = <<p[1], p[2]>>
      BY AllRows
    <2>2. Len(rs[p[1]]) \in Nat /\ Len(rs[p[1]]) <= MaxResponses
      BY <2>1, LogRows
    <2>3. p[2] \in 1 .. MaxResponses
      BY <2>1, <2>2, Numbers
    <2> QED BY <2>1, <2>3
  <1>5. All(rs) \subseteq Threads \X (1 .. MaxResponses)
    BY <1>4
  <1> QED BY <1>3, <1>5, FS_Subset

\* A new response adds what it counts to the budget.
LEMMA NewBudget ==
    ASSUME NEW rs \in Log, NEW qs \in Log, NEW th \in Threads,
           IsFiniteSet(All(rs)),
           \A t \in Threads \ {th} : qs[t] = rs[t],
           Len(qs[th]) = Len(rs[th]) + 1,
           \A j \in 1 .. Len(rs[th]) : /\ qs[th][j].estimate = rs[th][j].estimate
                                       /\ qs[th][j].usage = rs[th][j].usage
    PROVE  /\ Budget(rs) \in Nat
           /\ Budget(qs) = Counted(qs[th][Len(rs[th]) + 1]) + Budget(rs)
  <1> DEFINE n == Len(rs[th])
             x == <<th, n + 1>>
             f == CountFn(rs)
             g == CountFn(qs)
  <1>0. n \in Nat /\ \A t \in Threads : DOMAIN rs[t] = 1 .. Len(rs[t]) /\ DOMAIN qs[t] = 1 .. Len(qs[t])
    BY LogRows
  <1>1. All(qs) = All(rs) \cup {x}
    <2>1. ASSUME NEW p \in All(qs) PROVE p \in All(rs) \cup {x}
      <3>1. p[1] \in Threads /\ p[2] \in 1 .. Len(qs[p[1]]) /\ p = <<p[1], p[2]>>
        BY AllRows
      <3>2. CASE p[1] = th
        <4>1. p[2] \in 1 .. n \/ p[2] = n + 1
          BY <1>0, <3>1, <3>2
        <4> QED BY <3>1, <3>2, <4>1, AllRows
      <3>3. CASE p[1] # th
        BY <3>1, <3>3, AllRows
      <3> QED BY <3>2, <3>3
    <2>2. ASSUME NEW p \in All(rs) PROVE p \in All(qs)
      <3>1. p[1] \in Threads /\ p[2] \in 1 .. Len(rs[p[1]]) /\ p = <<p[1], p[2]>>
        BY AllRows
      <3>2. p[2] \in 1 .. Len(qs[p[1]])
        BY <1>0, <3>1
      <3> QED BY <3>1, <3>2, AllRows
    <2>3. x \in All(qs)
      <3>1. n + 1 \in 1 .. Len(qs[th])
        BY <1>0
      <3> QED BY <3>1, AllRows
    <2> QED BY <2>1, <2>2, <2>3
  <1>2. x \notin All(rs)
    <2>1. ASSUME x \in All(rs) PROVE FALSE
      <3>1. x[1] = th /\ x[2] = n + 1
        OBVIOUS
      <3>2. x[2] \in 1 .. Len(rs[x[1]])
        BY <2>1, AllRows
      <3> QED BY <1>0, <3>1, <3>2
    <2> QED BY <2>1
  <1>3. \A p \in All(rs) : g[p] \in Nat /\ f[p] = g[p] /\ f[p] \in Nat
    <2>1. ASSUME NEW p \in All(rs)
          PROVE  Counted(qs[p[1]][p[2]]) = Counted(rs[p[1]][p[2]])
      <3>1. p[1] \in Threads /\ p[2] \in 1 .. Len(rs[p[1]])
        BY AllRows
      <3> QED BY <3>1 DEF Counted
    <2>2. \A p \in All(rs) : p \in All(qs) /\ f[p] \in Nat
      BY <1>1, AllRows
    <2> QED BY <2>1, <2>2 DEF CountFn
  <1>4. g[x] = Counted(qs[th][n + 1]) /\ g[x] \in Nat
    <2>1. x \in All(qs) /\ x[1] = th /\ x[2] = n + 1
      BY <1>1
    <2> QED BY <2>1, AllRows DEF CountFn
  <1> HIDE DEF f, g, x
  <1>5. SumFunctionOnSet(g, All(rs) \cup {x}) = g[x] + SumFunctionOnSet(g, All(rs))
    BY <1>2, <1>3, <1>4, SumAdd
  <1>6. SumFunctionOnSet(g, All(rs)) = SumFunctionOnSet(f, All(rs))
    BY <1>3, SumSame
  <1>7. Budget(rs) = SumFunctionOnSet(f, All(rs)) /\ Budget(qs) = SumFunctionOnSet(g, All(qs))
    BY DEF Budget, SumOf, f, g, CountFn
  <1>8. SumFunctionOnSet(f, All(rs)) \in Nat
    BY <1>3, SumStep
  <1> QED BY <1>1, <1>4, <1>5, <1>6, <1>7, <1>8

\* The arithmetic of the reserve: one turn at the context read, and its
\* output, are all that comes on top of a budget below the threshold.
LEMMA ReserveArithmetic ==
    ASSUME NEW b \in Nat, NEW c \in Nat, b < EffectiveThreshold(c)
    PROVE  MaxTokens - ((c + Output) + b) > ReserveTurns * c - Output
  <1>1. /\ MaxTokens \in Int /\ ReserveTurns \in Int /\ Output \in Int /\ Output > 0
        /\ ShareThreshold \in Int /\ ReserveTurns * c \in Int
    BY Numbers
  <1>2. (ReserveTurns + 1) * c = ReserveTurns * c + c
    BY <1>1
  <1> DEFINE t == MaxTokens - (ReserveTurns + 1) * c
  <1>3. t \in Int /\ t = MaxTokens - (ReserveTurns * c + c)
    BY <1>1, <1>2
  <1>4. EffectiveThreshold(c) = Min({ShareThreshold, t})
    BY DEF EffectiveThreshold
  <1> HIDE DEF t
  <1>5. EffectiveThreshold(c) = IF ShareThreshold <= t THEN ShareThreshold ELSE t
    BY <1>1, <1>3, <1>4, MaxMin
  <1>6. EffectiveThreshold(c) \in Int /\ EffectiveThreshold(c) <= t
    BY <1>1, <1>3, <1>5
  <1> QED BY <1>1, <1>3, <1>6

\* When the estimate of a main-thread response makes the crossing, the
\* handoff reserve is still there.
THEOREM ReserveKeptHolds == LedgerSpec => ReserveKept
  <1> DEFINE Inv == Shapes /\ Order /\ Merged /\ LimitsWatch
             Crossing == /\ ~crossed /\ crossed' /\ Budget(responses) > 0
                         /\ Len(responses'[Main]) > Len(responses[Main])
                         /\ Last(responses', Main).usage = NoUsage
             Kept == MaxTokens - Budget(responses') > ReserveTurns * context[Main] - Output
  <1>1. ASSUME Inv, [LedgerNext]_ledgerVars, Crossing
        PROVE  Kept
    <2>0. responses \in Log /\ Main \in Threads /\ Main \in started /\ context[Main] \in Nat
      BY <1>1, Numbers DEF Shapes
    <2>l. Len(responses[Main]) \in Nat
      BY <2>0, LogRows
    <2>1. ~SameRows(responses, responses')
      BY <1>1, <2>0, <2>l DEF SameRows
    <2>2. ASSUME NEW th \in Threads, NEW u \in Usages, MessageDelta(th, u)
          PROVE  FALSE
      <3>1. responses' # responses
        BY <1>1, <2>l
      <3>2. responses' = ObserveUsage(responses, th, streamId[th], u) /\ streamId[th] \in DOMAIN responses[th]
        BY <2>2, <3>1 DEF MessageDelta
      <3>3. streamId[th] \in 1 .. Len(responses[th]) /\ u \in Usage
        BY <2>0, <3>2, LogRows, Numbers
      <3>4. Reported(responses, responses', th, streamId[th], u)
        BY <2>0, <3>2, <3>3, ObserveUsageRows
      <3>5. Len(responses'[Main]) = Len(responses[Main])
        BY <2>0, <3>4 DEF Reported
      <3> QED BY <1>1, <2>l, <3>5
    <2>3. PICK th \in Threads, i \in 1 .. MaxResponses, u \in Usages \cup {NoUsage} :
             AssistantMessage(th, i, u)
      BY <1>1, <2>1, <2>2, Steps, MarksOnly
    <2>4. th = Main /\ i = Len(responses[Main]) + 1
      <3>1. CASE i # Len(responses[th]) + 1
        <4>1. /\ \A t \in Threads \ {th} : responses'[t] = responses[t]
              /\ Len(responses'[th]) = Len(responses[th])
          BY <1>1, <2>3, <3>1, OldResponseRows
        <4> QED BY <1>1, <2>0, <2>l, <4>1
      <3>2. CASE i = Len(responses[th]) + 1
        <4>1. \A t \in Threads \ {th} : responses'[t] = responses[t]
          BY <1>1, <2>3, <3>2, NewResponseRows
        <4> QED BY <1>1, <2>0, <2>l, <3>2, <4>1
      <3> QED BY <3>1, <3>2
    <2> DEFINE n == Len(responses[Main])
               r == responses'[Main][n + 1]
    <2>5. /\ responses' \in Log
          /\ \A t \in Threads \ {Main} : responses'[t] = responses[t]
          /\ Len(responses'[Main]) = n + 1
          /\ \A j \in 1 .. n : /\ responses'[Main][j].estimate = responses[Main][j].estimate
                               /\ responses'[Main][j].usage = responses[Main][j].usage
          /\ r.estimate = ContextOf(Main) + Output
      BY <1>1, <2>3, <2>4, NewResponseRows
    <2>6. Counted(r) = context[Main] + Output
      BY <1>1, <2>0, <2>5 DEF Counted, Last, ContextOf
    <2>7. IsFiniteSet(All(responses))
      BY <1>1, <2>0, AllFinite DEF Order
    <2>8. Budget(responses) \in Nat /\ Budget(responses') = Counted(r) + Budget(responses)
      BY <2>0, <2>5, <2>7, NewBudget
    <2>9. Budget(responses) < EffectiveThreshold(context[Main])
      <3>1. EffectiveThreshold(context[Main]) \in Int
        <4>1. MaxTokens \in Int /\ ShareThreshold \in Int /\ ReserveTurns \in Int
          BY Numbers
        <4>2. MaxTokens - (ReserveTurns + 1) * context[Main] \in Int
          BY <2>0, <4>1
        <4> QED BY <4>1, <4>2, MaxMin DEF EffectiveThreshold
      <3> QED BY <1>1, <2>8, <3>1 DEF LimitsWatch
    <2> QED BY <2>0, <2>6, <2>8, <2>9, ReserveArithmetic
  <1>2. LedgerInit => Inv
    <2>1. ASSUME LedgerInit PROVE LimitsWatch
      <3>1. \A th \in Threads : responses[th] = << >>
        BY <2>1 DEF LedgerInit
      <3>2. Budget(responses) = 0
        BY <3>1, EmptyBudget
      <3> QED BY <3>2 DEF LimitsWatch
    <2> QED BY <2>1, ShapesInit
  <1>3. Inv /\ [LedgerNext]_ledgerVars => Inv'
    BY StepKeeps, LimitsKeep
  <1>4. Inv /\ [LedgerNext]_ledgerVars => [Crossing => Kept]_ledgerVars
    BY <1>1
  <1> QED BY <1>2, <1>3, <1>4, PTL DEF LedgerSpec, ReserveKept

-----------------------------------------------------------------------------
(* The mode of the reconciliation *)

\* Responses count for something, so a sum is zero only over none of them.
LEMMA SumPositive ==
    ASSUME NEW rs \in Log, NEW S \in SUBSET All(rs), IsFiniteSet(S)
    PROVE  SumOf(rs, S) \in Nat /\ (SumOf(rs, S) > 0 <=> S # {})
  <1> DEFINE f == CountFn(rs)
  <1>1. \A p \in S : f[p] \in Nat /\ f[p] > 0
    BY AllRows
  <1>2. SumOf(rs, S) = SumFunctionOnSet(f, S)
    BY DEF SumOf, CountFn
  <1> HIDE DEF f
  <1>3. SumFunctionOnSet(f, S) \in Nat /\ (S = {} => SumFunctionOnSet(f, S) = 0)
    BY <1>1, SumStep
  <1>4. \A p \in S : SumFunctionOnSet(f, S) >= f[p]
    BY <1>1, SumBounds
  <1> QED BY <1>1, <1>2, <1>3, <1>4

\* The mode says what it promises, as a function of the responses.
LEMMA ModeOfTruth ==
    ASSUME NEW rs \in Log, IsFiniteSet(All(rs))
    PROVE  LET complete == All(rs) \ Interrupted(rs)
               reported == All(rs) \ Unreported(rs)
           IN  /\ ModeOf(rs) = "measured" => complete \subseteq reported
               /\ ModeOf(rs) = "estimated" => reported = {}
               /\ ModeOf(rs) = "mixed" => reported # {} /\ ~(complete \subseteq reported)
  <1> DEFINE A == All(rs)
             N == Unreported(rs)
             I == Interrupted(rs)
             C == N \ I
             f == CountFn(rs)
  <1>1. N \subseteq A /\ I \subseteq N
    BY DEF Unreported, Interrupted
  <1>2. /\ IsFiniteSet(A \ N) /\ IsFiniteSet(C) /\ IsFiniteSet(I)
        /\ A \ N \in SUBSET A /\ C \in SUBSET A /\ I \in SUBSET A
    BY <1>1, FS_Subset
  <1>3. /\ SumOf(rs, A \ N) \in Nat /\ (SumOf(rs, A \ N) > 0 <=> A \ N # {})
        /\ SumOf(rs, C) \in Nat /\ (SumOf(rs, C) > 0 <=> C # {})
        /\ SumOf(rs, I) \in Nat
    BY <1>2, SumPositive
  <1>4. SumOf(rs, N) = SumOf(rs, C) + SumOf(rs, I)
    <2>1. C \cap I = {} /\ C \cup I = N
      BY <1>1
    <2>2. \A p \in A : f[p] \in Nat
      BY AllRows
    <2>3. \A S : SumOf(rs, S) = SumFunctionOnSet(f, S)
      BY DEF SumOf, CountFn
    <2> HIDE DEF C, I, N, A, f
    <2>4. \A p \in C \cup I : f[p] \in Nat
      BY <1>2, <2>2
    <2>5. SumFunctionOnSet(f, C \cup I) = SumFunctionOnSet(f, C) + SumFunctionOnSet(f, I)
      BY <1>2, <2>1, <2>4, SumUnion
    <2> QED BY <2>1, <2>3, <2>5
  <1> DEFINE m == SumOf(rs, A \ N)
             w == SumOf(rs, N) - SumOf(rs, I)
  <1>5. w = SumOf(rs, C)
    BY <1>3, <1>4
  <1>6. ModeOf(rs) = CASE w > 0 -> (IF m > 0 THEN "mixed" ELSE "estimated")
                       [] OTHER -> (IF m > 0 \/ SumOf(rs, I) = 0 THEN "measured" ELSE "estimated")
    BY DEF ModeOf
  <1>7. /\ m > 0 <=> A \ N # {}
        /\ w > 0 <=> C # {}
    BY <1>3, <1>5
  <1>8. C = {} <=> A \ I \subseteq A \ N
    BY <1>1
  <1> HIDE DEF m, w, C, A, N, I
  <1>9. /\ ModeOf(rs) = "measured" => ~(w > 0)
        /\ ModeOf(rs) = "estimated" => ~(m > 0)
        /\ ModeOf(rs) = "mixed" => w > 0 /\ m > 0
    BY <1>6
  <1>10. /\ ModeOf(rs) = "measured" => A \ I \subseteq A \ N
         /\ ModeOf(rs) = "estimated" => A \ N = {}
         /\ ModeOf(rs) = "mixed" => A \ N # {} /\ ~(A \ I \subseteq A \ N)
    BY <1>7, <1>8, <1>9
  <1> QED BY <1>10 DEF A, N, I

\* The reconciliation ends the ledger with a truthful mode.
LEMMA ModeKeeps ==
    ASSUME Shapes, Order, ModeTruthful, [LedgerNext]_ledgerVars
    PROVE  ModeTruthful'
  <1>0. responses \in Log
    BY DEF Shapes
  <1>1. CASE phase' # "reconciled"
    BY <1>1 DEF ModeTruthful
  <1>2. CASE Reconcile
    <2> DEFINE qs == SettleEach(responses, Settle)
    <2>1. responses' = qs /\ mode' = ModeOf(responses)
      BY <1>2 DEF Reconcile
    <2>2. All(qs) = All(responses) /\ Unreported(qs) = Unreported(responses)
      BY <1>0, SettleEachRows, SameBudget
    <2>3. \A t \in Threads : \A i \in 1 .. Len(responses[t]) :
             qs[t][i].interrupted = responses[t][i].interrupted
      BY <1>0, SettleEachRows
    <2> HIDE DEF qs
    <2>4. \A p \in All(responses) : qs[p[1]][p[2]].interrupted = responses[p[1]][p[2]].interrupted
      BY <1>0, <2>3, AllRows
    <2>5. Interrupted(qs) = Interrupted(responses)
      BY <2>2, <2>4 DEF Interrupted, Unreported
    <2>6. IsFiniteSet(All(responses))
      BY <1>0, AllFinite DEF Order
    <2> QED BY <1>0, <2>1, <2>2, <2>5, <2>6, ModeOfTruth DEF ModeTruthful
  <1>3. CASE UNCHANGED ledgerVars
    BY <1>3 DEF ModeTruthful, ledgerVars, All, Interrupted, Unreported
  <1>4. phase' = "reconciled" => Reconcile \/ UNCHANGED ledgerVars
    BY ZenonT(30) DEF LedgerNext, LaunchSubagent, MessageStart, MessageDelta, AssistantMessage, UserMessage,
           Interrupt, ResultMessage, CeilingStop, Reconcile, Reconciled, Open
  <1> QED BY <1>1, <1>2, <1>3, <1>4

\* The mode of the reconciliation is the truth about the responses.
THEOREM ModeTruthfulHolds == LedgerSpec => []ModeTruthful
  <1> DEFINE Inv == Shapes /\ Order /\ Merged /\ ModeTruthful
  <1>1. LedgerInit => Inv
    BY ShapesInit DEF LedgerInit, ModeTruthful
  <1>2. Inv /\ [LedgerNext]_ledgerVars => Inv'
    BY StepKeeps, ModeKeeps
  <1> QED BY <1>1, <1>2, PTL DEF LedgerSpec
=============================================================================
