------------------------- MODULE PaymentDeskProofs -------------------------
(***************************************************************************)
(* Proofs about PaymentDesk composed with OrderBook, for any claims, owner *)
(* commands, refund requests, orders and customers.                        *)
(***************************************************************************)
EXTENDS PaymentDesk, OrderBookProofs, WellFoundedInduction

-----------------------------------------------------------------------------
(* Sums over finite sets (SumFunctionOnSet), by the least number principle. *)

\* The natural numbers are well-ordered.
LEMMA LeastNumber ==
  ASSUME NEW N, N \subseteq Nat, N # {}
  PROVE  \E n \in N : \A m \in N : n <= m
<1> DEFINE R == {ss \in Nat \X Nat : ss[1] < ss[2]}
<1>1. IsWellFoundedOn(R, Nat)
  BY NatLessThanWellFounded DEF OpToRel
<1> HIDE DEF R
<1>2. PICK n \in N : \A m \in N : ~(<<m, n>> \in R)
  BY <1>1, WFMin
<1>3. \A m \in N : m < n => <<m, n>> \in R
  BY DEF R
<1>4. \A m \in N : ~(m < n)
  BY <1>2, <1>3
<1>5. n \in Nat /\ \A m \in N : m \in Nat
  OBVIOUS
<1>6. \A m \in N : n <= m
  BY <1>4, <1>5
<1> QED
  BY <1>6

\* Among subsets of a finite set there is a smallest one: what fails for some
\* subset fails for one whose proper subsets are all fine.
LEMMA SmallestSubset ==
  ASSUME NEW S, IsFiniteSet(S), NEW Bad \in SUBSET SUBSET S, Bad # {}
  PROVE  \E T \in Bad : \A x \in T : T \ {x} \notin Bad
<1> DEFINE N == {Cardinality(T) : T \in Bad}
<1>1. \A T \in Bad : IsFiniteSet(T) /\ Cardinality(T) \in Nat
  BY FS_Subset, FS_CardinalityType
<1>2. N \subseteq Nat /\ N # {}
  BY <1>1
<1> HIDE DEF N
<1>3. PICK n \in N : \A m \in N : n <= m
  BY <1>2, LeastNumber
<1>4. PICK T \in Bad : Cardinality(T) = n
  BY DEF N
<1>5. ASSUME NEW x \in T, T \ {x} \in Bad PROVE FALSE
  <2>1. Cardinality(T \ {x}) = n - 1
    BY <1>1, <1>4, <1>5, FS_RemoveElement
  <2>2. Cardinality(T \ {x}) \in N
    BY <1>5 DEF N
  <2>3. n \in Nat /\ n <= n - 1
    BY <1>2, <1>3, <2>1, <2>2
  <2> QED
    BY <2>3
<1> QED
  BY <1>4, <1>5

\* The element a fold takes first, what it makes of a set, and the function it
\* defines on all subsets of S.
Pick(s) == CHOOSE x \in s : TRUE
SumOver(f, s, g) == IF s = {} THEN 0 ELSE f[Pick(s)] + g[s \ {Pick(s)}]
Sums(f, S) == CHOOSE g : g = [s \in SUBSET S |-> SumOver(f, s, g)]

\* The sum is the value of that function at the whole set.
LEMMA SumIsLast == ASSUME NEW f, NEW S PROVE SumFunctionOnSet(f, S) = Sums(f, S)[S]
BY DEF SumFunctionOnSet, FoldFunctionOnSet, MapThenFoldSet, Sums, SumOver, Pick

\* f maps S to integers.
Numeric(f, S) == \A x \in S : f[x] \in Int

\* The element taken first is one of the set.
LEMMA Picked == ASSUME NEW T, T # {} PROVE Pick(T) \in T
BY DEF Pick

\* g sums f over the subsets of S with at most n elements.
SumsUpTo(f, S, n, g) ==
  \A T \in SUBSET S : Cardinality(T) <= n => g[T] = SumOver(f, T, g)

\* Such a function exists for the subsets of up to n elements, for every n: one
\* for n - 1 extends to the sets of n elements.
LEMMA PartialSums ==
  ASSUME NEW S, IsFiniteSet(S), NEW f, Numeric(f, S), NEW n \in Nat
  PROVE  \E g \in [SUBSET S -> Int] : SumsUpTo(f, S, n, g)
<1> DEFINE Good(g, k) == SumsUpTo(f, S, k, g)
           Bad == {k \in Nat : ~\E g \in [SUBSET S -> Int] : Good(g, k)}
<1>0. \A T \in SUBSET S : /\ IsFiniteSet(T) /\ Cardinality(T) \in Nat
                          /\ Cardinality(T) = 0 <=> T = {}
                          /\ \A x \in T : Cardinality(T \ {x}) = Cardinality(T) - 1
  BY FS_Subset, FS_CardinalityType, FS_EmptySet, FS_RemoveElement
<1>1. ASSUME NEW k \in Bad, \A j \in Bad : k <= j PROVE FALSE
  <2>1. CASE k = 0
    <3> DEFINE g == [T \in SUBSET S |-> 0]
    <3>1. g \in [SUBSET S -> Int]
      OBVIOUS
    <3>2. Good(g, 0)
      <4> SUFFICES ASSUME NEW T \in SUBSET S, Cardinality(T) <= 0
                   PROVE  g[T] = SumOver(f, T, g)
        BY DEF SumsUpTo
      <4>1. T = {}
        BY <1>0
      <4> QED
        BY <4>1 DEF SumOver
    <3> QED
      BY <2>1, <3>1, <3>2
  <2>2. CASE k # 0
    <3>1. k - 1 \in Nat /\ ~(k <= k - 1)
      BY <2>2
    <3>2. PICK h \in [SUBSET S -> Int] : Good(h, k - 1)
      BY <1>1, <3>1
    <3> DEFINE g == [T \in SUBSET S |-> IF Cardinality(T) <= k - 1 THEN h[T] ELSE SumOver(f, T, h)]
    <3>3. \A T \in SUBSET S : T # {} => Pick(T) \in T /\ T \ {Pick(T)} \in SUBSET S
      BY Picked
    <3>4. \A T \in SUBSET S : SumOver(f, T, h) \in Int
      BY <3>3 DEF SumOver, Numeric
    <3>5. g \in [SUBSET S -> Int]
      BY <3>4
    <3>6. Good(g, k)
      <4> SUFFICES ASSUME NEW T \in SUBSET S, Cardinality(T) <= k
                   PROVE  g[T] = SumOver(f, T, g)
        BY DEF SumsUpTo
      <4>1. g[T] = SumOver(f, T, h)
        BY <3>2 DEF SumsUpTo
      <4>2. CASE T = {}
        BY <4>1, <4>2 DEF SumOver
      <4>3. CASE T # {}
        <5> DEFINE U == T \ {Pick(T)}
        <5>1. U \in SUBSET S /\ Cardinality(U) = Cardinality(T) - 1
          BY <1>0, <3>3, <4>3
        <5>2. Cardinality(U) <= k - 1
          BY <1>0, <5>1
        <5>3. g[U] = h[U]
          BY <5>1, <5>2
        <5> HIDE DEF g
        <5> QED
          BY <4>1, <5>3 DEF SumOver
      <4> QED
        BY <4>2, <4>3
    <3> HIDE DEF g, Good
    <3> QED
      BY <3>5, <3>6
  <2> QED
    BY <2>1, <2>2
<1>2. Bad = {}
  <2> HIDE DEF Bad
  <2>1. Bad # {} => \E k \in Bad : \A j \in Bad : k <= j
    <3>1. Bad \subseteq Nat
      BY DEF Bad
    <3> QED
      BY <3>1, LeastNumber
  <2> QED
    BY <1>1, <2>1
<1> QED
  BY <1>2

\* So the function the fold chooses satisfies its own recursion.
LEMMA SumsDefined ==
  ASSUME NEW S, IsFiniteSet(S), NEW f, Numeric(f, S)
  PROVE  /\ Sums(f, S) \in [SUBSET S -> Int]
         /\ \A T \in SUBSET S : Sums(f, S)[T] = SumOver(f, T, Sums(f, S))
<1> DEFINE G == Sums(f, S)
           Is(g) == g = [T \in SUBSET S |-> SumOver(f, T, g)]
<1>1. Cardinality(S) \in Nat
  BY FS_CardinalityType
<1>2. PICK g \in [SUBSET S -> Int] : SumsUpTo(f, S, Cardinality(S), g)
  BY <1>1, PartialSums
<1>3. \A T \in SUBSET S : g[T] = SumOver(f, T, g)
  BY <1>2, FS_Subset DEF SumsUpTo
<1>4. Is(g)
  BY <1>2, <1>3
<1>5. Is(G)
  BY <1>4 DEF Sums
<1>6. \A T \in SUBSET S : G[T] = SumOver(f, T, G)
  BY <1>5
<1>7. DOMAIN G = SUBSET S /\ G = [T \in SUBSET S |-> G[T]]
  BY <1>5
<1> HIDE DEF G
<1> DEFINE Bad == {T \in SUBSET S : G[T] \notin Int}
<1>8. Bad = {}
  <2>1. ASSUME NEW T \in Bad, \A x \in T : T \ {x} \notin Bad PROVE FALSE
    <3>0. G[T] = SumOver(f, T, G) /\ G[T] \notin Int
      BY <1>6
    <3>1. T # {}
      BY <3>0 DEF SumOver
    <3>2. Pick(T) \in T /\ T \ {Pick(T)} \in SUBSET S
      BY <3>1, Picked
    <3>3. G[T \ {Pick(T)}] \in Int
      BY <2>1, <3>2
    <3>4. f[Pick(T)] \in Int
      BY <3>2 DEF Numeric
    <3> QED
      BY <3>0, <3>1, <3>3, <3>4 DEF SumOver
  <2> QED
    BY <2>1, SmallestSubset
<1>9. G \in [SUBSET S -> Int]
  BY <1>7, <1>8
<1> QED
  BY <1>6, <1>9 DEF G

\* What a fold over a larger set says of a smaller one is what a fold over the
\* smaller one says, and only the values there count.
LEMMA SumsAgree ==
  ASSUME NEW S, IsFiniteSet(S), NEW R, IsFiniteSet(R), NEW f, NEW h, Numeric(f, S), Numeric(h, R),
         R \subseteq S, \A x \in R : f[x] = h[x]
  PROVE  Sums(f, S)[R] = Sums(h, R)[R]
<1> DEFINE Bad == {T \in SUBSET R : Sums(f, S)[T] # Sums(h, R)[T]}
<1>1. Bad = {}
  <2>1. ASSUME NEW T \in Bad, \A x \in T : T \ {x} \notin Bad PROVE FALSE
    <3>1. /\ Sums(f, S)[T] = SumOver(f, T, Sums(f, S))
          /\ Sums(h, R)[T] = SumOver(h, T, Sums(h, R))
      BY SumsDefined
    <3>2. CASE T = {}
      BY <2>1, <3>1, <3>2 DEF SumOver
    <3>3. CASE T # {}
      <4>1. Pick(T) \in T /\ Pick(T) \in R /\ T \ {Pick(T)} \in SUBSET R
        BY <3>3, Picked
      <4>2. Sums(f, S)[T \ {Pick(T)}] = Sums(h, R)[T \ {Pick(T)}]
        BY <2>1, <4>1
      <4> QED
        BY <2>1, <3>1, <4>1, <4>2 DEF SumOver
    <3> QED
      BY <3>2, <3>3
  <2> QED
    BY <2>1, SmallestSubset
<1> QED
  BY <1>1

\* The order in which elements are taken does not matter: any one of them may be
\* taken first.
LEMMA SumsPart ==
  ASSUME NEW S, IsFiniteSet(S), NEW f, Numeric(f, S), NEW x \in S
  PROVE  Sums(f, S)[S] = f[x] + Sums(f, S)[S \ {x}]
<1> DEFINE G == Sums(f, S)
           Bad == {T \in SUBSET S : \E y \in T : G[T] # f[y] + G[T \ {y}]}
<1>0. G \in [SUBSET S -> Int] /\ \A T \in SUBSET S : G[T] = SumOver(f, T, G)
  BY SumsDefined
<1> HIDE DEF G
<1>1. Bad = {}
  <2>1. ASSUME NEW T \in Bad, \A y \in T : T \ {y} \notin Bad PROVE FALSE
    <3>1. PICK y \in T : G[T] # f[y] + G[T \ {y}]
      OBVIOUS
    <3> DEFINE p == Pick(T)
    <3>2. p \in T
      BY Picked
    <3>3. G[T] = f[p] + G[T \ {p}]
      BY <1>0, <3>2 DEF SumOver
    <3> HIDE DEF p
    <3>4. p # y /\ y \in T \ {p} /\ p \in T \ {y}
      BY <3>1, <3>2, <3>3
    <3>5. G[T \ {p}] = f[y] + G[(T \ {p}) \ {y}]
      BY <2>1, <3>2, <3>4
    <3>6. G[T \ {y}] = f[p] + G[(T \ {y}) \ {p}]
      BY <2>1, <3>4
    <3>7. (T \ {p}) \ {y} = (T \ {y}) \ {p}
      OBVIOUS
    <3>8. f[p] \in Int /\ f[y] \in Int /\ G[(T \ {y}) \ {p}] \in Int
      <4>1. (T \ {y}) \ {p} \in SUBSET S
        OBVIOUS
      <4> QED
        BY <1>0, <3>2, <4>1 DEF Numeric
    <3> DEFINE rest == G[(T \ {y}) \ {p}]
    <3>9. G[T] = f[p] + (f[y] + rest) /\ G[T \ {y}] = f[p] + rest
      BY <3>3, <3>5, <3>6, <3>7
    <3> HIDE DEF rest
    <3>10. f[p] + (f[y] + rest) = f[y] + (f[p] + rest)
      BY <3>8 DEF rest
    <3> QED
      BY <3>1, <3>9, <3>10
  <2> QED
    BY <2>1, SmallestSubset
<1> QED
  BY <1>1 DEF G

\* A sum of integers is an integer.
LEMMA SumType ==
  ASSUME NEW S, IsFiniteSet(S), NEW f, Numeric(f, S)
  PROVE  SumFunctionOnSet(f, S) \in Int
BY SumsDefined, SumIsLast

\* The empty sum.
LEMMA SumEmpty == ASSUME NEW f PROVE SumFunctionOnSet(f, {}) = 0
<1>1. IsFiniteSet({}) /\ Numeric(f, {})
  BY FS_EmptySet DEF Numeric
<1> QED
  BY <1>1, SumsDefined, SumIsLast DEF SumOver

\* Equal terms, equal sums.
LEMMA SumSame ==
  ASSUME NEW S, IsFiniteSet(S), NEW f, NEW h, Numeric(f, S), \A x \in S : f[x] = h[x]
  PROVE  SumFunctionOnSet(f, S) = SumFunctionOnSet(h, S)
<1>1. Numeric(h, S)
  BY DEF Numeric
<1> QED
  BY <1>1, SumsAgree, SumIsLast

\* Any term may be split off.
LEMMA SumPart ==
  ASSUME NEW S, IsFiniteSet(S), NEW f, Numeric(f, S), NEW x \in S
  PROVE  SumFunctionOnSet(f, S) = f[x] + SumFunctionOnSet(f, S \ {x})
<1>1. IsFiniteSet(S \ {x}) /\ Numeric(f, S \ {x}) /\ S \ {x} \subseteq S
  BY FS_RemoveElement DEF Numeric
<1>2. Sums(f, S)[S \ {x}] = Sums(f, S \ {x})[S \ {x}]
  BY <1>1, SumsAgree
<1> QED
  BY <1>2, SumsPart, SumIsLast

\* One term more.
LEMMA SumOneMore ==
  ASSUME NEW S, IsFiniteSet(S), NEW f, Numeric(f, S), NEW x, x \notin S, f[x] \in Int
  PROVE  SumFunctionOnSet(f, S \cup {x}) = SumFunctionOnSet(f, S) + f[x]
<1> DEFINE T == S \cup {x}
<1>1. IsFiniteSet(T) /\ Numeric(f, T) /\ x \in T /\ T \ {x} = S
  BY FS_AddElement DEF Numeric
<1> HIDE DEF T
<1>2. SumFunctionOnSet(f, T) = f[x] + SumFunctionOnSet(f, S)
  BY <1>1, SumPart
<1>3. SumFunctionOnSet(f, S) \in Int
  BY SumType
<1> QED
  BY <1>2, <1>3 DEF T

\* One term changed.
LEMMA SumOneChanged ==
  ASSUME NEW S, IsFiniteSet(S), NEW f, NEW h, Numeric(f, S), Numeric(h, S), NEW x \in S,
         \A y \in S \ {x} : h[y] = f[y]
  PROVE  SumFunctionOnSet(h, S) = SumFunctionOnSet(f, S) + (h[x] - f[x])
<1> DEFINE T == S \ {x}
<1>1. IsFiniteSet(T) /\ Numeric(f, T) /\ Numeric(h, T)
  BY FS_RemoveElement DEF Numeric
<1>2. SumFunctionOnSet(f, S) = f[x] + SumFunctionOnSet(f, T)
  BY SumPart
<1>3. SumFunctionOnSet(h, S) = h[x] + SumFunctionOnSet(h, T)
  BY SumPart
<1>4. SumFunctionOnSet(f, T) = SumFunctionOnSet(h, T)
  BY <1>1, SumSame
<1>5. SumFunctionOnSet(f, T) \in Int /\ f[x] \in Int /\ h[x] \in Int
  BY <1>1, SumType DEF Numeric
<1> QED
  BY <1>2, <1>3, <1>4, <1>5

\* A sum of natural numbers is one.
LEMMA SumNatural ==
  ASSUME NEW S, IsFiniteSet(S), NEW f, \A x \in S : f[x] \in Nat
  PROVE  SumFunctionOnSet(f, S) \in Nat
<1> DEFINE Bad == {T \in SUBSET S : SumFunctionOnSet(f, T) \notin Nat}
<1>1. Bad = {}
  <2>1. ASSUME NEW T \in Bad, \A y \in T : T \ {y} \notin Bad PROVE FALSE
    <3>1. IsFiniteSet(T) /\ Numeric(f, T)
      BY FS_Subset DEF Numeric
    <3>2. PICK x \in T : TRUE
      BY SumEmpty
    <3>3. SumFunctionOnSet(f, T) = f[x] + SumFunctionOnSet(f, T \ {x})
      BY <3>1, SumPart
    <3>4. SumFunctionOnSet(f, T \ {x}) \in Nat /\ f[x] \in Nat
      BY <2>1
    <3>5. SumFunctionOnSet(f, T) \in Nat
      BY <3>3, <3>4
    <3> QED
      BY <3>5
  <2> QED
    BY <2>1, SmallestSubset
<1> QED
  BY <1>1

\* The sum of differences.
LEMMA SumDifference ==
  ASSUME NEW S, IsFiniteSet(S), NEW f, NEW g, NEW h, Numeric(f, S), Numeric(g, S),
         \A x \in S : h[x] = f[x] - g[x]
  PROVE  SumFunctionOnSet(h, S) = SumFunctionOnSet(f, S) - SumFunctionOnSet(g, S)
<1> DEFINE F(T) == SumFunctionOnSet(f, T)
           G(T) == SumFunctionOnSet(g, T)
           H(T) == SumFunctionOnSet(h, T)
           Bad == {T \in SUBSET S : H(T) # F(T) - G(T)}
<1>1. Bad = {}
  <2>1. ASSUME NEW T \in Bad, \A x \in T : T \ {x} \notin Bad PROVE FALSE
    <3>1. IsFiniteSet(T) /\ Numeric(f, T) /\ Numeric(g, T) /\ Numeric(h, T)
      BY FS_Subset DEF Numeric
    <3>2. PICK x \in T : TRUE
      BY SumEmpty
    <3> DEFINE U == T \ {x}
    <3>3. IsFiniteSet(U) /\ Numeric(f, U) /\ Numeric(g, U) /\ U \in SUBSET S /\ U \notin Bad
      BY <2>1, <3>1, <3>2, FS_Subset DEF Numeric
    <3>4. F(T) = f[x] + F(U) /\ G(T) = g[x] + G(U) /\ H(T) = h[x] + H(U)
      BY <3>1, <3>2, SumPart
    <3>5. H(U) = F(U) - G(U) /\ F(U) \in Int /\ G(U) \in Int
      BY <3>3, SumType
    <3>6. f[x] \in Int /\ g[x] \in Int /\ h[x] = f[x] - g[x]
      BY <3>1, <3>2 DEF Numeric
    <3>7. H(T) # F(T) - G(T)
      OBVIOUS
    <3> HIDE DEF F, G, H, U
    <3> QED
      BY <3>4, <3>5, <3>6, <3>7
  <2> QED
    BY <2>1, SmallestSubset
<1> QED
  BY <1>1

\* The sum over two sets without a common element.
LEMMA SumUnion ==
  ASSUME NEW R, IsFiniteSet(R), NEW S, IsFiniteSet(S), R \cap S = {},
         NEW f, Numeric(f, R), Numeric(f, S)
  PROVE  SumFunctionOnSet(f, R \cup S) = SumFunctionOnSet(f, R) + SumFunctionOnSet(f, S)
<1> DEFINE F(T) == SumFunctionOnSet(f, T)
           Bad == {T \in SUBSET S : F(R \cup T) # F(R) + F(T)}
<1>0. F(R) \in Int
  BY SumType
<1>1. Bad = {}
  <2>1. ASSUME NEW T \in Bad, \A x \in T : T \ {x} \notin Bad PROVE FALSE
    <3>1. IsFiniteSet(T) /\ Numeric(f, T)
      BY FS_Subset DEF Numeric
    <3>2. CASE T = {}
      <4>1. R \cup T = R /\ F(T) = 0
        BY <3>2, SumEmpty
      <4>2. F(R \cup T) = F(R)
        BY <4>1
      <4> QED
        BY <1>0, <4>1, <4>2
    <3>3. ASSUME NEW x \in T PROVE FALSE
      <4> DEFINE U == T \ {x}
      <4>1. IsFiniteSet(U) /\ Numeric(f, U) /\ U \in SUBSET S /\ U \notin Bad
        BY <2>1, <3>1, FS_Subset DEF Numeric
      <4>2. IsFiniteSet(R \cup U) /\ Numeric(f, R \cup U)
        <5>1. IsFiniteSet(R \cup U)
          BY <4>1, FS_Union
        <5> QED
          BY <4>1, <5>1 DEF Numeric
      <4>3. x \notin R \cup U /\ R \cup T = (R \cup U) \cup {x} /\ f[x] \in Int
        BY <3>1 DEF Numeric
      <4>4. F(R \cup T) = F(R \cup U) + f[x]
        <5> HIDE DEF U
        <5>1. F((R \cup U) \cup {x}) = F(R \cup U) + f[x]
          BY <4>2, <4>3, SumOneMore
        <5> QED
          BY <4>3, <5>1
      <4>5. F(T) = f[x] + F(U)
        BY <3>1, SumPart
      <4>6. F(R \cup U) = F(R) + F(U) /\ F(U) \in Int
        BY <4>1, SumType
      <4>7. F(R \cup T) # F(R) + F(T)
        OBVIOUS
      <4> HIDE DEF F, U
      <4> QED
        BY <1>0, <4>3, <4>4, <4>5, <4>6, <4>7
    <3> QED
      BY <3>2, <3>3
  <2> QED
    BY <2>1, SmallestSubset
<1> QED
  BY <1>1

\* The elements of K that at maps into T.
Inside(K, at, T) == {k \in K : at[k] \in T}

\* h sums f over groups of K: at[k] is the group of k.
GroupSums(h, S, f, K, at) ==
  \A o \in S : h[o] = SumFunctionOnSet(f, Inside(K, at, {o}))

\* Summing group by group.
LEMMA SumGroups ==
  ASSUME NEW S, IsFiniteSet(S), NEW K, IsFiniteSet(K), NEW f, Numeric(f, K), NEW at, NEW h,
         GroupSums(h, S, f, K, at)
  PROVE  SumFunctionOnSet(h, S) = SumFunctionOnSet(f, Inside(K, at, S))
<1> USE DEF Inside, GroupSums
<1> DEFINE F(T) == SumFunctionOnSet(f, {k \in K : at[k] \in T})
           H(T) == SumFunctionOnSet(h, T)
           Bad == {T \in SUBSET S : H(T) # F(T)}
<1>0. \A L \in SUBSET K : IsFiniteSet(L) /\ Numeric(f, L)
  BY FS_Subset DEF Numeric
<1>1. Numeric(h, S)
  <2>1. ASSUME NEW o \in S PROVE h[o] \in Int
    <3>1. Inside(K, at, {o}) \in SUBSET K
      OBVIOUS
    <3>2. SumFunctionOnSet(f, Inside(K, at, {o})) \in Int
      BY <1>0, <3>1, SumType
    <3> QED
      BY <3>2
  <2> QED
    BY <2>1 DEF Numeric
<1>2. Bad = {}
  <2>1. ASSUME NEW T \in Bad, \A x \in T : T \ {x} \notin Bad PROVE FALSE
    <3>1. IsFiniteSet(T) /\ Numeric(h, T)
      BY <1>1, FS_Subset DEF Numeric
    <3>2. CASE T = {}
      <4>1. H(T) = 0 /\ {k \in K : at[k] \in T} = {}
        BY <3>2, SumEmpty
      <4>2. F(T) = 0
        BY <4>1, SumEmpty
      <4> QED
        BY <4>1, <4>2
    <3>3. ASSUME NEW x \in T PROVE FALSE
      <4> DEFINE U == T \ {x}
                 A == {k \in K : at[k] \in U}
                 B == Inside(K, at, {x})
      <4>1. U \in SUBSET S /\ U \notin Bad
        BY <2>1
      <4>2. H(T) = h[x] + H(U)
        BY <3>1, SumPart
      <4>3. /\ A \in SUBSET K /\ B \in SUBSET K /\ A \cap B = {}
            /\ {k \in K : at[k] \in T} = A \cup B
        OBVIOUS
      <4>4. SumFunctionOnSet(f, A \cup B) = SumFunctionOnSet(f, A) + SumFunctionOnSet(f, B)
        <5> HIDE DEF A, B
        <5> QED
          BY <1>0, <4>3, SumUnion
      <4>5. SumFunctionOnSet(f, A) \in Int /\ SumFunctionOnSet(f, B) \in Int
        <5> HIDE DEF A, B
        <5> QED
          BY <1>0, <4>3, SumType
      <4>6. F(T) = SumFunctionOnSet(f, A \cup B)
        BY <4>3
      <4>7. H(U) = SumFunctionOnSet(f, A) /\ h[x] = SumFunctionOnSet(f, B)
        BY <4>1
      <4>8. H(T) # F(T)
        OBVIOUS
      <4> HIDE DEF F, H, U, A, B
      <4> QED
        BY <4>2, <4>4, <4>5, <4>6, <4>7, <4>8
    <3> QED
      BY <3>2, <3>3
  <2> QED
    BY <2>1, SmallestSubset
<1> QED
  BY <1>2

-----------------------------------------------------------------------------
(* Types. *)

DeskTypes ==
  /\ claim \in [Claims -> {"none", "pending", "approved", "rejected"}]
  /\ reversed \subseteq Claims
  /\ aged \subseteq Claims
  /\ verified \in [Claims -> References \cup {None}]
  /\ action \in [PayMessages -> IntentStates]
  /\ settledBy \in [PayMessages -> PayMessages \cup {None}]
  /\ timedOut \subseteq PayMessages
  /\ refund \in [RefundCases -> {"none", "requested", "approved_pending_execution", "rejected"}]
  /\ tooLate \subseteq Orders

\* The type invariant by its parts.
LEMMA ShopTypeParts == ShopTypeOK <=> TypeOK /\ account \in [Customers -> Int] /\ DeskTypes
BY DEF ShopTypeOK, DeskTypes

\* And after a step.
LEMMA ShopTypePartsNext ==
  ShopTypeOK' <=> TypeOK' /\ account' \in [Customers -> Int] /\ DeskTypes'
BY DEF ShopTypeOK, DeskTypes

\* A step that only changes what orders are owed keeps the types of OrderBook.
LEMMA OwedTyped ==
  ASSUME TypeOK, owed' \in [Orders -> Int],
         UNCHANGED <<shelfVars, draftVars, order, intentVars>>
  PROVE  TypeOK'
BY DEF TypeOK, shelfVars, draftVars, intentVars

\* A claim's ledger row is posted to its order or to its customer's account
\* (insertLedgerEntry).
LEMMA PostTyped ==
  ASSUME TypeOK, account \in [Customers -> Int], NEW k \in Claims, NEW amount \in Int,
         Post(k, amount)
  PROVE  owed' \in [Orders -> Int] /\ account' \in [Customers -> Int]
<1> DEFINE c == Claimed[k].customer
           o == Claimed[k].order
<1>1. Claimed[k] \in ClaimRecord
  BY PaymentDeskAssumption
<1>2. c \in Customers /\ o \in Orders \cup {None}
  BY <1>1 DEF ClaimRecord
<1>3. owed \in [Orders -> Int]
  BY DEF TypeOK
<1>4. CASE o = None
  <2>1. account' = [account EXCEPT ![c] = account[c] + amount] /\ owed' = owed
    BY <1>4 DEF Post
  <2> QED
    BY <1>2, <1>3, <2>1
<1>5. CASE o # None
  <2>1. owed' = [owed EXCEPT ![o] = owed[o] + amount] /\ account' = account
    BY <1>5 DEF Post
  <2> QED
    BY <1>2, <1>3, <1>5, <2>1
<1> QED
  BY <1>4, <1>5

\* Expired and replaced actions keep their states.
LEMMA ActionsExpiredTyped == DeskTypes => ActionsExpired \in [PayMessages -> IntentStates]
BY DEF DeskTypes, ActionsExpired, IntentStates

\* A confirmed action is applied as a whole or given up (applyConfirmedAction).
LEMMA ConfirmTyped ==
  ASSUME TypeOK, account \in [Customers -> Int], DeskTypes,
         NEW m \in PayMessages, NEW i \in PayMessages, ConfirmPayment(m, i)
  PROVE  TypeOK' /\ account' \in [Customers -> Int] /\ DeskTypes'
<1> DEFINE t == PayText[m]
           k == t.claim
           applies == Applicable(t.decision, k, t.reference)
<1>1. t \in PayCommands
  BY PaymentDeskAssumption
<1>2. k \in Claims /\ t.reference \in References \cup {None}
  BY <1>1 DEF PayCommands
<1>3. Claimed[k].amount \in Nat
  <2>1. Claimed[k] \in ClaimRecord
    BY <1>2, PaymentDeskAssumption
  <2> QED
    BY <2>1 DEF ClaimRecord
<1>4. Claimed[k].amount \in Int /\ -Claimed[k].amount \in Int
  BY <1>3
<1>5. action' \in [PayMessages -> IntentStates]
  BY ActionsExpiredTyped DEF ConfirmPayment, IntentStates
<1>6. settledBy' \in [PayMessages -> PayMessages \cup {None}]
  BY DEF DeskTypes, ConfirmPayment
<1>7. owed \in [Orders -> Int]
  BY DEF TypeOK
<1>8. /\ claim' \in [Claims -> {"none", "pending", "approved", "rejected"}]
      /\ reversed' \subseteq Claims
      /\ verified' \in [Claims -> References \cup {None}]
      /\ owed' \in [Orders -> Int]
      /\ account' \in [Customers -> Int]
  <2>1. CASE applies /\ t.decision = "approve"
    <3>1. /\ claim' = [claim EXCEPT ![k] = "approved"]
          /\ verified' = [verified EXCEPT ![k] = t.reference]
          /\ Post(k, -Claimed[k].amount)
          /\ reversed' = reversed
      BY <2>1 DEF ConfirmPayment
    <3> QED
      BY <1>2, <1>4, <3>1, PostTyped DEF DeskTypes
  <2>2. CASE applies /\ t.decision = "reject"
    <3>1. claim' = [claim EXCEPT ![k] = "rejected"] /\ UNCHANGED <<owed, account, verified, reversed>>
      BY <2>2 DEF ConfirmPayment
    <3> QED
      BY <1>2, <1>7, <3>1 DEF DeskTypes
  <2>3. CASE applies /\ t.decision = "reverse"
    <3>1. /\ reversed' = reversed \cup {k}
          /\ Post(k, Claimed[k].amount)
          /\ UNCHANGED <<claim, verified>>
      BY <2>3 DEF ConfirmPayment
    <3> QED
      BY <1>2, <1>4, <3>1, PostTyped DEF DeskTypes
  <2>4. CASE ~applies
    <3>1. UNCHANGED <<owed, account, claim, verified, reversed>>
      BY <2>4 DEF ConfirmPayment
    <3> QED
      BY <1>7, <3>1 DEF DeskTypes
  <2>5. t.decision \in {"approve", "reject", "reverse"}
    BY <1>1 DEF PayCommands
  <2> QED
    BY <2>1, <2>2, <2>3, <2>4, <2>5
<1>9. TypeOK'
  BY <1>8, OwedTyped DEF ConfirmPayment
<1> QED
  BY <1>5, <1>6, <1>8, <1>9 DEF ConfirmPayment, DeskTypes, refundVars

\* The desk starts with no claims, actions or refund cases.
LEMMA ShopInitTyped == ShopInit => ShopTypeOK
BY InitTyped DEF ShopInit, ShopTypeOK, IntentStates

\* Every step at the desk keeps every table typed.
LEMMA DeskTyped ==
  ASSUME TypeOK, account \in [Customers -> Int], DeskTypes, DeskNext
  PROVE  TypeOK' /\ account' \in [Customers -> Int] /\ DeskTypes'
<1>1. UNCHANGED orderBookVars => TypeOK'
  BY NextTyped
<1>2. ASSUME NEW k \in Claims, RecordClaim(k) \/ ClaimAges(k)
      PROVE  TypeOK' /\ account' \in [Customers -> Int] /\ DeskTypes'
  BY <1>1, <1>2 DEF RecordClaim, ClaimAges, DeskTypes, actionVars, refundVars
<1>3. ASSUME NEW m \in PayMessages, PreparePayment(m)
      PROVE  TypeOK' /\ account' \in [Customers -> Int] /\ DeskTypes'
  <2>1. action' \in [PayMessages -> IntentStates]
    BY <1>3, ActionsExpiredTyped DEF PreparePayment, IntentStates
  <2> QED
    BY <1>1, <1>3, <2>1 DEF PreparePayment, DeskTypes, claimVars, refundVars
<1>4. ASSUME NEW m \in PayMessages, ActionExpires(m)
      PROVE  TypeOK' /\ account' \in [Customers -> Int] /\ DeskTypes'
  BY <1>1, <1>4 DEF ActionExpires, DeskTypes, claimVars, refundVars
<1>5. ASSUME NEW m \in PayMessages, NEW i \in PayMessages, CancelPayment(m, i)
      PROVE  TypeOK' /\ account' \in [Customers -> Int] /\ DeskTypes'
  <2>1. action' \in [PayMessages -> IntentStates]
    BY <1>5, ActionsExpiredTyped DEF CancelPayment, IntentStates
  <2> QED
    BY <1>1, <1>5, <2>1 DEF CancelPayment, DeskTypes, claimVars, refundVars
<1>6. ASSUME TidyActions PROVE TypeOK' /\ account' \in [Customers -> Int] /\ DeskTypes'
  BY <1>1, <1>6, ActionsExpiredTyped DEF TidyActions, DeskTypes, claimVars, refundVars
<1>7. ASSUME NEW o \in Orders, ReturnWindowCloses(o)
      PROVE  TypeOK' /\ account' \in [Customers -> Int] /\ DeskTypes'
  BY <1>1, <1>7 DEF ReturnWindowCloses, DeskTypes, claimVars, actionVars
<1>8. ASSUME NEW r \in RefundCases, RequestRefund(r) \/ ResolveRefund(r)
      PROVE  TypeOK' /\ account' \in [Customers -> Int] /\ DeskTypes'
  BY <1>1, <1>8 DEF RequestRefund, ResolveRefund, DeskTypes, claimVars, actionVars
<1> QED
  BY <1>2, <1>3, <1>4, <1>5, <1>6, <1>7, <1>8, ConfirmTyped DEF DeskNext

\* Every step of the shop keeps every table typed.
LEMMA ShopNextTyped == ShopTypeOK /\ [ShopNext]_shopVars => ShopTypeOK'
<1> SUFFICES ASSUME ShopTypeOK, [ShopNext]_shopVars PROVE ShopTypeOK'
  OBVIOUS
<1>1. TypeOK /\ account \in [Customers -> Int] /\ DeskTypes
  BY ShopTypeParts
<1>2. CASE DeskNext
  BY <1>1, <1>2, DeskTyped, ShopTypePartsNext
<1>3. CASE [OrderNext]_orderBookVars /\ UNCHANGED deskVars
  <2>1. TypeOK'
    BY <1>1, <1>3, NextTyped
  <2>2. account' \in [Customers -> Int] /\ DeskTypes'
    BY <1>1, <1>3 DEF deskVars, claimVars, actionVars, refundVars, DeskTypes
  <2> QED
    BY <2>1, <2>2, ShopTypePartsNext
<1> QED
  BY <1>2, <1>3 DEF ShopNext, shopVars

\* Orders, stock, claims, decisions and refund cases keep their types together.
THEOREM ShopTypeCorrect == ShopSpec => []ShopTypeOK
<1> QED
  BY ShopInitTyped, ShopNextTyped, PTL DEF ShopSpec

-----------------------------------------------------------------------------
(* References and claims. *)

\* A step leaves claims alone, records or ages one, or decides one.
LEMMA ClaimSteps ==
  ASSUME [ShopNext]_shopVars
  PROVE  \/ UNCHANGED <<claim, aged, verified>>
         \/ \E k \in Claims : RecordClaim(k) \/ ClaimAges(k)
         \/ \E m, i \in PayMessages : ConfirmPayment(m, i)
BY Zenon DEF ShopNext, DeskNext, PreparePayment, ActionExpires, CancelPayment, TidyActions,
   ReturnWindowCloses, RequestRefund, ResolveRefund, shopVars, deskVars, claimVars

\* What a confirmed decision does to claims, references and ledger: it rejects,
\* approves or reverses the claim it names, or nothing.
LEMMA Decision ==
  ASSUME NEW m \in PayMessages, NEW i \in PayMessages, ConfirmPayment(m, i)
  PROVE  LET k == PayText[m].claim
             ref == PayText[m].reference
         IN /\ k \in Claims /\ UNCHANGED <<order, basket, quote, aged>>
            /\ \/ UNCHANGED <<owed, account, claim, reversed, verified>>
               \/ /\ claim[k] = "pending" /\ claim' = [claim EXCEPT ![k] = "rejected"]
                  /\ UNCHANGED <<owed, account, reversed, verified>>
               \/ /\ claim[k] = "pending" /\ claim' = [claim EXCEPT ![k] = "approved"]
                  /\ ref \in References /\ Approvable(k, ref) /\ Post(k, -Claimed[k].amount)
                  /\ verified' = [verified EXCEPT ![k] = ref] /\ reversed' = reversed
               \/ /\ Approved(k) /\ claim' = claim
                  /\ verified' = verified /\ reversed' = reversed \cup {k}
                  /\ Post(k, Claimed[k].amount)
<1> DEFINE t == PayText[m]
           k == t.claim
           applies == Applicable(t.decision, k, t.reference)
<1>1. t \in PayCommands
  BY PaymentDeskAssumption
<1>2. k \in Claims /\ t.decision \in {"approve", "reject", "reverse"}
  BY <1>1 DEF PayCommands
<1>3. UNCHANGED <<order, basket, quote, aged>>
  BY DEF ConfirmPayment, draftVars
<1>4. CASE applies /\ t.decision = "approve"
  <2>1. t.reference \in References
    BY <1>1, <1>4, PaymentDeskAssumption DEF PayCommands
  <2> QED
    BY <1>2, <1>3, <1>4, <2>1 DEF ConfirmPayment, Applicable
<1>5. CASE applies /\ t.decision = "reject"
  BY <1>2, <1>3, <1>5 DEF ConfirmPayment, Applicable
<1>6. CASE applies /\ t.decision = "reverse"
  BY <1>2, <1>3, <1>6 DEF ConfirmPayment, Applicable
<1>7. CASE ~applies
  BY <1>2, <1>3, <1>7 DEF ConfirmPayment
<1> QED
  BY <1>2, <1>4, <1>5, <1>6, <1>7

\* No step verifies a reference that another claim has.
LEMMA ReferenceStep ==
  ShopTypeOK /\ ReferenceAuthorisesOnce /\ [ShopNext]_shopVars => ReferenceAuthorisesOnce'
<1> SUFFICES ASSUME ShopTypeOK, ReferenceAuthorisesOnce, [ShopNext]_shopVars
             PROVE  ReferenceAuthorisesOnce'
  OBVIOUS
<1>1. ASSUME verified' = verified PROVE ReferenceAuthorisesOnce'
  BY <1>1 DEF ReferenceAuthorisesOnce
<1>2. ASSUME NEW k \in Claims, RecordClaim(k) \/ ClaimAges(k) PROVE ReferenceAuthorisesOnce'
  BY <1>1, <1>2 DEF RecordClaim, ClaimAges
<1>3. ASSUME NEW k \in Claims, NEW ref, verified' = [verified EXCEPT ![k] = ref],
             ReferenceFree(k, ref)
      PROVE  ReferenceAuthorisesOnce'
  <2>1. \A j \in Claims : verified'[j] = IF j = k THEN ref ELSE verified[j]
    BY <1>3 DEF ShopTypeOK
  <2>2. \A j \in Claims \ {k} : verified[j] # ref
    BY <1>3 DEF ReferenceFree
  <2> QED
    BY <2>1, <2>2 DEF ReferenceAuthorisesOnce
<1>4. ASSUME NEW m \in PayMessages, NEW i \in PayMessages, ConfirmPayment(m, i)
      PROVE  ReferenceAuthorisesOnce'
  BY <1>1, <1>3, <1>4, Decision DEF Approvable
<1> QED
  BY <1>1, <1>2, <1>4, ClaimSteps

\* One verified reference authorises one claim, and stays spent when its
\* approval is reversed (payment_claim_verifications is only ever added to).
THEOREM ReferencesSpent == ShopSpec => []ReferenceAuthorisesOnce
<1>1. ShopInit => ReferenceAuthorisesOnce
  BY DEF ShopInit, ReferenceAuthorisesOnce
<1> QED
  BY <1>1, ReferenceStep, ShopTypeCorrect, PTL DEF ShopSpec

\* Telling the same payment is mutual.
LEMMA SamePaymentMutual ==
  ASSUME NEW k \in Claims, NEW j \in Claims, SamePayment(k, j)
  PROVE  SamePayment(j, k)
BY DEF SamePayment

\* No step leaves two open claims on one payment.
LEMMA PendingStep ==
  ShopTypeOK /\ OnePendingClaimPerPayment /\ [ShopNext]_shopVars => OnePendingClaimPerPayment'
<1> SUFFICES ASSUME ShopTypeOK, OnePendingClaimPerPayment, [ShopNext]_shopVars
             PROVE  OnePendingClaimPerPayment'
  OBVIOUS
<1>0. claim \in [Claims -> {"none", "pending", "approved", "rejected"}]
  BY DEF ShopTypeOK
<1>1. ASSUME aged \subseteq aged', \A k \in Claims : claim'[k] = "pending" => claim[k] = "pending"
      PROVE  OnePendingClaimPerPayment'
  BY <1>1 DEF OnePendingClaimPerPayment, SamePayment
<1>2. ASSUME NEW k \in Claims, RecordClaim(k) PROVE OnePendingClaimPerPayment'
  <2>1. aged' = aged /\ \A j \in Claims : claim'[j] = IF j = k THEN "pending" ELSE claim[j]
    BY <1>0, <1>2 DEF RecordClaim
  <2>2. \A j \in Claims : claim[j] = "pending" /\ j \notin aged =>
          ~SamePayment(k, j) /\ ~SamePayment(j, k)
    BY <1>2, SamePaymentMutual DEF RecordClaim, ToldBefore
  <2>3. ASSUME NEW i \in Claims, NEW j \in Claims,
               claim'[i] = "pending", claim'[j] = "pending", {i, j} \cap aged' = {},
               SamePayment(i, j)
        PROVE  i = j
    BY <2>1, <2>2, <2>3 DEF OnePendingClaimPerPayment
  <2>4. \A i, j \in Claims : SamePayment(i, j)' = SamePayment(i, j)
    BY DEF SamePayment
  <2> QED
    BY <2>3, <2>4 DEF OnePendingClaimPerPayment
<1>3. ASSUME NEW k \in Claims, ClaimAges(k) PROVE OnePendingClaimPerPayment'
  BY <1>1, <1>3 DEF ClaimAges
<1>4. ASSUME NEW m \in PayMessages, NEW i \in PayMessages, ConfirmPayment(m, i)
      PROVE  OnePendingClaimPerPayment'
  <2>1. aged' = aged /\ \A k \in Claims : claim'[k] = "pending" => claim[k] = "pending"
    BY <1>0, <1>4, Decision
  <2> QED
    BY <1>1, <2>1
<1> QED
  BY <1>1, <1>2, <1>3, <1>4, ClaimSteps

\* The same payment told twice, by whichever of tool and closing step and in
\* whichever order, is one claim for the owner to decide on.
THEOREM ClaimedOnce == ShopSpec => []OnePendingClaimPerPayment
<1>1. ShopInit => OnePendingClaimPerPayment
  BY DEF ShopInit, OnePendingClaimPerPayment
<1> QED
  BY <1>1, PendingStep, ShopTypeCorrect, PTL DEF ShopSpec

-----------------------------------------------------------------------------
(* Refund cases. *)

\* One active case of an order, and only of a delivered one.
RefundInv ==
  \A r \in RefundCases : refund[r] \in {"requested", "approved_pending_execution"} =>
    /\ order[RefundOrder[r]] = "delivered"
    /\ \A q \in RefundCases :
         /\ refund[q] \in {"requested", "approved_pending_execution"}
         /\ RefundOrder[q] = RefundOrder[r]
         => q = r

\* A set without two elements has at most one.
LEMMA AtMostOneElement ==
  ASSUME NEW S, \A x, y \in S : x = y
  PROVE  Cardinality(S) <= 1
<1>1. CASE S = {}
  BY <1>1, FS_EmptySet
<1>2. ASSUME NEW x \in S PROVE Cardinality(S) <= 1
  <2>1. S = {x}
    OBVIOUS
  <2> QED
    BY <2>1, FS_Singleton
<1> QED
  BY <1>1, <1>2

\* It implies the property.
LEMMA RefundInvSuffices == RefundInv => RefundsJustified
<1> SUFFICES ASSUME RefundInv, NEW o \in Orders
             PROVE  /\ Cardinality(ActiveCases(o)) <= 1
                    /\ ActiveCases(o) # {} => order[o] = "delivered"
  BY DEF RefundsJustified
<1>1. \A r, q \in ActiveCases(o) : r = q
  BY DEF RefundInv, ActiveCases
<1>2. Cardinality(ActiveCases(o)) <= 1
  BY <1>1, AtMostOneElement
<1> QED
  BY <1>2 DEF RefundInv, ActiveCases

\* Old orders are booked or not, whatever the desk does.
LEMMA ShopBookedStep == ShopTypeOK /\ BookedInv /\ [ShopNext]_shopVars => BookedInv'
<1> SUFFICES ASSUME ShopTypeOK, BookedInv, [ShopNext]_shopVars PROVE BookedInv'
  OBVIOUS
<1>1. TypeOK
  BY DEF ShopTypeOK
<1>2. CASE [OrderNext]_orderBookVars
  BY <1>1, <1>2, BookedStep
<1>3. CASE DeskNext
  <2>1. UNCHANGED <<draft, order>>
    BY <1>3, Zenon DEF DeskNext, RecordClaim, ClaimAges, PreparePayment, ActionExpires,
       ConfirmPayment, CancelPayment, TidyActions, ReturnWindowCloses, RequestRefund,
       ResolveRefund, orderBookVars, draftVars, orderVars
  <2> QED
    BY <2>1 DEF BookedInv
<1> QED
  BY <1>2, <1>3 DEF ShopNext, shopVars

\* A case is opened on a delivered order without one, and such an order stays.
LEMMA RefundStep ==
  ShopTypeOK /\ BookedInv /\ RefundInv /\ [ShopNext]_shopVars => RefundInv'
<1> SUFFICES ASSUME ShopTypeOK, BookedInv, RefundInv, [ShopNext]_shopVars PROVE RefundInv'
  OBVIOUS
<1>0. /\ TypeOK /\ RefundOrder \in [RefundCases -> Orders]
      /\ refund \in [RefundCases -> {"none", "requested", "approved_pending_execution", "rejected"}]
  BY PaymentDeskAssumption DEF ShopTypeOK
<1>1. CASE [OrderNext]_orderBookVars /\ UNCHANGED deskVars
  <2>1. \A o \in Orders : order[o] = "delivered" => order'[o] = "delivered"
    BY <1>0, <1>1, ShippedStays
  <2>2. refund' = refund
    BY <1>1 DEF deskVars, refundVars
  <2> QED
    BY <1>0, <2>1, <2>2 DEF RefundInv
<1>2. CASE UNCHANGED <<order, refund>>
  BY <1>2 DEF RefundInv
<1>3. ASSUME NEW r \in RefundCases, RequestRefund(r) PROVE RefundInv'
  <2>1. /\ order' = order /\ order[RefundOrder[r]] = "delivered"
        /\ ActiveCases(RefundOrder[r]) = {}
    BY <1>3 DEF RequestRefund, OpenCase, orderBookVars, orderVars
  <2>2. \A q \in RefundCases : refund'[q] = IF q = r THEN "requested" ELSE refund[q]
    BY <1>0, <1>3 DEF RequestRefund
  <2>3. \A q \in RefundCases :
          RefundOrder[q] = RefundOrder[r] =>
            refund[q] \notin {"requested", "approved_pending_execution"}
    BY <2>1 DEF ActiveCases
  <2> QED
    BY <2>1, <2>2, <2>3 DEF RefundInv
<1>4. ASSUME NEW r \in RefundCases, ResolveRefund(r) PROVE RefundInv'
  <2>1. order' = order /\ refund[r] = "requested"
    BY <1>4 DEF ResolveRefund, orderBookVars, orderVars
  <2>2. \A q \in RefundCases : q # r => refund'[q] = refund[q]
    BY <1>0, <1>4 DEF ResolveRefund
  <2> QED
    BY <2>1, <2>2 DEF RefundInv
<1>5. \/ [OrderNext]_orderBookVars /\ UNCHANGED deskVars
      \/ UNCHANGED <<order, refund>>
      \/ \E r \in RefundCases : RequestRefund(r) \/ ResolveRefund(r)
  BY Zenon DEF ShopNext, shopVars, DeskNext, RecordClaim, ClaimAges, PreparePayment,
     ActionExpires, ConfirmPayment, CancelPayment, TidyActions, ReturnWindowCloses,
     orderBookVars, orderVars, refundVars
<1> QED
  BY <1>1, <1>2, <1>3, <1>4, <1>5

\* An order has at most one active refund case, and has been delivered, whatever
\* is requested again, approved or rejected meanwhile (createRefundRequest).
THEOREM RefundedOnce == ShopSpec => []RefundsJustified
<1>1. ShopInit => BookedInv /\ RefundInv
  BY BookedInit DEF ShopInit, RefundInv
<1> QED
  BY <1>1, ShopBookedStep, RefundStep, RefundInvSuffices, ShopTypeCorrect, PTL DEF ShopSpec

-----------------------------------------------------------------------------
(* Orders beside payments. *)

\* What OrderBookProofs shows of orders, as it is preserved.
OrderInv ==
  /\ BookedInv
  /\ StockAccounted
  /\ OneBookingPerMessage
  /\ OneSummary
  /\ OneAction
  /\ ReportedFulfilmentStands

\* The desk writes one thing of the order book, what an order is owed.
LEMMA DeskKeepsOrders ==
  ASSUME DeskNext
  PROVE  UNCHANGED <<shelfVars, draftVars, order, intentVars>>
BY Zenon DEF DeskNext, RecordClaim, ClaimAges, PreparePayment, ActionExpires, ConfirmPayment,
   CancelPayment, TidyActions, ReturnWindowCloses, RequestRefund, ResolveRefund,
   orderBookVars, orderVars

\* Every step of the shop keeps it.
LEMMA OrderInvStep == ShopTypeOK /\ OrderInv /\ [ShopNext]_shopVars => OrderInv'
<1> SUFFICES ASSUME ShopTypeOK, OrderInv, [ShopNext]_shopVars PROVE OrderInv'
  OBVIOUS
<1>1. TypeOK
  BY DEF ShopTypeOK
<1>2. CASE [OrderNext]_orderBookVars
  BY <1>1, <1>2, BookedStep, StockStep, BookedOnceStep, SummaryStep, ActionStep, ReportedStep
     DEF OrderInv
<1>3. CASE DeskNext
  <2>1. UNCHANGED <<stock, supplied, order, draft, basket, bookedBy, intent>>
    BY <1>3, DeskKeepsOrders DEF shelfVars, draftVars, intentVars
  <2>2. BookedInv' /\ OneBookingPerMessage' /\ OneSummary' /\ OneAction'
    BY <2>1 DEF OrderInv, BookedInv, OneBookingPerMessage, OneSummary, OneAction
  <2>3. StockAccounted'
    BY <2>1 DEF OrderInv, StockAccounted, Held, HeldUnits, Units
  <2>4. ReportedFulfilmentStands'
    BY <2>1 DEF OrderInv, ReportedFulfilmentStands
  <2> QED
    BY <2>2, <2>3, <2>4 DEF OrderInv
<1> QED
  BY <1>2, <1>3 DEF ShopNext, shopVars

\* Claims, decisions and refunds take nothing from what holds of orders: stock
\* stays accounted for, a message books once, one choice is open at a time and
\* reported fulfilments stand, whatever payments are approved or reversed in
\* between (approval and reversal write ledger rows only, refund cases none).
THEOREM OrdersBesidePayments ==
  ShopSpec =>
    [](StockAccounted /\ OneBookingPerMessage /\ OneOpenChoice /\ ReportedFulfilmentStands)
<1>1. ShopInit => OrderInv
  <2> SUFFICES ASSUME ShopInit PROVE OrderInv
    OBVIOUS
  <2>1. Init
    BY DEF ShopInit
  <2> QED
    BY <2>1, BookedInit, StockInit
       DEF OrderInv, Init, OneBookingPerMessage, OneSummary, OneAction, ReportedFulfilmentStands
<1>2. OrderInv => StockAccounted /\ OneBookingPerMessage /\ OneOpenChoice /\ ReportedFulfilmentStands
  BY DEF OrderInv, OneSummary, OneAction, OneOpenChoice
<1> QED
  BY <1>1, <1>2, OrderInvStep, ShopTypeCorrect, PTL DEF ShopSpec

\* The same of the promise: payments change no order, no total and no shelf.
THEOREM ShopRefinesBookedOrders == ShopSpec => ImplementsBookedOrders
<1>1. ShopTypeOK /\ BookedInv /\ [ShopNext]_shopVars => [Booked!Next]_(Booked!vars)
  <2> SUFFICES ASSUME ShopTypeOK, BookedInv, [ShopNext]_shopVars
               PROVE  [Booked!Next]_(Booked!vars)
    OBVIOUS
  <2>1. TypeOK
    BY DEF ShopTypeOK
  <2>2. CASE [OrderNext]_orderBookVars
    BY <2>1, <2>2, BookStep DEF Unnoted, Booked!vars, Stages, Items, ItemsOf, Bills, BillOf
  <2>3. CASE DeskNext
    BY <2>3, DeskKeepsOrders
       DEF shelfVars, draftVars, Booked!vars, Stage, Total
  <2> QED
    BY <2>2, <2>3 DEF ShopNext, shopVars
<1>2. ShopInit => Init
  BY DEF ShopInit
<1> QED
  BY <1>1, <1>2, BookInit, BookedInit, ShopBookedStep, ShopTypeCorrect, PTL
     DEF ShopSpec, ImplementsBookedOrders, Booked!Spec

\* And of the shipping desk, whose intents no payment command touches.
THEOREM ShopRefinesShippingDesk == ShopSpec => ImplementsShippingDesk
<1>1. ShopTypeOK /\ IntentInv /\ [ShopNext]_shopVars =>
        IntentInv' /\ [ShippingDesk!Next]_(ShippingDesk!vars)
  <2> SUFFICES ASSUME ShopTypeOK, IntentInv, [ShopNext]_shopVars
               PROVE  IntentInv' /\ [ShippingDesk!Next]_(ShippingDesk!vars)
    OBVIOUS
  <2>1. TypeOK
    BY DEF ShopTypeOK
  <2>2. CASE [OrderNext]_orderBookVars
    BY <2>1, <2>2, IntentStep, ShippingDeskStep
  <2>3. CASE DeskNext
    <3>1. UNCHANGED <<intent, usedBy, lapsed>>
      BY <2>3, DeskKeepsOrders DEF intentVars
    <3>2. \A i \in OwnerMessages : ActionAtDesk(i)' = ActionAtDesk(i)
      BY <3>1 DEF ActionAtDesk
    <3> QED
      BY <3>1, <3>2 DEF IntentInv, OneAction, ShippingDesk!vars
  <2> QED
    BY <2>2, <2>3 DEF ShopNext, shopVars
<1>2. ShopInit => Init
  BY DEF ShopInit
<1> QED
  BY <1>1, <1>2, ShippingDeskInit, ShopTypeCorrect, PTL
     DEF ShopSpec, ImplementsShippingDesk, ShippingDesk!Spec

-----------------------------------------------------------------------------
(* The ledger. *)

\* What makes the explanation inductive: only an approval can be reversed.
LedgerInv ==
  /\ LedgerExplained
  /\ \A k \in reversed : claim[k] = "approved"

\* A claim's fields.
LEMMA ClaimFields ==
  ASSUME NEW k \in Claims
  PROVE  /\ Claimed[k].customer \in Customers
         /\ Claimed[k].order \in Orders \cup {None}
         /\ Claimed[k].amount \in Nat \ {0}
         /\ Amount[k] = Claimed[k].amount
<1>1. Claimed[k] \in ClaimRecord
  BY PaymentDeskAssumption
<1> QED
  BY <1>1 DEF ClaimRecord, Amount

\* What a set of claims credits.
LEMMA CreditsTyped == ASSUME NEW S \in SUBSET Claims PROVE Credits(S) \in Nat
<1>1. IsFiniteSet(S)
  BY PaymentDeskAssumption, FS_Subset
<1>2. \A k \in S : Amount[k] \in Nat
  BY ClaimFields
<1> QED
  BY <1>1, <1>2, SumNatural DEF Credits

\* One claim more credits its amount more.
LEMMA OneMoreCredit ==
  ASSUME NEW S \in SUBSET Claims, NEW k \in Claims, k \notin S
  PROVE  Credits(S \cup {k}) = Credits(S) + Claimed[k].amount
<1>1. IsFiniteSet(S)
  BY PaymentDeskAssumption, FS_Subset
<1>2. Numeric(Amount, S) /\ Amount[k] \in Int /\ Amount[k] = Claimed[k].amount
  BY ClaimFields DEF Numeric
<1> QED
  BY <1>1, <1>2, SumOneMore DEF Credits

\* The claims that stand on orders and on accounts change with the one approved.
LEMMA ApprovedMore ==
  ASSUME NEW k \in Claims, ~Approved(k),
         \A j \in Claims : Approved(j)' <=> Approved(j) \/ j = k
  PROVE  /\ k \notin ApprovedOn(Claimed[k].order)
         /\ k \notin ApprovedOf(Claimed[k].customer)
         /\ \A o : ApprovedOn(o)' =
              IF o = Claimed[k].order THEN ApprovedOn(o) \cup {k} ELSE ApprovedOn(o)
         /\ \A c : ApprovedOf(c)' =
              IF Claimed[k].order = None /\ Claimed[k].customer = c
              THEN ApprovedOf(c) \cup {k} ELSE ApprovedOf(c)
<1> DEFINE A(j) == Approved(j)
           B(j) == Approved(j)'
<1>1. \A o : /\ ApprovedOn(o) = {j \in Claims : A(j) /\ Claimed[j].order = o}
             /\ ApprovedOn(o)' = {j \in Claims : B(j) /\ Claimed[j].order = o}
  BY DEF ApprovedOn
<1>2. \A c :
        /\ ApprovedOf(c) =
             {j \in Claims : A(j) /\ Claimed[j].order = None /\ Claimed[j].customer = c}
        /\ ApprovedOf(c)' =
             {j \in Claims : B(j) /\ Claimed[j].order = None /\ Claimed[j].customer = c}
  BY DEF ApprovedOf
<1>3. ~A(k) /\ \A j \in Claims : B(j) <=> A(j) \/ j = k
  OBVIOUS
<1> HIDE DEF A, B
<1> QED
  BY <1>1, <1>2, <1>3

\* And do not change when none is decided.
LEMMA ApprovedSame ==
  ASSUME \A j \in Claims : Approved(j)' <=> Approved(j)
  PROVE  (\A o : ApprovedOn(o)' = ApprovedOn(o)) /\ (\A c : ApprovedOf(c)' = ApprovedOf(c))
BY DEF ApprovedOn, ApprovedOf

\* And with the one whose approval is reversed.
LEMMA ApprovedLess ==
  ASSUME NEW k \in Claims, Approved(k),
         \A j \in Claims : Approved(j)' <=> Approved(j) /\ j # k
  PROVE  /\ \A o : k \notin ApprovedOn(o)'
         /\ \A c : k \notin ApprovedOf(c)'
         /\ \A o : ApprovedOn(o) =
              IF o = Claimed[k].order THEN ApprovedOn(o)' \cup {k} ELSE ApprovedOn(o)'
         /\ \A c : ApprovedOf(c) =
              IF Claimed[k].order = None /\ Claimed[k].customer = c
              THEN ApprovedOf(c)' \cup {k} ELSE ApprovedOf(c)'
<1> DEFINE A(j) == Approved(j)
           B(j) == Approved(j)'
<1>1. \A o : /\ ApprovedOn(o) = {j \in Claims : A(j) /\ Claimed[j].order = o}
             /\ ApprovedOn(o)' = {j \in Claims : B(j) /\ Claimed[j].order = o}
  BY DEF ApprovedOn
<1>2. \A c :
        /\ ApprovedOf(c) =
             {j \in Claims : A(j) /\ Claimed[j].order = None /\ Claimed[j].customer = c}
        /\ ApprovedOf(c)' =
             {j \in Claims : B(j) /\ Claimed[j].order = None /\ Claimed[j].customer = c}
  BY DEF ApprovedOf
<1>3. A(k) /\ \A j \in Claims : B(j) <=> A(j) /\ j # k
  OBVIOUS
<1> HIDE DEF A, B
<1> QED
  BY <1>1, <1>2, <1>3

\* A row posted for a claim (insertLedgerEntry) changes what its order is owed, or
\* its customer's account when it names none, by the row's amount.
LEMMA PostedRow ==
  ASSUME TypeOK, account \in [Customers -> Int], NEW k \in Claims, NEW amount \in Int,
         Post(k, amount)
  PROVE  /\ \A o \in Orders :
              owed'[o] = owed[o] + (IF o = Claimed[k].order THEN amount ELSE 0)
         /\ \A c \in Customers :
              account'[c] = account[c] + (IF Claimed[k].order = None /\ Claimed[k].customer = c
                                          THEN amount ELSE 0)
<1> DEFINE c == Claimed[k].customer
           o == Claimed[k].order
<1>1. c \in Customers /\ o \in Orders \cup {None}
  BY ClaimFields
<1>2. owed \in [Orders -> Int] /\ None \notin Orders
  BY PaymentDeskAssumption DEF TypeOK
<1>3. CASE o = None
  <2>1. account' = [account EXCEPT ![c] = account[c] + amount] /\ owed' = owed
    BY <1>3 DEF Post
  <2> QED
    BY <1>1, <1>2, <1>3, <2>1
<1>4. CASE o # None
  <2>1. owed' = [owed EXCEPT ![o] = owed[o] + amount] /\ account' = account
    BY <1>4 DEF Post
  <2> QED
    BY <1>1, <1>2, <1>4, <2>1
<1> QED
  BY <1>3, <1>4

\* The ledger explains, row by row.
LEMMA LedgerRows ==
  LedgerExplained <=>
    /\ \A o \in Orders : owed[o] = Price(o) - Credits(ApprovedOn(o))
    /\ \A c \in Customers : account[c] = -Credits(ApprovedOf(c))
BY DEF LedgerExplained, Price, Live

\* An approval posts the claim's amount as a credit and adds the claim to those
\* that stand (applyConfirmedAction).
LEMMA ApprovalExplained ==
  ASSUME TypeOK, account \in [Customers -> Int], LedgerExplained,
         NEW k \in Claims, ~Approved(k),
         \A j \in Claims : Approved(j)' <=> Approved(j) \/ j = k,
         Post(k, -Claimed[k].amount), UNCHANGED <<order, basket, quote>>
  PROVE  LedgerExplained'
<1> DEFINE a == Claimed[k].amount
<1>0. a \in Nat /\ -a \in Int
  BY ClaimFields
<1>1. ASSUME NEW o \in Orders
      PROVE  owed'[o] = Price(o)' - Credits(ApprovedOn(o)')
  <2>1. Price(o)' = Price(o) /\ Price(o) \in Nat
    BY PriceTyped DEF Price, Total
  <2>2. owed[o] = Price(o) - Credits(ApprovedOn(o))
    BY LedgerRows
  <2>3. owed'[o] = owed[o] + (IF o = Claimed[k].order THEN -a ELSE 0)
    BY <1>0, PostedRow
  <2>4. Credits(ApprovedOn(o)) \in Nat
    BY CreditsTyped DEF ApprovedOn
  <2>5. CASE o = Claimed[k].order
    <3>1. ApprovedOn(o)' = ApprovedOn(o) \cup {k} /\ k \notin ApprovedOn(o)
      BY <2>5, ApprovedMore
    <3>2. Credits(ApprovedOn(o)') = Credits(ApprovedOn(o)) + a
      <4>1. ApprovedOn(o) \in SUBSET Claims
        BY DEF ApprovedOn
      <4> QED
        BY <3>1, <4>1, OneMoreCredit
    <3> QED
      BY <1>0, <2>1, <2>2, <2>3, <2>4, <2>5, <3>2
  <2>6. CASE o # Claimed[k].order
    <3>1. ApprovedOn(o)' = ApprovedOn(o)
      BY <2>6, ApprovedMore
    <3> QED
      BY <2>1, <2>2, <2>3, <2>4, <2>6, <3>1
  <2> QED
    BY <2>5, <2>6
<1>2. ASSUME NEW c \in Customers
      PROVE  account'[c] = -Credits(ApprovedOf(c)')
  <2> DEFINE hit == Claimed[k].order = None /\ Claimed[k].customer = c
  <2>1. account[c] = -Credits(ApprovedOf(c))
    BY LedgerRows
  <2>2. account'[c] = account[c] + (IF hit THEN -a ELSE 0)
    BY <1>0, PostedRow
  <2>3. Credits(ApprovedOf(c)) \in Nat
    BY CreditsTyped DEF ApprovedOf
  <2>4. CASE hit
    <3>1. ApprovedOf(c)' = ApprovedOf(c) \cup {k} /\ k \notin ApprovedOf(c)
      BY <2>4, ApprovedMore
    <3>2. Credits(ApprovedOf(c)') = Credits(ApprovedOf(c)) + a
      <4>1. ApprovedOf(c) \in SUBSET Claims
        BY DEF ApprovedOf
      <4> QED
        BY <3>1, <4>1, OneMoreCredit
    <3> QED
      BY <1>0, <2>1, <2>2, <2>3, <2>4, <3>2
  <2>5. CASE ~hit
    <3>1. ApprovedOf(c)' = ApprovedOf(c)
      BY <2>5, ApprovedMore
    <3> QED
      BY <2>1, <2>2, <2>3, <2>5, <3>1
  <2> QED
    BY <2>4, <2>5
<1> QED
  BY <1>1, <1>2 DEF LedgerExplained, Price, Live

\* A reversal posts it back and takes the claim away (reverseApprovedClaim).
LEMMA ReversalExplained ==
  ASSUME TypeOK, account \in [Customers -> Int], LedgerExplained,
         NEW k \in Claims, Approved(k),
         \A j \in Claims : Approved(j)' <=> Approved(j) /\ j # k,
         Post(k, Claimed[k].amount), UNCHANGED <<order, basket, quote>>
  PROVE  LedgerExplained'
<1> DEFINE a == Claimed[k].amount
<1>0. a \in Nat /\ a \in Int
  BY ClaimFields
<1>1. ASSUME NEW o \in Orders
      PROVE  owed'[o] = Price(o)' - Credits(ApprovedOn(o)')
  <2>1. Price(o)' = Price(o) /\ Price(o) \in Nat
    BY PriceTyped DEF Price, Total
  <2>2. owed[o] = Price(o) - Credits(ApprovedOn(o))
    BY LedgerRows
  <2>3. owed'[o] = owed[o] + (IF o = Claimed[k].order THEN a ELSE 0)
    BY <1>0, PostedRow
  <2>4. ApprovedOn(o)' \in SUBSET Claims /\ Credits(ApprovedOn(o)') \in Nat
    BY CreditsTyped DEF ApprovedOn
  <2>5. CASE o = Claimed[k].order
    <3>1. ApprovedOn(o) = ApprovedOn(o)' \cup {k} /\ k \notin ApprovedOn(o)'
      BY <2>5, ApprovedLess
    <3>2. Credits(ApprovedOn(o)) = Credits(ApprovedOn(o)') + a
      BY <2>4, <3>1, OneMoreCredit
    <3> QED
      BY <1>0, <2>1, <2>2, <2>3, <2>4, <2>5, <3>2
  <2>6. CASE o # Claimed[k].order
    <3>1. ApprovedOn(o)' = ApprovedOn(o)
      BY <2>6, ApprovedLess
    <3> QED
      BY <2>1, <2>2, <2>3, <2>4, <2>6, <3>1
  <2> QED
    BY <2>5, <2>6
<1>2. ASSUME NEW c \in Customers
      PROVE  account'[c] = -Credits(ApprovedOf(c)')
  <2> DEFINE hit == Claimed[k].order = None /\ Claimed[k].customer = c
  <2>1. account[c] = -Credits(ApprovedOf(c))
    BY LedgerRows
  <2>2. account'[c] = account[c] + (IF hit THEN a ELSE 0)
    BY <1>0, PostedRow
  <2>3. ApprovedOf(c)' \in SUBSET Claims /\ Credits(ApprovedOf(c)') \in Nat
    BY CreditsTyped DEF ApprovedOf
  <2>4. CASE hit
    <3>1. ApprovedOf(c) = ApprovedOf(c)' \cup {k} /\ k \notin ApprovedOf(c)'
      BY <2>4, ApprovedLess
    <3>2. Credits(ApprovedOf(c)) = Credits(ApprovedOf(c)') + a
      BY <2>3, <3>1, OneMoreCredit
    <3> QED
      BY <1>0, <2>1, <2>2, <2>3, <2>4, <3>2
  <2>5. CASE ~hit
    <3>1. ApprovedOf(c)' = ApprovedOf(c)
      BY <2>5, ApprovedLess
    <3> QED
      BY <2>1, <2>2, <2>3, <2>5, <3>1
  <2> QED
    BY <2>4, <2>5
<1> QED
  BY <1>1, <1>2 DEF LedgerExplained, Price, Live

\* No claims, no credits.
LEMMA NoClaims == Credits({}) = 0
BY SumEmpty DEF Credits

\* At first old orders are owed their totals and there are no claims.
LEMMA LedgerInit == ShopInit => LedgerInv
<1> SUFFICES ASSUME ShopInit PROVE LedgerInv
  OBVIOUS
<1>0. TypeOK /\ DebtMatchesOrder
  BY InitTyped, DebtInit DEF ShopInit
<1>1. \A k \in Claims : ~Approved(k)
  BY DEF ShopInit, Approved
<1>2. \A o : ApprovedOn(o) = {}
  BY <1>1 DEF ApprovedOn
<1>3. \A c : ApprovedOf(c) = {}
  BY <1>1 DEF ApprovedOf
<1>4. ASSUME NEW o \in Orders PROVE owed[o] = Price(o) - Credits(ApprovedOn(o))
  <2>1. owed[o] = Price(o) /\ Price(o) \in Nat
    BY <1>0, PriceTyped DEF DebtMatchesOrder, Price
  <2> QED
    BY <1>2, <2>1, NoClaims
<1>5. \A c \in Customers : account[c] = -Credits(ApprovedOf(c))
  <2>1. \A c \in Customers : account[c] = 0
    BY DEF ShopInit
  <2> QED
    BY <1>3, <2>1, NoClaims
<1>6. reversed = {}
  BY DEF ShopInit
<1> QED
  BY <1>4, <1>5, <1>6, LedgerRows DEF LedgerInv

\* A step moves orders, records a claim, decides one, or leaves the ledger and
\* the claims alone.
LEMMA LedgerSteps ==
  ASSUME [ShopNext]_shopVars
  PROVE  \/ [OrderNext]_orderBookVars /\ UNCHANGED deskVars
         \/ \E k \in Claims : RecordClaim(k)
         \/ \E m, i \in PayMessages : ConfirmPayment(m, i)
         \/ UNCHANGED <<order, owed, basket, quote, account, claim, reversed, verified>>
BY Zenon DEF ShopNext, DeskNext, ClaimAges, PreparePayment, ActionExpires, CancelPayment,
   TidyActions, ReturnWindowCloses, RequestRefund, ResolveRefund, shopVars, orderBookVars,
   draftVars, orderVars, claimVars

\* Every step keeps the ledger explained.
LEMMA LedgerStep == ShopTypeOK /\ BookedInv /\ LedgerInv /\ [ShopNext]_shopVars => LedgerInv'
<1> SUFFICES ASSUME ShopTypeOK, BookedInv, LedgerInv, [ShopNext]_shopVars PROVE LedgerInv'
  OBVIOUS
<1>0. /\ TypeOK /\ account \in [Customers -> Int] /\ reversed \subseteq Claims
      /\ claim \in [Claims -> {"none", "pending", "approved", "rejected"}]
  BY DEF ShopTypeOK
<1>1. /\ LedgerExplained /\ \A k \in reversed : claim[k] = "approved"
  BY DEF LedgerInv
<1>2. ASSUME UNCHANGED <<order, owed, basket, quote, account, reversed>>,
             \A j \in Claims : Approved(j)' <=> Approved(j)
      PROVE  LedgerExplained'
  <2>1. /\ \A o : ApprovedOn(o)' = ApprovedOn(o)
        /\ \A c : ApprovedOf(c)' = ApprovedOf(c)
    BY <1>2, ApprovedSame
  <2>2. \A o \in Orders : Price(o)' = Price(o)
    BY <1>2 DEF Price, Total
  <2>3. \A o \in Orders : owed'[o] = Price(o)' - Credits(ApprovedOn(o)')
    BY <1>1, <1>2, <2>1, <2>2, LedgerRows
  <2>4. \A c \in Customers : account'[c] = -Credits(ApprovedOf(c)')
    BY <1>1, <1>2, <2>1, LedgerRows
  <2> QED
    BY <2>3, <2>4 DEF LedgerExplained, Price, Live
<1>3. CASE [OrderNext]_orderBookVars /\ UNCHANGED deskVars
  <2>1. UNCHANGED <<account, claim, reversed>>
    BY <1>3 DEF deskVars, claimVars
  <2>2. \A j \in Claims : Approved(j)' <=> Approved(j)
    BY <2>1 DEF Approved
  <2>3. /\ \A o : ApprovedOn(o)' = ApprovedOn(o)
        /\ \A c : ApprovedOf(c)' = ApprovedOf(c)
    BY <2>2, ApprovedSame
  <2>4. TypeOK'
    BY <1>0, <1>3, NextTyped
  <2>5. ASSUME NEW o \in Orders PROVE owed'[o] = Price(o)' - Credits(ApprovedOn(o)')
    <3>1. owed'[o] = owed[o] + (Price(o)' - Price(o))
      BY <1>0, <1>3, DebtMoves
    <3>2. owed[o] = Price(o) - Credits(ApprovedOn(o))
      BY <1>1, LedgerRows
    <3>3. Credits(ApprovedOn(o)) \in Nat
      BY CreditsTyped DEF ApprovedOn
    <3>4. Price(o) \in Nat /\ Price(o)' \in Nat
      <4>1. (TypeOK => Price(o) \in Nat)'
        BY PriceTyped, PTL
      <4> QED
        BY <1>0, <2>4, <4>1, PriceTyped
    <3> QED
      BY <2>3, <3>1, <3>2, <3>3, <3>4
  <2>6. \A c \in Customers : account'[c] = -Credits(ApprovedOf(c)')
    BY <1>1, <2>1, <2>3, LedgerRows
  <2>7. LedgerExplained'
    BY <2>5, <2>6 DEF LedgerExplained, Price, Live
  <2> QED
    BY <1>1, <2>1, <2>7 DEF LedgerInv
<1>4. ASSUME NEW k \in Claims, RecordClaim(k) PROVE LedgerInv'
  <2>1. /\ UNCHANGED <<order, owed, basket, quote, account, reversed>> /\ claim[k] = "none"
        /\ \A j \in Claims : claim'[j] = IF j = k THEN "pending" ELSE claim[j]
    BY <1>0, <1>4 DEF RecordClaim, orderBookVars, orderVars, draftVars
  <2>2. \A j \in Claims : Approved(j)' <=> Approved(j)
    BY <2>1 DEF Approved
  <2> QED
    BY <1>0, <1>1, <1>2, <2>1, <2>2 DEF LedgerInv
<1>5. ASSUME NEW m \in PayMessages, NEW i \in PayMessages, ConfirmPayment(m, i)
      PROVE  LedgerInv'
  <2> DEFINE k == PayText[m].claim
  <2>0. k \in Claims /\ UNCHANGED <<order, basket, quote>>
    BY <1>0, <1>5, Decision
  <2>1. CASE UNCHANGED <<owed, account, claim, reversed>>
    <3>1. \A j \in Claims : Approved(j)' <=> Approved(j)
      BY <2>1 DEF Approved
    <3> QED
      BY <1>1, <1>2, <2>0, <2>1, <3>1 DEF LedgerInv
  <2>2. CASE /\ claim[k] = "pending" /\ claim' = [claim EXCEPT ![k] = "rejected"]
             /\ UNCHANGED <<owed, account, reversed>>
    <3>1. \A j \in Claims : claim'[j] = IF j = k THEN "rejected" ELSE claim[j]
      BY <1>0, <2>0, <2>2
    <3>2. \A j \in Claims : Approved(j)' <=> Approved(j)
      BY <2>2, <3>1 DEF Approved
    <3> QED
      BY <1>0, <1>1, <1>2, <2>0, <2>2, <3>1, <3>2 DEF LedgerInv
  <2>3. CASE /\ claim[k] = "pending" /\ claim' = [claim EXCEPT ![k] = "approved"]
             /\ Post(k, -Claimed[k].amount) /\ reversed' = reversed
    <3>1. \A j \in Claims : claim'[j] = IF j = k THEN "approved" ELSE claim[j]
      BY <1>0, <2>0, <2>3
    <3>2. ~Approved(k) /\ k \notin reversed
      BY <1>1, <2>3 DEF Approved
    <3>3. \A j \in Claims : Approved(j)' <=> Approved(j) \/ j = k
      BY <2>3, <3>1, <3>2 DEF Approved
    <3>4. LedgerExplained'
      BY <1>0, <1>1, <2>0, <2>3, <3>2, <3>3, ApprovalExplained
    <3> QED
      BY <1>0, <1>1, <2>3, <3>1, <3>4 DEF LedgerInv
  <2>4. CASE /\ Approved(k) /\ claim' = claim
             /\ reversed' = reversed \cup {k} /\ Post(k, Claimed[k].amount)
    <3>1. \A j \in Claims : Approved(j)' <=> Approved(j) /\ j # k
      BY <2>4 DEF Approved
    <3>2. LedgerExplained'
      BY <1>0, <1>1, <2>0, <2>4, <3>1, ReversalExplained
    <3> QED
      BY <1>1, <2>4, <3>2 DEF LedgerInv, Approved
  <2> QED
    BY <1>0, <1>5, <2>1, <2>2, <2>3, <2>4, Decision
<1>6. CASE UNCHANGED <<order, owed, basket, quote, account, claim, reversed, verified>>
  <2>1. \A j \in Claims : Approved(j)' <=> Approved(j)
    BY <1>6 DEF Approved
  <2> QED
    BY <1>1, <1>2, <1>6, <2>1 DEF LedgerInv
<1> QED
  BY <1>3, <1>4, <1>5, <1>6, LedgerSteps

\* Every balance is explained by the orders that stand and the claims that do,
\* over any redelivery, reversal, cancellation and booking in between.
THEOREM BalancesExplained == ShopSpec => []LedgerExplained
<1>1. ShopInit => BookedInv /\ LedgerInv
  BY BookedInit, LedgerInit DEF ShopInit
<1>2. LedgerInv => LedgerExplained
  BY DEF LedgerInv
<1> QED
  BY <1>1, <1>2, ShopBookedStep, LedgerStep, ShopTypeCorrect, PTL DEF ShopSpec

-----------------------------------------------------------------------------
(* Approvals. *)

\* A claim on an order was made by its customer, when it was booked.
ClaimedOrders ==
  \A k \in Claims : claim[k] # "none" /\ Claimed[k].order # None =>
    Buyer[Claimed[k].order] = Claimed[k].customer /\ order[Claimed[k].order] # "absent"

\* An order is never forgotten.
LEMMA BookedForGood ==
  ASSUME TypeOK, [OrderNext]_orderBookVars, NEW o \in Orders, order[o] # "absent"
  PROVE  order'[o] # "absent"
<1>1. CASE order' = order
  BY <1>1
<1>2. ASSUME NEW m \in Messages, NEW d \in Messages, ConfirmOrder(m, d)
      PROVE  order'[o] # "absent"
  BY <1>2 DEF ConfirmOrder, TypeOK
<1>3. ASSUME NEW x \in Orders, NEW next \in OrderStatuses, Moved(x, next)
      PROVE  order'[o] # "absent"
  BY <1>3, MoveTyped DEF OrderStatuses
<1> QED
  BY <1>1, <1>2, <1>3, StepKinds DEF OrdersUntouched, PrepareOrder, ImportInventory, orderVars

\* Every step keeps claims on orders of their customers.
LEMMA ClaimedOrdersStep ==
  ShopTypeOK /\ ClaimedOrders /\ [ShopNext]_shopVars => ClaimedOrders'
<1> SUFFICES ASSUME ShopTypeOK, ClaimedOrders, [ShopNext]_shopVars PROVE ClaimedOrders'
  OBVIOUS
<1>0. /\ TypeOK /\ claim \in [Claims -> {"none", "pending", "approved", "rejected"}]
      /\ \A k \in Claims : Claimed[k].order \in Orders \cup {None}
  BY ClaimFields DEF ShopTypeOK
<1>1. ASSUME order' = order, \A k \in Claims : claim'[k] # "none" => claim[k] # "none"
      PROVE  ClaimedOrders'
  BY <1>1 DEF ClaimedOrders
<1>2. CASE [OrderNext]_orderBookVars /\ UNCHANGED deskVars
  <2>1. claim' = claim
    BY <1>2 DEF deskVars, claimVars
  <2> QED
    BY <1>0, <1>2, <2>1, BookedForGood DEF ClaimedOrders
<1>3. ASSUME NEW k \in Claims, RecordClaim(k) PROVE ClaimedOrders'
  <2>1. /\ order' = order
        /\ \A j \in Claims : claim'[j] = IF j = k THEN "pending" ELSE claim[j]
    BY <1>0, <1>3 DEF RecordClaim, orderBookVars, orderVars
  <2>2. Claimed[k].order # None =>
          Buyer[Claimed[k].order] = Claimed[k].customer /\ order[Claimed[k].order] # "absent"
    BY <1>3 DEF RecordClaim, ClaimNeeded, Live
  <2> QED
    BY <2>1, <2>2 DEF ClaimedOrders
<1>4. ASSUME NEW m \in PayMessages, NEW i \in PayMessages, ConfirmPayment(m, i)
      PROVE  ClaimedOrders'
  <2> DEFINE k == PayText[m].claim
  <2>1. /\ k \in Claims /\ order' = order
        /\ \/ claim' = claim
           \/ claim[k] = "pending" /\ claim' = [claim EXCEPT ![k] = "rejected"]
           \/ claim[k] = "pending" /\ claim' = [claim EXCEPT ![k] = "approved"]
    BY <1>0, <1>4, Decision
  <2> HIDE DEF k
  <2>2. \A j \in Claims : claim'[j] # "none" => claim[j] # "none"
    BY <1>0, <2>1
  <2> QED
    BY <1>1, <2>1, <2>2
<1>5. CASE UNCHANGED <<order, owed, basket, quote, account, claim, reversed, verified>>
  BY <1>1, <1>5
<1> QED
  BY <1>2, <1>3, <1>4, <1>5, LedgerSteps

\* A row posted for a claim changes its customer's balance by the row's amount.
LEMMA BalanceMoves ==
  ASSUME ShopTypeOK, ClaimedOrders, NEW k \in Claims, claim[k] # "none", NEW amount \in Int,
         Post(k, amount), order' = order
  PROVE  /\ Balance(Claimed[k].customer) \in Int
         /\ Balance(Claimed[k].customer)' = Balance(Claimed[k].customer) + amount
<1> DEFINE c == Claimed[k].customer
           o == Claimed[k].order
           S == OrdersOf(c)
<1>1. /\ TypeOK /\ account \in [Customers -> Int] /\ c \in Customers
      /\ o \in Orders \cup {None} /\ None \notin Orders
  BY ClaimFields, PaymentDeskAssumption DEF ShopTypeOK
<1>2. owed \in [Orders -> Int] /\ owed' \in [Orders -> Int]
  BY <1>1, PostTyped DEF TypeOK
<1>3. IsFiniteSet(S) /\ Numeric(owed, S) /\ Numeric(owed', S) /\ S' = S
  <2>1. S \in SUBSET Orders /\ IsFiniteSet(Orders)
    BY OrderBookAssumption DEF OrdersOf
  <2>2. IsFiniteSet(S)
    BY <2>1, FS_Subset
  <2> QED
    BY <1>2, <2>1, <2>2 DEF Numeric, OrdersOf
<1>4. /\ \A x \in Orders : owed'[x] = owed[x] + (IF x = o THEN amount ELSE 0)
      /\ account'[c] = account[c] + (IF o = None THEN amount ELSE 0)
  BY <1>1, PostedRow
<1>5. /\ Balance(c) = SumFunctionOnSet(owed, S) + account[c]
      /\ Balance(c)' = SumFunctionOnSet(owed', S) + account'[c]
  BY <1>3 DEF Balance
<1>6. SumFunctionOnSet(owed, S) \in Int /\ account[c] \in Int
  BY <1>1, <1>3, SumType
<1>7. S \subseteq Orders
  BY DEF OrdersOf
<1>8. CASE o = None
  <2>1. \A x \in S : owed[x] = owed'[x]
    BY <1>1, <1>2, <1>4, <1>7, <1>8
  <2>2. SumFunctionOnSet(owed', S) = SumFunctionOnSet(owed, S)
    BY <1>3, <2>1, SumSame
  <2> HIDE DEF c, o, S
  <2> QED
    BY <1>4, <1>5, <1>6, <1>8, <2>2 DEF c
<1>9. CASE o # None
  <2>1. o \in S
    BY <1>1, <1>9 DEF ClaimedOrders, OrdersOf
  <2>2. \A x \in S \ {o} : owed'[x] = owed[x]
    BY <1>2, <1>4, <1>7
  <2>3. SumFunctionOnSet(owed', S) = SumFunctionOnSet(owed, S) + (owed'[o] - owed[o])
    BY <1>3, <2>1, <2>2, SumOneChanged
  <2>4. owed'[o] = owed[o] + amount /\ owed[o] \in Int
    BY <1>1, <1>2, <1>4, <1>9
  <2> HIDE DEF c, o, S
  <2> QED
    BY <1>4, <1>5, <1>6, <1>9, <2>3, <2>4 DEF c
<1> QED
  BY <1>8, <1>9

\* An order that is owed something stands.
LEMMA DebtorsLive ==
  ASSUME ShopTypeOK, LedgerInv, NEW o \in Orders, owed[o] > 0
  PROVE  Live(o)
<1>1. owed[o] = Price(o) - Credits(ApprovedOn(o))
  BY LedgerRows DEF LedgerInv
<1>2. Credits(ApprovedOn(o)) \in Nat
  BY CreditsTyped DEF ApprovedOn
<1>3. Price(o) # 0
  BY <1>1, <1>2
<1> QED
  BY <1>3 DEF Price, Live

\* A step approves claim k.
Approval(k) == claim[k] = "pending" /\ claim'[k] = "approved"

\* An approval was checked against the debt it pays when it was confirmed.
LEMMA ApprovalStep ==
  ASSUME ShopTypeOK, LedgerInv, ClaimedOrders, [ShopNext]_shopVars,
         NEW k \in Claims, Approval(k)
  PROVE  /\ Balance(Claimed[k].customer)' >= 0
         /\ Claimed[k].order # None => Live(Claimed[k].order)
<1>0. /\ TypeOK /\ claim \in [Claims -> {"none", "pending", "approved", "rejected"}]
      /\ owed \in [Orders -> Int]
  BY DEF ShopTypeOK, TypeOK
<1>1. /\ claim[k] = "pending" /\ Post(k, -Claimed[k].amount) /\ order' = order
      /\ Claimed[k].amount <= Balance(Claimed[k].customer)
      /\ Claimed[k].order # None => Claimed[k].amount <= owed[Claimed[k].order]
  <2>1. ASSUME NEW m \in PayMessages, NEW i \in PayMessages, ConfirmPayment(m, i)
        PROVE  /\ Post(k, -Claimed[k].amount) /\ order' = order
               /\ \E ref : Approvable(k, ref)
    <3> DEFINE j == PayText[m].claim
               ref == PayText[m].reference
    <3>1. /\ j \in Claims /\ order' = order
          /\ \/ claim' = claim
             \/ claim' = [claim EXCEPT ![j] = "rejected"]
             \/ /\ claim' = [claim EXCEPT ![j] = "approved"]
                /\ Approvable(j, ref) /\ Post(j, -Claimed[j].amount)
      BY <1>0, <2>1, Decision
    <3> HIDE DEF j, ref
    <3>2. k = j /\ Approvable(j, ref) /\ Post(j, -Claimed[j].amount)
      BY <1>0, <3>1 DEF Approval
    <3> QED
      BY <3>1, <3>2
  <2>2. \E m, i \in PayMessages : ConfirmPayment(m, i)
    <3>1. CASE [OrderNext]_orderBookVars /\ UNCHANGED deskVars
      BY <3>1 DEF deskVars, claimVars, Approval
    <3>2. ASSUME NEW j \in Claims, RecordClaim(j) PROVE FALSE
      BY <1>0, <3>2 DEF RecordClaim, Approval
    <3>3. CASE UNCHANGED <<order, owed, basket, quote, account, claim, reversed, verified>>
      BY <3>3 DEF Approval
    <3> QED
      BY <3>1, <3>2, <3>3, LedgerSteps
  <2> QED
    BY <2>1, <2>2 DEF Approvable, Approval
<1>2. Claimed[k].amount \in Nat \ {0} /\ Claimed[k].order \in Orders \cup {None}
  BY ClaimFields
<1>3. Balance(Claimed[k].customer)' >= 0
  <2> DEFINE a == Claimed[k].amount
             B == Balance(Claimed[k].customer)
  <2>1. B \in Int /\ B' = B + (-a)
    BY <1>1, <1>2, BalanceMoves
  <2>2. a <= B /\ a \in Nat
    BY <1>1, <1>2
  <2> QED
    BY <2>1, <2>2
<1>4. ASSUME Claimed[k].order # None PROVE Live(Claimed[k].order)
  <2> DEFINE o == Claimed[k].order
  <2>1. o \in Orders /\ owed[o] \in Int
    BY <1>0, <1>2, <1>4
  <2>2. owed[o] > 0
    BY <1>1, <1>2, <1>4, <2>1
  <2> QED
    BY <2>1, <2>2, DebtorsLive
<1> QED
  BY <1>3, <1>4

\* No approval makes a balance negative or pays an order that was cancelled,
\* whatever was booked, cancelled or approved since its summary was sent.
THEOREM ApprovedWithinDebt == ShopSpec => ApprovalsWithinDebt
<1>1. ShopInit => BookedInv /\ LedgerInv /\ ClaimedOrders
  BY BookedInit, LedgerInit DEF ShopInit, ClaimedOrders
<1>2. ShopTypeOK /\ LedgerInv /\ ClaimedOrders /\ [ShopNext]_shopVars =>
        [\A k \in Claims :
           claim[k] = "pending" /\ claim'[k] = "approved" =>
             /\ Balance(Claimed[k].customer)' >= 0
             /\ Claimed[k].order # None => Live(Claimed[k].order)]_shopVars
  BY ApprovalStep DEF Approval
<1> QED
  BY <1>1, <1>2, ShopBookedStep, LedgerStep, ClaimedOrdersStep, ShopTypeCorrect, PTL
     DEF ShopSpec, ApprovalsWithinDebt

-----------------------------------------------------------------------------
(* The account. *)

\* The approved and not reversed claims of a customer, on whatever they are.
PaidClaims(c) == {k \in Claims : Approved(k) /\ Claimed[k].customer = c}

\* The account sums as the desk does.
LEMMA SumsAlike ==
  \A f, S : Accounts!SumFunctionOnSet(f, S) = SumFunctionOnSet(f, S)
BY DEF Accounts!SumFunctionOnSet, Accounts!FoldFunctionOnSet, Accounts!MapThenFoldSet,
   SumFunctionOnSet, FoldFunctionOnSet, MapThenFoldSet

\* Their amounts are what the account was paid.
LEMMA PaidIsCredits ==
  ASSUME LedgerInv, NEW c
  PROVE  Accounts!Paid(c) = Credits(PaidClaims(c))
<1> DEFINE status(k) == IF k \in reversed THEN "reversed" ELSE claim[k]
<1>1. \A k \in Claims : status(k) = "approved" <=> Approved(k)
  BY DEF Approved
<1>2. {k \in Claims : /\ [j \in Claims |-> status(j)][k] = "approved"
                      /\ [j \in Claims |-> Claimed[j].customer][k] = c} = PaidClaims(c)
  BY <1>1 DEF PaidClaims
<1> QED
  BY <1>2, SumsAlike DEF Accounts!Paid, Credits

\* The balance the desk checks (getBalanceMinor) is what was bought less what was paid.
LEMMA AccountExplained ==
  ASSUME ShopTypeOK, LedgerInv, ClaimedOrders, NEW c \in Customers
  PROVE  /\ Balance(c) = Bought(c) - Accounts!Paid(c)
         /\ Bought(c) \in Nat
<1> DEFINE S == OrdersOf(c)
           K == PaidClaims(c)
           at == [k \in Claims |-> Claimed[k].order]
           g == [o \in Orders |-> Credits(ApprovedOn(o))]
           f == [o \in Orders |-> Price(o)]
           On == Inside(K, at, S)
           Off == ApprovedOf(c)
<1>1. /\ TypeOK /\ None \notin Orders /\ IsFiniteSet(Orders) /\ IsFiniteSet(Claims)
      /\ owed \in [Orders -> Int]
  BY OrderBookAssumption, PaymentDeskAssumption DEF ShopTypeOK, TypeOK
<1>2. S \subseteq Orders /\ IsFiniteSet(S)
  BY <1>1, FS_Subset DEF OrdersOf
<1>3. K \subseteq Claims /\ IsFiniteSet(K) /\ Numeric(Amount, K)
  BY <1>1, FS_Subset, ClaimFields DEF PaidClaims, Numeric
<1>4. \A o \in Orders : f[o] \in Nat /\ g[o] \in Nat
  BY <1>1, PriceTyped, CreditsTyped DEF ApprovedOn
<1>5. Numeric(f, S) /\ Numeric(g, S) /\ SumFunctionOnSet(f, S) \in Nat
  BY <1>2, <1>4, SumNatural DEF Numeric
<1>6. \A o \in S : owed[o] = f[o] - g[o]
  BY <1>2, LedgerRows DEF LedgerInv
<1>7. SumFunctionOnSet(owed, S) = SumFunctionOnSet(f, S) - SumFunctionOnSet(g, S)
  BY <1>2, <1>5, <1>6, SumDifference
<1>8. \A o \in S : ApprovedOn(o) = Inside(K, at, {o})
  BY <1>1, <1>2 DEF Inside, ApprovedOn, PaidClaims, ClaimedOrders, OrdersOf, Approved
<1>9. SumFunctionOnSet(g, S) = SumFunctionOnSet(Amount, On)
  <2>1. GroupSums(g, S, Amount, K, at)
    BY <1>2, <1>8 DEF GroupSums, Credits
  <2> HIDE DEF S, K, at, g
  <2> QED
    BY <1>2, <1>3, <2>1, SumGroups
<1>10. K = On \cup Off /\ On \cap Off = {}
  <2>1. \A k \in K : at[k] # None => at[k] \in S
    BY <1>1, ClaimFields DEF PaidClaims, ClaimedOrders, OrdersOf, Approved
  <2>2. Off = {k \in K : at[k] = None}
    BY DEF ApprovedOf, PaidClaims
  <2> QED
    BY <1>1, <1>2, <2>1, <2>2 DEF Inside
<1>11. Credits(K) = Credits(On) + Credits(Off)
  <2>1. On \subseteq K /\ Off \subseteq K
    BY <1>10 DEF Inside
  <2>2. IsFiniteSet(On) /\ IsFiniteSet(Off) /\ Numeric(Amount, On) /\ Numeric(Amount, Off)
    BY <1>3, <2>1, FS_Subset DEF Numeric
  <2> HIDE DEF On, Off, K
  <2> QED
    BY <1>10, <2>2, SumUnion DEF Credits
<1>12. account[c] = -Credits(Off)
  BY LedgerRows DEF LedgerInv
<1>13. Credits(On) \in Nat /\ Credits(Off) \in Nat
  <2>1. On \in SUBSET Claims /\ Off \in SUBSET Claims
    BY <1>3 DEF ApprovedOf, Inside
  <2> QED
    BY <2>1, CreditsTyped
<1>14. Bought(c) = SumFunctionOnSet(f, S)
  BY DEF Bought
<1>15. SumFunctionOnSet(g, S) = Credits(On)
  BY <1>9 DEF Credits
<1>16. Accounts!Paid(c) = Credits(K)
  BY PaidIsCredits
<1>17. Balance(c) = SumFunctionOnSet(owed, S) + account[c]
  BY DEF Balance
<1> HIDE DEF S, K, at, g, f, On, Off
<1> QED
  BY <1>5, <1>7, <1>11, <1>12, <1>13, <1>14, <1>15, <1>16, <1>17

-----------------------------------------------------------------------------
(* The desk implements CustomerAccounts. *)

\* What the refinement mapping puts for the variables of CustomerAccounts.
Standing(k) == IF k \in reversed THEN "reversed" ELSE claim[k]
Boughts == [c \in Customers |-> Bought(c)]
Standings == [k \in Claims |-> Standing(k)]
Spent == {verified[k] : k \in Claims} \ {None}

\* A step the account does not notice.
Unnoticed == UNCHANGED <<Boughts, Standings, Spent>>

\* Only a decided claim has a reference.
Unverified == \A k \in Claims : claim[k] \in {"none", "pending"} => verified[k] = None

\* Every step keeps undecided claims without a reference.
LEMMA UnverifiedStep == ShopTypeOK /\ Unverified /\ [ShopNext]_shopVars => Unverified'
<1> SUFFICES ASSUME ShopTypeOK, Unverified, [ShopNext]_shopVars PROVE Unverified'
  OBVIOUS
<1>0. /\ claim \in [Claims -> {"none", "pending", "approved", "rejected"}]
      /\ verified \in [Claims -> References \cup {None}]
  BY DEF ShopTypeOK
<1>1. CASE UNCHANGED <<claim, verified>>
  BY <1>1 DEF Unverified
<1>2. ASSUME NEW k \in Claims, RecordClaim(k) PROVE Unverified'
  BY <1>0, <1>2 DEF RecordClaim, Unverified
<1>3. ASSUME NEW m \in PayMessages, NEW i \in PayMessages, ConfirmPayment(m, i)
      PROVE  Unverified'
  <2> DEFINE k == PayText[m].claim
             ref == PayText[m].reference
  <2>1. /\ k \in Claims
        /\ \/ UNCHANGED <<claim, verified>>
           \/ claim' = [claim EXCEPT ![k] = "rejected"] /\ verified' = verified
           \/ /\ claim' = [claim EXCEPT ![k] = "approved"]
              /\ verified' = [verified EXCEPT ![k] = ref]
    BY <1>3, Decision
  <2> HIDE DEF k, ref
  <2> QED
    BY <1>0, <2>1 DEF Unverified
<1>4. CASE [OrderNext]_orderBookVars /\ UNCHANGED deskVars
  BY <1>1, <1>4 DEF deskVars, claimVars
<1> QED
  BY <1>1, <1>2, <1>3, <1>4, LedgerSteps

\* What a customer bought depends on the customer's orders only.
LEMMA BoughtSame ==
  ASSUME TypeOK, NEW c,
         \A o \in Orders : Buyer[o] = c =>
           /\ order'[o] = "absent" <=> order[o] = "absent"
           /\ Price(o)' = Price(o)
  PROVE  Bought(c)' = Bought(c)
<1> DEFINE f == [o \in Orders |-> Price(o)]
           g == [o \in Orders |-> Price(o)']
           S == OrdersOf(c)
<1>1. OrdersOf(c)' = S
  BY DEF OrdersOf
<1>2. Bought(c) = SumFunctionOnSet(f, S) /\ Bought(c)' = SumFunctionOnSet(g, S)
  BY <1>1 DEF Bought
<1>3. S \subseteq Orders /\ IsFiniteSet(S)
  BY OrderBookAssumption, FS_Subset DEF OrdersOf
<1>4. \A o \in S : f[o] = g[o]
  BY <1>3 DEF OrdersOf
<1>5. Numeric(f, S)
  BY <1>3, PriceTyped DEF Numeric
<1> HIDE DEF f, g, S
<1> QED
  BY <1>2, <1>3, <1>4, <1>5, SumSame

\* And is a natural number.
LEMMA BoughtTyped == ASSUME TypeOK, NEW c PROVE Bought(c) \in Nat
<1> DEFINE f == [o \in Orders |-> Price(o)]
           S == OrdersOf(c)
<1>1. S \subseteq Orders /\ IsFiniteSet(S)
  BY OrderBookAssumption, FS_Subset DEF OrdersOf
<1>2. \A o \in S : f[o] \in Nat
  BY <1>1, PriceTyped
<1> HIDE DEF f, S
<1>3. SumFunctionOnSet(f, S) \in Nat
  BY <1>1, <1>2, SumNatural
<1> QED
  BY <1>3 DEF Bought, f, S

\* Also after a step.
LEMMA BoughtTypedNext == ASSUME TypeOK', NEW c PROVE Bought(c)' \in Nat
<1> DEFINE f == [o \in Orders |-> Price(o)']
           S == OrdersOf(c)'
<1>1. S \subseteq Orders /\ IsFiniteSet(S)
  BY OrderBookAssumption, FS_Subset DEF OrdersOf
<1>2. \A o \in S : f[o] \in Nat
  <2>1. ASSUME NEW o \in Orders PROVE Price(o)' \in Nat
    <3>1. (TypeOK => Price(o) \in Nat)'
      BY PriceTyped, PTL
    <3> QED
      BY <3>1
  <2> QED
    BY <1>1, <2>1
<1> HIDE DEF f, S
<1>3. SumFunctionOnSet(f, S) \in Nat
  BY <1>1, <1>2, SumNatural
<1> QED
  BY <1>3 DEF Bought, f, S

\* A step of the order book prices, books or cancels one order at most.
LEMMA OneOrderAtATime ==
  ASSUME TypeOK, BookedInv, [OrderNext]_orderBookVars
  PROVE  \/ \A o \in Orders : (order'[o] = "absent" <=> order[o] = "absent") /\ Price(o)' = Price(o)
         \/ \E x \in Orders : \A o \in Orders \ {x} :
              (order'[o] = "absent" <=> order[o] = "absent") /\ Price(o)' = Price(o)
<1> DEFINE Kept(o) == (order'[o] = "absent" <=> order[o] = "absent") /\ Price(o)' = Price(o)
           Goal == \/ \A o \in Orders : Kept(o)
                   \/ \E x \in Orders : \A o \in Orders \ {x} : Kept(o)
<1>0. /\ Messages \subseteq Orders
      /\ order \in [Orders -> OrderStatuses \cup {"absent"}]
  BY DEF Orders, TypeOK
<1>1. CASE UNCHANGED <<order, basket, quote>>
  BY <1>1 DEF Price, Total
<1>2. ASSUME NEW m \in Messages, PrepareOrder(m) PROVE Goal
  <2>1. order' = order
    BY <1>2 DEF PrepareOrder, orderVars
  <2>2. \A o \in Orders \ {m} : Price(o)' = Price(o)
    BY <1>2, <2>1, PrepareKeepsOthers DEF Price, Total
  <2> QED
    BY <1>0, <2>1, <2>2
<1>3. ASSUME NEW m \in Messages, NEW d \in Messages, ConfirmOrder(m, d) PROVE Goal
  <2>1. \A o \in Orders \ {d} : order'[o] = order[o]
    BY <1>0, <1>3 DEF ConfirmOrder
  <2>2. \A o \in Orders \ {d} : Price(o)' = Price(o)
    BY <1>3, <2>1 DEF ConfirmOrder, Price, Total
  <2> QED
    BY <1>0, <2>1, <2>2
<1>4. ASSUME NEW x \in Orders, NEW next \in OrderStatuses, Moved(x, next) PROVE Goal
  <2>1. \A o \in Orders \ {x} : order'[o] = order[o]
    BY <1>4, MoveTyped
  <2>2. \A o \in Orders \ {x} : Price(o)' = Price(o)
    BY <1>4, <2>1 DEF Moved, Price, Total
  <2> QED
    BY <2>1, <2>2
<1>5. ASSUME NEW file \in Files, ImportInventory(file) PROVE Goal
  BY <1>1, <1>5 DEF ImportInventory, draftVars, orderVars
<1> QED
  BY <1>1, <1>2, <1>3, <1>4, <1>5, StepKinds DEF OrdersUntouched

\* So it is a trade of one customer, or the account does not notice it.
LEMMA TradeStep ==
  ASSUME TypeOK, BookedInv, [OrderNext]_orderBookVars, UNCHANGED deskVars
  PROVE  Accounts!Next \/ Unnoticed
<1>0. TypeOK' /\ Buyer \in [Orders -> Customers]
  BY NextTyped, OrderBookAssumption
<1>1. Standings' = Standings /\ Spent' = Spent
  BY DEF Standings, Standing, Spent, deskVars, claimVars
<1>2. CASE \A o \in Orders : (order'[o] = "absent" <=> order[o] = "absent") /\ Price(o)' = Price(o)
  <2>1. \A c : Bought(c)' = Bought(c)
    BY <1>2, BoughtSame
  <2> QED
    BY <1>1, <2>1 DEF Unnoticed, Boughts
<1>3. ASSUME NEW x \in Orders,
             \A o \in Orders \ {x} :
               (order'[o] = "absent" <=> order[o] = "absent") /\ Price(o)' = Price(o)
      PROVE  Accounts!Next
  <2> DEFINE c == Buyer[x]
  <2>1. c \in Customers
    BY <1>0
  <2>2. \A b \in Customers \ {c} : Bought(b)' = Bought(b)
    BY <1>3, BoughtSame
  <2>3. Bought(c)' \in Nat
    BY <1>0, BoughtTypedNext
  <2> HIDE DEF c
  <2>4. Boughts' = [Boughts EXCEPT ![c] = Boughts'[c]] /\ Boughts'[c] \in Nat
    BY <2>1, <2>2, <2>3 DEF Boughts
  <2>5. Accounts!Trade(c)
    BY <1>1, <2>4 DEF Accounts!Trade, Boughts, Standings, Standing, Spent
  <2> QED
    BY <2>1, <2>5 DEF Accounts!Next
<1> QED
  BY <1>2, <1>3, OneOrderAtATime

\* A decision approves, rejects or reverses one claim in the account, or the
\* account does not notice it.
LEMMA DecisionStep ==
  ASSUME ShopTypeOK, LedgerInv, ClaimedOrders, Unverified,
         NEW m \in PayMessages, NEW i \in PayMessages, ConfirmPayment(m, i)
  PROVE  Accounts!Next \/ Unnoticed
<1> DEFINE k == PayText[m].claim
           ref == PayText[m].reference
<1>0. /\ claim \in [Claims -> {"none", "pending", "approved", "rejected"}]
      /\ verified \in [Claims -> References \cup {None}]
      /\ reversed \subseteq Claims /\ None \notin References /\ TypeOK
      /\ \A j \in reversed : claim[j] = "approved"
  BY PaymentDeskAssumption DEF ShopTypeOK, LedgerInv
<1>1. /\ k \in Claims /\ UNCHANGED <<order, basket, quote>>
      /\ \/ UNCHANGED <<claim, reversed, verified>>
         \/ /\ claim[k] = "pending" /\ claim' = [claim EXCEPT ![k] = "rejected"]
            /\ UNCHANGED <<reversed, verified>>
         \/ /\ claim[k] = "pending" /\ claim' = [claim EXCEPT ![k] = "approved"]
            /\ ref \in References /\ Approvable(k, ref)
            /\ verified' = [verified EXCEPT ![k] = ref] /\ reversed' = reversed
         \/ /\ Approved(k) /\ claim' = claim
            /\ verified' = verified /\ reversed' = reversed \cup {k}
  BY Decision
<1> HIDE DEF k, ref
<1>2. Boughts' = Boughts
  <2>1. \A o \in Orders : Price(o)' = Price(o)
    BY <1>1 DEF Price, Total
  <2>2. \A c : Bought(c)' = Bought(c)
    BY <1>0, <1>1, <2>1, BoughtSame
  <2> QED
    BY <2>2 DEF Boughts
<1>3. Standings[k] = Standing(k)
  BY <1>1 DEF Standings
<1>4. CASE UNCHANGED <<claim, reversed, verified>>
  BY <1>2, <1>4 DEF Unnoticed, Standings, Standing, Spent
<1>5. CASE /\ claim[k] = "pending" /\ claim' = [claim EXCEPT ![k] = "rejected"]
           /\ UNCHANGED <<reversed, verified>>
  <2>1. k \notin reversed /\ Spent' = Spent
    BY <1>0, <1>5 DEF Spent
  <2>2. Standings[k] = "pending" /\ Standings' = [Standings EXCEPT ![k] = "rejected"]
    BY <1>0, <1>1, <1>3, <1>5, <2>1 DEF Standings, Standing
  <2>3. Accounts!Reject(k)
    BY <1>2, <2>1, <2>2 DEF Accounts!Reject, Boughts, Standings, Standing, Spent
  <2> QED
    BY <1>1, <2>3 DEF Accounts!Next
<1>6. CASE /\ claim[k] = "pending" /\ claim' = [claim EXCEPT ![k] = "approved"]
           /\ ref \in References /\ Approvable(k, ref)
           /\ verified' = [verified EXCEPT ![k] = ref] /\ reversed' = reversed
  <2>1. k \notin reversed
    BY <1>0, <1>6
  <2>2. Standings[k] = "pending" /\ Standings' = [Standings EXCEPT ![k] = "approved"]
    BY <1>0, <1>1, <1>3, <1>6, <2>1 DEF Standings, Standing
  <2>3. ref \in References \ Spent /\ Spent' = Spent \cup {ref}
    <3>1. verified[k] = None /\ ref # None
      BY <1>0, <1>1, <1>6 DEF Unverified
    <3>2. \A j \in Claims \ {k} : verified[j] # ref
      BY <1>6 DEF Approvable, ReferenceFree
    <3>3. \A j \in Claims : verified'[j] = IF j = k THEN ref ELSE verified[j]
      BY <1>0, <1>6
    <3> QED
      BY <1>1, <1>6, <3>1, <3>2, <3>3 DEF Spent
  <2>4. Amount[k] <= Boughts[Claimed[k].customer] - Accounts!Paid(Claimed[k].customer)
    <3>1. /\ Claimed[k].customer \in Customers
          /\ Amount[k] <= Balance(Claimed[k].customer)
      BY <1>1, <1>6, ClaimFields DEF Approvable
    <3>2. Balance(Claimed[k].customer) =
            Bought(Claimed[k].customer) - Accounts!Paid(Claimed[k].customer)
      BY <3>1, AccountExplained
    <3> QED
      BY <3>1, <3>2 DEF Boughts
  <2>5. [j \in Claims |-> Claimed[j].customer][k] = Claimed[k].customer
    BY <1>1
  <2>6. Amount[k] <= Accounts!Due([j \in Claims |-> Claimed[j].customer][k])
    BY <2>4, <2>5 DEF Accounts!Due, Boughts
  <2>7. Accounts!Approve(k)
    BY <1>2, <2>2, <2>3, <2>6 DEF Accounts!Approve, Boughts, Standings, Standing, Spent
  <2> QED
    BY <1>1, <2>7 DEF Accounts!Next
<1>7. CASE /\ Approved(k) /\ claim' = claim
           /\ verified' = verified /\ reversed' = reversed \cup {k}
  <2>1. Spent' = Spent
    BY <1>7 DEF Spent
  <2>2. Standings[k] = "approved" /\ Standings' = [Standings EXCEPT ![k] = "reversed"]
    BY <1>0, <1>1, <1>3, <1>7 DEF Standings, Standing, Approved
  <2>3. Accounts!Reverse(k)
    BY <1>2, <2>1, <2>2 DEF Accounts!Reverse, Boughts, Standings, Standing, Spent
  <2> QED
    BY <1>1, <2>3 DEF Accounts!Next
<1> QED
  BY <1>1, <1>4, <1>5, <1>6, <1>7

\* Every step of the shop is one of the account, or unnoticed.
LEMMA AccountStep ==
  ASSUME ShopTypeOK, BookedInv, LedgerInv, ClaimedOrders, Unverified, [ShopNext]_shopVars
  PROVE  Accounts!Next \/ Unnoticed
<1>0. /\ TypeOK /\ claim \in [Claims -> {"none", "pending", "approved", "rejected"}]
      /\ \A j \in reversed : claim[j] = "approved"
  BY DEF ShopTypeOK, LedgerInv
<1>1. ASSUME UNCHANGED <<order, basket, quote>> PROVE Boughts' = Boughts
  <2>1. \A o \in Orders : Price(o)' = Price(o)
    BY <1>1 DEF Price, Total
  <2>2. \A c : Bought(c)' = Bought(c)
    BY <1>0, <1>1, <2>1, BoughtSame
  <2> QED
    BY <2>2 DEF Boughts
<1>2. CASE [OrderNext]_orderBookVars /\ UNCHANGED deskVars
  BY <1>0, <1>2, TradeStep
<1>3. ASSUME NEW k \in Claims, RecordClaim(k) PROVE Accounts!Next
  <2>1. /\ claim[k] = "none" /\ claim' = [claim EXCEPT ![k] = "pending"]
        /\ UNCHANGED <<order, basket, quote, reversed, verified>>
    BY <1>3 DEF RecordClaim, orderBookVars, orderVars, draftVars
  <2>2. Standings[k] = "none" /\ Standings' = [Standings EXCEPT ![k] = "pending"]
    BY <1>0, <2>1 DEF Standings, Standing
  <2>3. Spent' = Spent /\ Boughts' = Boughts
    BY <1>1, <2>1 DEF Spent
  <2>4. Accounts!Tell(k)
    BY <2>2, <2>3 DEF Accounts!Tell, Boughts, Standings, Standing, Spent
  <2> QED
    BY <2>4 DEF Accounts!Next
<1>4. CASE UNCHANGED <<order, owed, basket, quote, account, claim, reversed, verified>>
  BY <1>1, <1>4 DEF Unnoticed, Standings, Standing, Spent
<1> QED
  BY <1>2, <1>3, <1>4, DecisionStep, LedgerSteps

\* At first nothing was paid.
LEMMA AccountInit == ShopInit => Accounts!Init
<1> SUFFICES ASSUME ShopInit PROVE Accounts!Init
  OBVIOUS
<1>1. Boughts \in [Customers -> Nat]
  BY InitTyped, BoughtTyped DEF ShopInit, Boughts
<1>2. Standings = [k \in Claims |-> "none"]
  BY DEF ShopInit, Standings, Standing
<1>3. Spent = {}
  BY DEF ShopInit, Spent
<1> QED
  BY <1>1, <1>2, <1>3 DEF Accounts!Init, Boughts, Standings, Standing, Spent

\* Orders, claims, decisions and ledger rows together are an account: its balance
\* is what was bought less what was paid, no approval pays more than is due, and
\* claims and references take effect once.
THEOREM RefinesCustomerAccounts == ShopSpec => ImplementsCustomerAccounts
<1>1. ShopInit => BookedInv /\ LedgerInv /\ ClaimedOrders /\ Unverified
  BY BookedInit, LedgerInit DEF ShopInit, ClaimedOrders, Unverified
<1>2. ShopTypeOK /\ BookedInv /\ LedgerInv /\ ClaimedOrders /\ Unverified
        /\ [ShopNext]_shopVars => [Accounts!Next]_(Accounts!vars)
  BY AccountStep DEF Unnoticed, Accounts!vars, Boughts, Standings, Standing, Spent
<1> QED
  BY <1>1, <1>2, AccountInit, ShopBookedStep, LedgerStep, ClaimedOrdersStep, UnverifiedStep,
     ShopTypeCorrect, PTL DEF ShopSpec, ImplementsCustomerAccounts, Accounts!Spec

-----------------------------------------------------------------------------
(* The owner's decisions implement TwoStepDesk. *)

\* What the refinement mapping puts for its actions.
Decisions == [i \in PayMessages |-> DecisionAtDesk(i)]

\* One action is pending, and none runs out before it was prepared.
ActionInv ==
  /\ \A i, j \in PayMessages : action[i] = "pending" /\ action[j] = "pending" => i = j
  /\ \A i \in timedOut : action[i] # "none"

\* A step of TwoStepDesk, said of the mapping.
LEMMA DecisionDeskAs ==
  /\ \A m : DecisionDesk!Prepare(m) <=>
       /\ Decisions[m] = "none"
       /\ Decisions' = [a \in PayMessages |-> IF a = m THEN "waiting"
                          ELSE IF Decisions[a] = "waiting" THEN "gone" ELSE Decisions[a]]
       /\ settledBy' = settledBy
  /\ \A m, a : DecisionDesk!Decide(m, a) <=>
       /\ Decisions[a] = "waiting"
       /\ \A b \in PayMessages : settledBy[b] # m
       /\ \E how \in {"done", "gone"} : Decisions' = [Decisions EXCEPT ![a] = how]
       /\ settledBy' = [settledBy EXCEPT ![a] = m]
  /\ \A a : DecisionDesk!Drop(a) <=>
       /\ Decisions[a] = "waiting"
       /\ Decisions' = [Decisions EXCEPT ![a] = "gone"]
       /\ settledBy' = settledBy
BY DEF DecisionDesk!Prepare, DecisionDesk!Decide, DecisionDesk!Drop, DecisionDesk!Waits, Decisions

\* An action that ran out is gone before its row says so.
LEMMA ExpiryUnnoted ==
  ASSUME timedOut' = timedOut, NEW i \in PayMessages, action'[i] = ActionsExpired[i]
  PROVE  /\ DecisionAtDesk(i)' = DecisionAtDesk(i)
         /\ action[i] # "none" => action'[i] # "none"
         /\ action'[i] = "pending" => action[i] = "pending"
BY DEF ActionsExpired, DecisionAtDesk

\* A prepared decision replaces the one that waits.
LEMMA PreparedDecision ==
  ASSUME ShopTypeOK, ActionInv, NEW m \in PayMessages, PreparePayment(m)
  PROVE  ActionInv' /\ (DecisionDesk!Prepare(m) \/ UNCHANGED <<Decisions, settledBy>>)
<1>1. timedOut' = timedOut /\ settledBy' = settledBy /\ action[m] = "none" /\ m \notin timedOut
  BY DEF PreparePayment, ActionInv
<1>2. CASE action' = ActionsExpired
  <2>1. \A i \in PayMessages : action'[i] = ActionsExpired[i]
    BY <1>2
  <2> QED
    BY <1>1, <2>1, ExpiryUnnoted DEF ActionInv, Decisions, ShopTypeOK
<1>3. CASE \A i \in PayMessages :
             action'[i] = IF i = m THEN "pending"
                          ELSE IF i \in Open THEN "cancelled" ELSE ActionsExpired[i]
  <2>1. DecisionAtDesk(m) = "none" /\ DecisionAtDesk(m)' = "waiting"
    BY <1>1, <1>3 DEF DecisionAtDesk
  <2>2. ASSUME NEW i \in PayMessages, i # m
        PROVE  /\ DecisionAtDesk(i)' =
                    IF DecisionAtDesk(i) = "waiting" THEN "gone" ELSE DecisionAtDesk(i)
               /\ action'[i] # "pending"
               /\ action[i] # "none" => action'[i] # "none"
    <3>1. CASE i \in Open
      <4>1. action'[i] = "cancelled" /\ DecisionAtDesk(i) = "waiting"
        BY <1>3, <2>2, <3>1 DEF Open, DecisionAtDesk
      <4> QED
        BY <4>1 DEF DecisionAtDesk
    <3>2. CASE i \notin Open
      <4>1. /\ action'[i] = ActionsExpired[i] /\ DecisionAtDesk(i) # "waiting"
            /\ ActionsExpired[i] # "pending"
        BY <1>3, <2>2, <3>2 DEF Open, DecisionAtDesk, ActionsExpired
      <4> QED
        BY <1>1, <4>1, ExpiryUnnoted
    <3> QED
      BY <3>1, <3>2
  <2>3. Decisions' = [a \in PayMessages |-> IF a = m THEN "waiting"
                        ELSE IF Decisions[a] = "waiting" THEN "gone" ELSE Decisions[a]]
    BY <2>1, <2>2 DEF Decisions
  <2>4. Decisions[m] = "none"
    BY <2>1 DEF Decisions
  <2>5. ActionInv'
    BY <1>1, <2>2, <1>3 DEF ActionInv, ShopTypeOK
  <2> QED
    BY <1>1, <2>3, <2>4, <2>5, DecisionDeskAs
<1> QED
  BY <1>2, <1>3 DEF PreparePayment

\* An action ends, decided or withdrawn, and the others are tidied up.
LEMMA EndedDecision ==
  ASSUME ShopTypeOK, ActionInv, timedOut' = timedOut, NEW i \in Open,
         NEW how \in {"confirmed", "cancelled"}, action' = [ActionsExpired EXCEPT ![i] = how]
  PROVE  /\ ActionInv'
         /\ Decisions[i] = "waiting"
         /\ \E end \in {"done", "gone"} :
              /\ Decisions' = [Decisions EXCEPT ![i] = end]
              /\ how = "cancelled" => end = "gone"
<1>1. i \in PayMessages /\ DecisionAtDesk(i) = "waiting"
  BY DEF Open, DecisionAtDesk
<1>2. \A j \in PayMessages : action'[j] = IF j = i THEN how ELSE ActionsExpired[j]
  BY DEF ActionsExpired
<1>3. \A j \in PayMessages \ {i} :
        /\ DecisionAtDesk(j)' = DecisionAtDesk(j)
        /\ action[j] # "none" => action'[j] # "none"
        /\ action'[j] = "pending" => action[j] = "pending"
  BY <1>2, ExpiryUnnoted
<1>4. ActionInv'
  BY <1>1, <1>2, <1>3 DEF ActionInv, ShopTypeOK
<1>5. PICK end \in {"done", "gone"} :
        DecisionAtDesk(i)' = end /\ (how = "cancelled" => end = "gone")
  BY <1>1, <1>2 DEF DecisionAtDesk
<1>6. Decisions' = [Decisions EXCEPT ![i] = end] /\ Decisions[i] = "waiting"
  BY <1>1, <1>3, <1>5 DEF Decisions
<1> QED
  BY <1>4, <1>5, <1>6

\* Every step is one of the desk, or changes nothing there.
LEMMA DecisionDeskStep ==
  ShopTypeOK /\ ActionInv /\ [ShopNext]_shopVars =>
    ActionInv' /\ [DecisionDesk!Next]_(DecisionDesk!vars)
<1> SUFFICES ASSUME ShopTypeOK, ActionInv, [ShopNext]_shopVars
             PROVE  ActionInv' /\ (DecisionDesk!Next \/ UNCHANGED <<Decisions, settledBy>>)
  BY DEF DecisionDesk!vars, Decisions
<1>1. CASE UNCHANGED actionVars
  <2>1. UNCHANGED <<action, settledBy, timedOut>>
    BY <1>1 DEF actionVars
  <2>2. \A i \in PayMessages : DecisionAtDesk(i)' = DecisionAtDesk(i)
    BY <2>1 DEF DecisionAtDesk
  <2> QED
    BY <2>1, <2>2 DEF ActionInv, Decisions
<1>2. ASSUME NEW m \in PayMessages, PreparePayment(m)
      PROVE  ActionInv' /\ (DecisionDesk!Next \/ UNCHANGED <<Decisions, settledBy>>)
  BY <1>2, PreparedDecision DEF DecisionDesk!Next
<1>3. ASSUME NEW i \in PayMessages, ActionExpires(i)
      PROVE  ActionInv' /\ DecisionDesk!Next
  <2>1. /\ UNCHANGED <<action, settledBy>> /\ timedOut' = timedOut \cup {i}
        /\ action[i] = "pending" /\ i \notin timedOut
    BY <1>3 DEF ActionExpires
  <2>2. DecisionAtDesk(i) = "waiting" /\ DecisionAtDesk(i)' = "gone"
    BY <2>1 DEF DecisionAtDesk
  <2>3. \A j \in PayMessages \ {i} : DecisionAtDesk(j)' = DecisionAtDesk(j)
    BY <2>1 DEF DecisionAtDesk
  <2>4. Decisions' = [Decisions EXCEPT ![i] = "gone"] /\ Decisions[i] = "waiting"
    BY <2>2, <2>3 DEF Decisions
  <2>5. DecisionDesk!Drop(i)
    BY <2>1, <2>4, DecisionDeskAs
  <2>6. ActionInv'
    BY <2>1 DEF ActionInv
  <2> QED
    BY <2>5, <2>6 DEF DecisionDesk!Next
<1>4. ASSUME NEW m \in PayMessages, NEW i \in PayMessages, ConfirmPayment(m, i)
      PROVE  ActionInv' /\ DecisionDesk!Next
  <2>1. PICK how \in {"confirmed", "cancelled"} : action' = [ActionsExpired EXCEPT ![i] = how]
    BY <1>4 DEF ConfirmPayment
  <2>2. /\ i \in Open /\ timedOut' = timedOut
        /\ \A b \in PayMessages : settledBy[b] # m
        /\ settledBy' = [settledBy EXCEPT ![i] = m]
    BY <1>4 DEF ConfirmPayment, Unused
  <2>3. /\ ActionInv' /\ Decisions[i] = "waiting"
        /\ \E end \in {"done", "gone"} : Decisions' = [Decisions EXCEPT ![i] = end]
    BY <2>1, <2>2, EndedDecision
  <2>4. DecisionDesk!Decide(m, i)
    BY <2>2, <2>3, DecisionDeskAs
  <2> QED
    BY <2>3, <2>4 DEF DecisionDesk!Next
<1>5. ASSUME NEW m \in PayMessages, NEW i \in PayMessages, CancelPayment(m, i)
      PROVE  ActionInv' /\ DecisionDesk!Next
  <2>1. /\ action' = [ActionsExpired EXCEPT ![i] = "cancelled"]
        /\ i \in Open /\ timedOut' = timedOut /\ settledBy' = settledBy
    BY <1>5 DEF CancelPayment
  <2>2. ActionInv' /\ DecisionDesk!Drop(i)
    BY <2>1, EndedDecision, DecisionDeskAs
  <2> QED
    BY <2>2 DEF DecisionDesk!Next
<1>6. CASE TidyActions
  <2>1. action' = ActionsExpired /\ timedOut' = timedOut /\ settledBy' = settledBy
    BY <1>6 DEF TidyActions
  <2> QED
    BY <2>1, ExpiryUnnoted DEF ActionInv, Decisions, ShopTypeOK
<1>7. \/ UNCHANGED actionVars \/ TidyActions
      \/ \E m \in PayMessages : PreparePayment(m) \/ ActionExpires(m)
      \/ \E m, i \in PayMessages : ConfirmPayment(m, i) \/ CancelPayment(m, i)
  BY Zenon DEF ShopNext, DeskNext, RecordClaim, ClaimAges, ReturnWindowCloses, RequestRefund,
     ResolveRefund, shopVars, deskVars
<1> QED
  BY <1>1, <1>2, <1>3, <1>4, <1>5, <1>6, <1>7

\* At first nothing was prepared.
LEMMA DecisionDeskInit == ShopInit => ActionInv /\ DecisionDesk!Init
<1> SUFFICES ASSUME ShopInit PROVE ActionInv /\ DecisionDesk!Init
  OBVIOUS
<1>1. /\ action = [m \in PayMessages |-> "none"] /\ timedOut = {}
      /\ settledBy = [m \in PayMessages |-> None]
  BY DEF ShopInit
<1>2. \A i \in PayMessages : DecisionAtDesk(i) = "none"
  BY <1>1 DEF DecisionAtDesk
<1>3. ActionInv
  BY <1>1 DEF ActionInv
<1> QED
  BY <1>1, <1>2, <1>3 DEF DecisionDesk!Init, DecisionDesk!Waits

\* A payment action is decided once and by one message, the one that waits is the
\* last one prepared, and none comes back, those that ran out included
\* (handleOwnerPaymentCommand).
THEOREM RefinesDecisionDesk == ShopSpec => ImplementsDecisionDesk
BY DecisionDeskInit, DecisionDeskStep, ShopTypeCorrect, PTL
   DEF ShopSpec, ImplementsDecisionDesk, DecisionDesk!Spec
=============================================================================
