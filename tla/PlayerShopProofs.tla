-------------------------- MODULE PlayerShopProofs --------------------------
(***************************************************************************)
(* Proofs about PlayerShop, for every value of its constants.  TypeCorrect *)
(* and CoinNotMinted hold as they stand, SerialsUnique and ItemsNotLost    *)
(* say themselves which death they except.  NoDupeInOneProcess asks that   *)
(* the process does not die, SellerIsPaid that no message finds the seller *)
(* gone.                                                                   *)
(***************************************************************************)
EXTENDS PlayerShop, FiniteSetTheorems, WellFoundedInduction, TLAPS

-------------------------------------------------------------------------------
(* Sums over finite sets. *)

\* What holds of a set whenever it holds of that set without any one of its elements,
\* holds of every finite set.
LEMMA FiniteInduction ==
    ASSUME NEW S, IsFiniteSet(S), NEW G, {} \in G,
           \A T \in SUBSET S : T # {} /\ (\A x \in T : T \ {x} \in G) => T \in G
    PROVE  \A T \in SUBSET S : T \in G
<1> DEFINE B == {T \in SUBSET S : T \notin G}
           R == StrictSubsetOrdering(S)
<1>1. SUFFICES ASSUME B # {} PROVE FALSE
  OBVIOUS
<1>2. IsWellFoundedOn(R, SUBSET S)
  BY FS_FiniteSubsetsOfFinite, FS_StrictSubsetOrderingWellFounded
<1>3. \E T \in B : \A U \in B : <<U, T>> \notin R
  <2>1. B \subseteq SUBSET S
    OBVIOUS
  <2> HIDE DEF B, R
  <2> QED
    BY <1>1, <1>2, <2>1, WFMin
<1>4. PICK T \in B : \A U \in B : <<U, T>> \notin R
  BY <1>3
<1>5. T # {} /\ T \in SUBSET S /\ T \notin G
  OBVIOUS
<1>6. ASSUME NEW x \in T PROVE T \ {x} \in G
  <2>1. T \ {x} \in SUBSET S /\ T \ {x} \subseteq T /\ T \ {x} # T
    BY <1>5
  <2>2. <<T \ {x}, T>> \in R
    BY <1>5, <2>1 DEF StrictSubsetOrdering
  <2> QED
    BY <1>4, <2>1, <2>2
<1> QED
  BY <1>5, <1>6

\* The element a sum takes first.
First(s) == CHOOSE x \in s : TRUE

\* h is the function of the partial sums over the subsets of S.
Partial(f, S, h) ==
    h = [s \in SUBSET S |-> IF s = {} THEN 0 ELSE f[First(s)] + h[s \ {First(s)}]]

\* What SumFunctionOnSet is, its folds expanded.
LEMMA SumIs ==
    ASSUME NEW f, NEW S
    PROVE  SumFunctionOnSet(f, S) = (CHOOSE h : Partial(f, S, h))[S]
BY DEF SumFunctionOnSet, FoldFunctionOnSet, MapThenFoldSet, Partial, First

\* There is at most one such function, and it is that of a larger set, restricted.
LEMMA PartialAgree ==
    ASSUME NEW f, NEW S, IsFiniteSet(S), NEW h, Partial(f, S, h),
           NEW T \in SUBSET S, NEW i, Partial(f, T, i)
    PROVE  \A s \in SUBSET T : h[s] = i[s]
<1> DEFINE G == {s \in SUBSET T : h[s] = i[s]}
<1>1. {} \in G
  BY DEF Partial
<1>2. ASSUME NEW s \in SUBSET T, \A x \in s : s \ {x} \in G, s # {}
      PROVE  s \in G
  <2>1. First(s) \in s
    BY <1>2 DEF First
  <2>2. s \ {First(s)} \in G
    BY <1>2, <2>1
  <2>3. h[s] = f[First(s)] + h[s \ {First(s)}]
    BY <1>2 DEF Partial
  <2>4. i[s] = f[First(s)] + i[s \ {First(s)}]
    BY <1>2 DEF Partial
  <2> QED
    BY <2>2, <2>3, <2>4
<1>3. IsFiniteSet(T)
  BY FS_Subset
<1>4. \A s \in SUBSET T : s \in G
  <2> HIDE DEF G
  <2> QED
    BY <1>1, <1>2, <1>3, FiniteInduction
<1> QED
  BY <1>4

\* There is one.
LEMMA PartialExists ==
    ASSUME NEW f, NEW S, IsFiniteSet(S)
    PROVE  \A T \in SUBSET S : \E h : Partial(f, T, h)
<1> DEFINE G == {T \in SUBSET S : \E h : Partial(f, T, h)}
           H(T) == CHOOSE h : Partial(f, T, h)
<1>1. {} \in G
  <2> DEFINE h == [s \in SUBSET {} |-> 0]
  <2>1. Partial(f, {}, h)
    BY DEF Partial
  <2> QED
    BY <2>1
<1>2. ASSUME NEW T \in SUBSET S, \A x \in T : T \ {x} \in G, T # {}
      PROVE  T \in G
  <2> DEFINE c == First(T)
             U == T \ {c}
             h == [s \in SUBSET T |-> IF s = T THEN f[c] + H(U)[U]
                                      ELSE H(T \ {CHOOSE x \in T : x \notin s})[s]]
  <2>1. c \in T /\ U \in SUBSET S
    BY <1>2 DEF First
  <2>2. \A x \in T : Partial(f, T \ {x}, H(T \ {x}))
    BY <1>2
  <2>3. ASSUME NEW x \in T, NEW s \in SUBSET (T \ {x})
        PROVE  h[s] = H(T \ {x})[s]
    <3> DEFINE y == CHOOSE z \in T : z \notin s
    <3>1. y \in T /\ y \notin s /\ s # T /\ s \in SUBSET T
      OBVIOUS
    <3>2. h[s] = H(T \ {y})[s]
      BY <3>1
    <3> DEFINE W == (T \ {x}) \cap (T \ {y})
               i == [v \in SUBSET W |-> H(T \ {x})[v]]
    <3>3. IsFiniteSet(T \ {x}) /\ IsFiniteSet(T \ {y}) /\ W \in SUBSET (T \ {x}) /\ W \in SUBSET (T \ {y})
      BY FS_Subset
    <3>4. Partial(f, T \ {x}, H(T \ {x})) /\ Partial(f, T \ {y}, H(T \ {y}))
      BY <2>2, <3>1
    <3> HIDE DEF H, y, h
    <3>5. Partial(f, W, i)
      <4>1. i = [v \in SUBSET W |-> IF v = {} THEN 0 ELSE f[First(v)] + i[v \ {First(v)}]]
        <5>1. ASSUME NEW v \in SUBSET W
              PROVE  i[v] = IF v = {} THEN 0 ELSE f[First(v)] + i[v \ {First(v)}]
          <6>1. v \in SUBSET (T \ {x}) /\ v \ {First(v)} \in SUBSET W
            OBVIOUS
          <6>2. H(T \ {x})[v] = IF v = {} THEN 0
                                ELSE f[First(v)] + H(T \ {x})[v \ {First(v)}]
            BY <3>4, <6>1 DEF Partial
          <6> QED
            BY <6>1, <6>2
        <5> QED
          BY <5>1
      <4> QED
        BY <4>1 DEF Partial
    <3> HIDE DEF i, W
    <3>6. s \in SUBSET W
      BY <3>1 DEF W
    <3>7. H(T \ {x})[s] = i[s] /\ H(T \ {y})[s] = i[s]
      BY <3>3, <3>4, <3>5, <3>6, PartialAgree
    <3> QED
      BY <3>2, <3>7
  <2>4. Partial(f, T, h)
    <3>1. ASSUME NEW s \in SUBSET T
          PROVE  h[s] = IF s = {} THEN 0 ELSE f[First(s)] + h[s \ {First(s)}]
      <4>1. CASE s = T
        <5>1. h[s] = f[c] + H(U)[U] /\ T # {}
          BY <1>2, <4>1
        <5>2. h[U] = H(U)[U]
          BY <2>1, <2>3
        <5> QED
          BY <4>1, <5>1, <5>2
      <4>2. CASE s # T
        <5>1. PICK x \in T : x \notin s
          BY <4>2
        <5>2. s \in SUBSET (T \ {x}) /\ s \ {First(s)} \in SUBSET (T \ {x})
          BY <5>1
        <5>3. h[s] = H(T \ {x})[s] /\ h[s \ {First(s)}] = H(T \ {x})[s \ {First(s)}]
          BY <2>3, <5>1, <5>2
        <5>4. Partial(f, T \ {x}, H(T \ {x}))
          BY <2>2, <5>1
        <5> HIDE DEF h, H
        <5> QED
          BY <5>2, <5>3, <5>4 DEF Partial
      <4> QED
        BY <4>1, <4>2
    <3>2. h = [s \in SUBSET T |-> h[s]]
      OBVIOUS
    <3> HIDE DEF h
    <3> QED
      BY <3>1, <3>2 DEF Partial
  <2> QED
    BY <2>4
<1>3. \A T \in SUBSET S : T \in G
  <2> HIDE DEF G
  <2> QED
    BY <1>1, <1>2, FiniteInduction
<1> QED
  BY <1>3

\* The sum over no element, and over a set: the first one and the sum of the others.
LEMMA SumEmpty ==
    ASSUME NEW f
    PROVE  SumFunctionOnSet(f, {}) = 0
<1>1. \E h : Partial(f, {}, h)
  BY PartialExists, FS_EmptySet
<1> DEFINE h == CHOOSE h : Partial(f, {}, h)
<1>2. Partial(f, {}, h)
  BY <1>1
<1> HIDE DEF h
<1>3. h[{}] = 0
  BY <1>2 DEF Partial
<1> QED
  BY <1>3, SumIs DEF h

\* A sum is that of its first element and of the rest.
LEMMA SumFirst ==
    ASSUME NEW f, NEW S, IsFiniteSet(S), S # {}
    PROVE  /\ First(S) \in S
           /\ SumFunctionOnSet(f, S) = f[First(S)] + SumFunctionOnSet(f, S \ {First(S)})
<1> DEFINE U == S \ {First(S)}
           h == CHOOSE h : Partial(f, S, h)
           i == CHOOSE i : Partial(f, U, i)
<1>1. First(S) \in S /\ U \in SUBSET S /\ IsFiniteSet(U)
  BY FS_Subset DEF First
<1>2. Partial(f, S, h)
  BY PartialExists
<1>3. Partial(f, U, i)
  BY <1>1, PartialExists
<1>4. SumFunctionOnSet(f, S) = h[S] /\ SumFunctionOnSet(f, U) = i[U]
  BY SumIs
<1> HIDE DEF h, i, U
<1>5. h[U] = i[U]
  BY <1>1, <1>2, <1>3, PartialAgree
<1>6. h[S] = f[First(S)] + h[U]
  BY <1>2 DEF Partial, U
<1> QED
  BY <1>1, <1>4, <1>5, <1>6 DEF U

\* A sum of elements of a set that is closed under addition is in that set.
LEMMA SumIn ==
    ASSUME NEW C, 0 \in C, \A a, b \in C : a + b \in C,
           NEW f, NEW S, IsFiniteSet(S), \A x \in S : f[x] \in C
    PROVE  \A T \in SUBSET S : SumFunctionOnSet(f, T) \in C
<1> DEFINE G == {T \in SUBSET S : SumFunctionOnSet(f, T) \in C}
<1>1. {} \in G
  BY SumEmpty
<1>2. ASSUME NEW T \in SUBSET S, \A x \in T : T \ {x} \in G, T # {}
      PROVE  T \in G
  <2>1. IsFiniteSet(T)
    BY FS_Subset
  <2>2. First(T) \in T
        /\ SumFunctionOnSet(f, T) = f[First(T)] + SumFunctionOnSet(f, T \ {First(T)})
    BY <1>2, <2>1, SumFirst
  <2> QED
    BY <1>2, <2>2
<1>3. \A T \in SUBSET S : T \in G
  <2> HIDE DEF G
  <2> QED
    BY <1>1, <1>2, FiniteInduction
<1> QED
  BY <1>3

\* A sum of integers is an integer, ...
LEMMA SumInt ==
    ASSUME NEW f, NEW S, IsFiniteSet(S), \A x \in S : f[x] \in Int
    PROVE  SumFunctionOnSet(f, S) \in Int
<1>1. 0 \in Int /\ \A a, b \in Int : a + b \in Int
  OBVIOUS
<1> DEFINE C == Int
<1>2. 0 \in C /\ (\A a, b \in C : a + b \in C) /\ \A x \in S : f[x] \in C
  BY <1>1
<1>3. SumFunctionOnSet(f, S) \in C
  <2> HIDE DEF C
  <2> QED
    BY <1>2, SumIn
<1> QED
  BY <1>3

\* ... and one of naturals a natural.
LEMMA SumNat ==
    ASSUME NEW f, NEW S, IsFiniteSet(S), \A x \in S : f[x] \in Nat
    PROVE  SumFunctionOnSet(f, S) \in Nat
<1> DEFINE C == Nat
<1>1. 0 \in C /\ (\A a, b \in C : a + b \in C) /\ \A x \in S : f[x] \in C
  OBVIOUS
<1>2. SumFunctionOnSet(f, S) \in C
  <2> HIDE DEF C
  <2> QED
    BY <1>1, SumIn
<1> QED
  BY <1>2

\* Any element can be taken first.
LEMMA SumTaken ==
    ASSUME NEW f, NEW S, IsFiniteSet(S), \A x \in S : f[x] \in Int
    PROVE  \A x \in S : SumFunctionOnSet(f, S) = f[x] + SumFunctionOnSet(f, S \ {x})
<1> DEFINE Sum(T) == SumFunctionOnSet(f, T)
           G == {T \in SUBSET S : \A x \in T : Sum(T) = f[x] + Sum(T \ {x})}
<1>1. {} \in G
  OBVIOUS
<1>2. ASSUME NEW T \in SUBSET S, \A x \in T : T \ {x} \in G, T # {}
      PROVE  T \in G
  <2> DEFINE c == First(T)
  <2>1. IsFiniteSet(T)
    BY FS_Subset
  <2>2. c \in T /\ Sum(T) = f[c] + Sum(T \ {c})
    BY <1>2, <2>1, SumFirst
  <2> HIDE DEF c, Sum
  <2>3. ASSUME NEW x \in T, x # c
        PROVE  Sum(T) = f[x] + Sum(T \ {x})
    <3> DEFINE V == (T \ {x}) \ {c}
    <3>1. T \ {c} \in G /\ T \ {x} \in G /\ x \in T \ {c} /\ c \in T \ {x} /\ (T \ {c}) \ {x} = V
      BY <1>2, <2>2, <2>3
    <3> HIDE DEF V
    <3>2. Sum(T \ {c}) = f[x] + Sum(V) /\ Sum(T \ {x}) = f[c] + Sum(V)
      BY <3>1 DEF V
    <3>3. IsFiniteSet(V) /\ V \subseteq S
      BY FS_Subset DEF V
    <3>4. Sum(V) \in Int /\ f[x] \in Int /\ f[c] \in Int
      BY <2>2, <3>3, SumInt DEF Sum
    <3> QED
      BY <2>2, <3>2, <3>4
  <2> QED
    BY <2>2, <2>3
<1>3. \A T \in SUBSET S : T \in G
  <2> HIDE DEF G
  <2> QED
    BY <1>1, <1>2, FiniteInduction
<1> QED
  BY <1>3

\* Sums of functions that agree, and of one that is nowhere above the other.
LEMMA SumSame ==
    ASSUME NEW f, NEW g, NEW S, IsFiniteSet(S), \A x \in S : f[x] = g[x]
    PROVE  SumFunctionOnSet(f, S) = SumFunctionOnSet(g, S)
<1> DEFINE G == {T \in SUBSET S : SumFunctionOnSet(f, T) = SumFunctionOnSet(g, T)}
<1>1. {} \in G
  BY SumEmpty
<1>2. ASSUME NEW T \in SUBSET S, \A x \in T : T \ {x} \in G, T # {}
      PROVE  T \in G
  <2>1. IsFiniteSet(T)
    BY FS_Subset
  <2>2. /\ First(T) \in T
        /\ SumFunctionOnSet(f, T) = f[First(T)] + SumFunctionOnSet(f, T \ {First(T)})
        /\ SumFunctionOnSet(g, T) = g[First(T)] + SumFunctionOnSet(g, T \ {First(T)})
    BY <1>2, <2>1, SumFirst
  <2> QED
    BY <1>2, <2>2
<1>3. \A T \in SUBSET S : T \in G
  <2> HIDE DEF G
  <2> QED
    BY <1>1, <1>2, FiniteInduction
<1> QED
  BY <1>3

\* Smaller terms make a smaller sum.
LEMMA SumBelow ==
    ASSUME NEW f, NEW g, NEW S, IsFiniteSet(S),
           \A x \in S : f[x] \in Int /\ g[x] \in Int /\ f[x] <= g[x]
    PROVE  SumFunctionOnSet(f, S) <= SumFunctionOnSet(g, S)
<1> DEFINE G == {T \in SUBSET S : SumFunctionOnSet(f, T) <= SumFunctionOnSet(g, T)}
<1>1. {} \in G
  BY SumEmpty
<1>2. ASSUME NEW T \in SUBSET S, \A x \in T : T \ {x} \in G, T # {}
      PROVE  T \in G
  <2> DEFINE U == T \ {First(T)}
  <2>1. IsFiniteSet(T) /\ IsFiniteSet(U) /\ U \subseteq S
    BY FS_Subset
  <2>2. /\ First(T) \in T
        /\ SumFunctionOnSet(f, T) = f[First(T)] + SumFunctionOnSet(f, U)
        /\ SumFunctionOnSet(g, T) = g[First(T)] + SumFunctionOnSet(g, U)
    BY <1>2, <2>1, SumFirst
  <2>3. SumFunctionOnSet(f, U) \in Int /\ SumFunctionOnSet(g, U) \in Int
    BY <2>1, SumInt
  <2>4. f[First(T)] \in Int /\ g[First(T)] \in Int /\ f[First(T)] <= g[First(T)]
        /\ SumFunctionOnSet(f, U) <= SumFunctionOnSet(g, U)
    BY <1>2, <2>2
  <2> QED
    BY <2>2, <2>3, <2>4
<1>3. \A T \in SUBSET S : T \in G
  <2> HIDE DEF G
  <2> QED
    BY <1>1, <1>2, FiniteInduction
<1> QED
  BY <1>3

\* The sum of one value over a set is the value times the size of the set.
LEMMA SumConstant ==
    ASSUME NEW f, NEW S, IsFiniteSet(S), NEW v \in Nat, \A x \in S : f[x] = v
    PROVE  SumFunctionOnSet(f, S) = v * Cardinality(S)
<1> DEFINE G == {T \in SUBSET S : SumFunctionOnSet(f, T) = v * Cardinality(T)}
<1>1. {} \in G
  BY SumEmpty, FS_EmptySet
<1>2. ASSUME NEW T \in SUBSET S, \A x \in T : T \ {x} \in G, T # {}
      PROVE  T \in G
  <2> DEFINE c == First(T)
             n == Cardinality(T)
  <2>1. IsFiniteSet(T)
    BY FS_Subset
  <2>2. c \in T /\ SumFunctionOnSet(f, T) = f[c] + SumFunctionOnSet(f, T \ {c})
    BY <1>2, <2>1, SumFirst
  <2> HIDE DEF c
  <2>3. n \in Nat /\ Cardinality(T \ {c}) = n - 1
    BY <2>1, <2>2, FS_RemoveElement, FS_CardinalityType
  <2>4. SumFunctionOnSet(f, T) = v + v * (n - 1)
    BY <1>2, <2>2, <2>3
  <2>5. v + v * (n - 1) = v * n
    <3> HIDE DEF n
    <3> QED
      BY <2>3
  <2> QED
    BY <2>4, <2>5
<1>3. \A T \in SUBSET S : T \in G
  <2> HIDE DEF G
  <2> QED
    BY <1>1, <1>2, FiniteInduction
<1> QED
  BY <1>3

\* The same of whole functions: the sum of a function of naturals, of two functions that
\* differ at one place, and of a function with one more place.
LEMMA Total ==
    ASSUME NEW S, IsFiniteSet(S), NEW f \in [S -> Nat]
    PROVE  SumFunction(f) \in Nat
BY SumNat DEF SumFunction

\* The same of SumFunction, the sum over the whole domain: it is an integer, ...
LEMMA TotalInt ==
    ASSUME NEW S, IsFiniteSet(S), NEW f \in [S -> Int]
    PROVE  SumFunction(f) \in Int
BY SumInt DEF SumFunction

\* ... changes as the one term that changes, ...
LEMMA TotalChanged ==
    ASSUME NEW S, IsFiniteSet(S), NEW f \in [S -> Int], NEW g \in [S -> Int], NEW a \in S,
           \A x \in S : x # a => g[x] = f[x]
    PROVE  SumFunction(g) = SumFunction(f) - f[a] + g[a]
<1> DEFINE U == S \ {a}
<1>1. IsFiniteSet(U)
  BY FS_Subset
<1>2. /\ SumFunctionOnSet(f, S) = f[a] + SumFunctionOnSet(f, U)
      /\ SumFunctionOnSet(g, S) = g[a] + SumFunctionOnSet(g, U)
  BY SumTaken
<1>3. SumFunctionOnSet(f, U) = SumFunctionOnSet(g, U) /\ SumFunctionOnSet(f, U) \in Int
  BY <1>1, SumSame, SumInt
<1>4. SumFunction(f) = SumFunctionOnSet(f, S) /\ SumFunction(g) = SumFunctionOnSet(g, S)
  BY DEF SumFunction
<1> QED
  BY <1>2, <1>3, <1>4

\* ... grows by a term that is added, ...
LEMMA TotalAdded ==
    ASSUME NEW S, IsFiniteSet(S), NEW f \in [S -> Int], NEW a, a \notin S,
           NEW g \in [S \cup {a} -> Int], \A x \in S : g[x] = f[x]
    PROVE  SumFunction(g) = SumFunction(f) + g[a]
<1> DEFINE T == S \cup {a}
<1>1. IsFiniteSet(T) /\ T \ {a} = S /\ a \in T
  BY FS_AddElement
<1>2. SumFunctionOnSet(g, T) = g[a] + SumFunctionOnSet(g, S)
  BY <1>1, SumTaken
<1>3. SumFunctionOnSet(f, S) = SumFunctionOnSet(g, S) /\ SumFunctionOnSet(f, S) \in Int
  BY SumSame, SumInt
<1>4. SumFunction(f) = SumFunctionOnSet(f, S) /\ SumFunction(g) = SumFunctionOnSet(g, T)
  BY DEF SumFunction
<1> QED
  BY <1>2, <1>3, <1>4

\* ... and is smaller if its terms are.
LEMMA TotalBelow ==
    ASSUME NEW S, IsFiniteSet(S), NEW f \in [S -> Int], NEW g \in [S -> Int],
           \A x \in S : f[x] <= g[x]
    PROVE  SumFunction(f) <= SumFunction(g)
BY SumBelow DEF SumFunction

\* A sum of naturals is at least each of them.
LEMMA TotalAtLeast ==
    ASSUME NEW S, IsFiniteSet(S), NEW f \in [S -> Nat], NEW a \in S
    PROVE  SumFunction(f) >= f[a]
<1> DEFINE U == S \ {a}
<1>1. IsFiniteSet(U)
  BY FS_Subset
<1>2. SumFunctionOnSet(f, S) = f[a] + SumFunctionOnSet(f, U)
  BY SumTaken
<1>3. SumFunctionOnSet(f, U) \in Nat
  BY <1>1, SumNat
<1> QED
  BY <1>2, <1>3 DEF SumFunction

-------------------------------------------------------------------------------
(* Types, handlers and the numbers of the rows. *)

BuyerSteps  == [pc : {"Read", "Marked", "Paid", "Delivered", "Taken"}, row : RowType, qty : Nat \ {0}]
SellerSteps == {[pc |-> "PayEscrow"]}
               \cup [pc : {"Inserted"}, slots : SUBSET Goods, next_sn : 1 .. MaxListings + 1]
               \cup [pc : {"Pulled"}, id : 1 .. MaxListings]
               \cup [pc : {"EscrowRead", "EscrowCleared"}, amount : Nat \ {0}]
WorldSteps  == [pc : {"Banking"}, qty : Nat \ {0}, banked : Nat]

\* The serial the next listing starts with, once the handler is through.
Counter == IF In(Seller, "Inserted") THEN step[Seller].next_sn ELSE shopsn

\* A process is in a handler of its own player, with the copies that one keeps; the seller's
\* runs one only for a seller who is there.
Handlers ==
    /\ step \in [Players -> {Idle} \cup BuyerSteps \cup SellerSteps]
    /\ \A b \in Buyers : step[b] # Idle => /\ step[b] \in BuyerSteps
                                           /\ step[b].qty <= step[b].row.charges
    /\ step[Seller] # Idle => step[Seller] \in SellerSteps /\ seller = "InZone"
    /\ world # Idle => world \in WorldSteps

\* A row is known by its id, and no id is given twice.
Numbers ==
    /\ IsFiniteSet(to_world) /\ IsFiniteSet(to_zone)
    /\ Counter <= last_id + 1 /\ shopsn <= last_id + 1
    /\ \A r \in rows : r.id <= last_id
    /\ \A r, t \in rows : r.id = t.id => r = t
    /\ \A b \in Buyers : step[b] # Idle => step[b].row.id <= last_id

Typed == TypeOK /\ Handlers /\ Numbers

\* What the assumption says, one part at a time.
LEMMA Constants ==
    /\ IsFiniteSet(Goods) /\ Stack \in [Goods -> Nat \ {0}] /\ Stackable \subseteq Goods
    /\ IsFiniteSet(Buyers) /\ Seller \notin Buyers
    /\ Coins \in Nat /\ ShopMax \in Nat /\ MaxCrashes \in Nat /\ MaxListings \in Nat
    /\ Players = Buyers \cup {Seller} /\ Buyers \subseteq Players /\ Seller \in Players
BY ShopAssumption DEF Players

\* A step of a buyer's handler, and one of the seller's.
LEMMA BuyerGoes ==
    ASSUME Handlers, NEW b \in Buyers, NEW v \in BuyerSteps \cup {Idle},
           v # Idle => v.qty <= v.row.charges, Goto(b, v), seller' = seller, world' = world
    PROVE  /\ Handlers' /\ step'[b] = v
           /\ \A p \in Players \ {b} : step'[p] = step[p]
<1>1. b \in Players /\ b # Seller /\ Seller \in Players /\ Buyers \subseteq Players
  BY Constants
<1> DEFINE S == {Idle} \cup BuyerSteps \cup SellerSteps
<1>2. step \in [Players -> S] /\ v \in S
  BY DEF Handlers
<1> HIDE DEF S
<1>3. step' \in [Players -> S] /\ step'[b] = v /\ \A p \in Players \ {b} : step'[p] = step[p]
  BY <1>1, <1>2 DEF Goto
<1>4. \A c \in Buyers : step'[c] # Idle => step'[c] \in BuyerSteps /\ step'[c].qty <= step'[c].row.charges
  <2> SUFFICES ASSUME NEW c \in Buyers, step'[c] # Idle
               PROVE  step'[c] \in BuyerSteps /\ step'[c].qty <= step'[c].row.charges
    OBVIOUS
  <2>1. CASE c = b
    <3> HIDE DEF BuyerSteps
    <3> QED
      BY <1>3, <2>1
  <2>2. CASE c # b
    BY <1>1, <1>3, <2>2 DEF Handlers
  <2> QED
    BY <2>1, <2>2
<1>5. step'[Seller] = step[Seller]
  BY <1>1, <1>3
<1> QED
  BY <1>3, <1>4, <1>5 DEF Handlers, S, Idle

\* The seller's handler goes on to a step that has its type.
LEMMA SellerGoes ==
    ASSUME Handlers, NEW v \in SellerSteps \cup {Idle}, Goto(Seller, v),
           v # Idle => seller' = "InZone", world' = world
    PROVE  /\ Handlers' /\ step'[Seller] = v
           /\ \A b \in Buyers : step'[b] = step[b]
<1>1. Seller \in Players /\ Seller \notin Buyers /\ Buyers \subseteq Players
  BY Constants
<1> DEFINE S == {Idle} \cup BuyerSteps \cup SellerSteps
<1>2. step \in [Players -> S] /\ v \in S
  BY DEF Handlers
<1> HIDE DEF S
<1>3. step' \in [Players -> S] /\ step'[Seller] = v /\ \A b \in Buyers : step'[b] = step[b]
  BY <1>1, <1>2 DEF Goto
<1> QED
  BY <1>3 DEF Handlers, S, Idle

\* The handlers as TypeOK sees them, before a step and after it.
LEMMA StepsTyped ==
    /\ Handlers => /\ DOMAIN step = Players /\ \A p \in Players : step[p].pc \in StepType
                   /\ world.pc \in {"Idle", "Banking"}
    /\ Handlers' => /\ DOMAIN step' = Players /\ \A p \in Players : step'[p].pc \in StepType
                    /\ world'.pc \in {"Idle", "Banking"}
<1>1. \A v \in {Idle} \cup BuyerSteps \cup SellerSteps : v.pc \in StepType
  BY DEF Idle, BuyerSteps, SellerSteps, StepType
<1>2. \A v \in {Idle} \cup WorldSteps : v.pc \in {"Idle", "Banking"}
  BY DEF Idle, WorldSteps
<1> QED
  BY <1>1, <1>2 DEF Handlers

\* What a handler's pc says of it.
LEMMA BuyerIn ==
    ASSUME Handlers, NEW b \in Buyers, step[b].pc # "Idle"
    PROVE  /\ step[b] \in BuyerSteps /\ step[b] # Idle /\ step[b].qty \in Nat \ {0}
           /\ step[b].row \in RowType /\ step[b].qty <= step[b].row.charges
BY DEF Handlers, Idle, BuyerSteps

\* What the seller's handler holds at each of its steps.
LEMMA SellerIn ==
    ASSUME Handlers
    PROVE  /\ In(Seller, "Inserted") => step[Seller] \in [pc : {"Inserted"}, slots : SUBSET Goods, next_sn : 1 .. MaxListings + 1]
           /\ In(Seller, "Pulled") => step[Seller] \in [pc : {"Pulled"}, id : 1 .. MaxListings]
           /\ In(Seller, "EscrowRead") \/ In(Seller, "EscrowCleared") =>
                step[Seller] \in [pc : {"EscrowRead", "EscrowCleared"}, amount : Nat \ {0}]
           /\ step[Seller].pc # "Idle" => step[Seller] # Idle /\ seller = "InZone"
BY DEF Handlers, Idle, SellerSteps, In

\* The rows are finitely many.
LEMMA RowsFinite ==
    ASSUME NEW R \in SUBSET RowType, \A r, t \in R : r.id = t.id => r = t
    PROVE  IsFiniteSet(R)
<1> DEFINE f == [r \in R |-> r.id]
<1>1. f \in Injection(R, 1 .. MaxListings)
  BY DEF Injection, IsInjective, RowType
<1>2. IsFiniteSet(1 .. MaxListings)
  BY Constants, FS_Interval
<1> QED
  BY <1>1, <1>2, FS_Injection

\* A set of rows in which some have another mark.
Remarked(R, Q) ==
    /\ \A r \in R : \E q \in Q : q.id = r.id /\ q.sn = r.sn /\ q.good = r.good /\ q.charges = r.charges
    /\ \A q \in Q : \E r \in R : q.id = r.id /\ q.sn = r.sn /\ q.good = r.good /\ q.charges = r.charges

\* To mark a row keeps the types and the ids.
LEMMA Marking ==
    ASSUME rows \subseteq RowType, \A r, t \in rows : r.id = t.id => r = t,
           NEW id, NEW status \in BOOLEAN, SetActive(id, status)
    PROVE  /\ rows' \subseteq RowType /\ \A r, t \in rows' : r.id = t.id => r = t
           /\ Remarked(rows, rows')
<1> DEFINE M(r) == IF r.id = id THEN [r EXCEPT !.active = status] ELSE r
<1>1. \A r \in rows : /\ M(r) \in RowType /\ M(r).id = r.id /\ M(r).sn = r.sn
                      /\ M(r).good = r.good /\ M(r).charges = r.charges
  BY DEF RowType
<1>2. rows' = {M(r) : r \in rows}
  BY DEF SetActive
<1> HIDE DEF M
<1>3. rows' \subseteq RowType
  BY <1>1, <1>2
<1>4. ASSUME NEW r \in rows', NEW t \in rows', r.id = t.id PROVE r = t
  <2>1. PICK a \in rows : r = M(a)
    BY <1>2
  <2>2. PICK c \in rows : t = M(c)
    BY <1>2
  <2> QED
    BY <1>1, <1>4, <2>1, <2>2
<1>5. Remarked(rows, rows')
  BY <1>1, <1>2 DEF Remarked
<1> QED
  BY <1>3, <1>4, <1>5

\* The initial state.
LEMMA TypedInit == Init => Typed
<1> SUFFICES ASSUME Init PROVE Typed
  OBVIOUS
<1> USE Constants
<1>1. seller \in Places /\ (seller = "Offline" => Cardinality(Goods) <= MaxListings) /\ Cardinality(Goods) \in Nat
  BY ShopAssumption, FS_CardinalityType DEF Init
<1> DEFINE n == Cardinality(Goods)
<1>2. PICK nth \in Bijection(Goods, 1 .. n) : InitItems(nth)
  BY DEF Init
<1> HIDE DEF n
<1>3. /\ nth \in [Goods -> 1 .. n]
      /\ \A g, h \in Goods : nth[g] = nth[h] => g = h
  BY <1>2 DEF Bijection, Injection, IsInjective
<1>4. /\ bag \in [Goods -> Nat] /\ last_id \in 0 .. MaxListings
      /\ rows \subseteq RowType /\ \A r \in rows : r.id <= last_id
      /\ \A r, t \in rows : r.id = t.id => r = t
  <2>1. CASE seller = "Offline"
    <3>1. bag = [g \in Goods |-> 0] /\ last_id = n /\ rows = {Row(nth[g], nth[g], g, Stack[g]) : g \in Goods}
      BY <1>2, <2>1 DEF InitItems, n
    <3>2. \A g \in Goods : nth[g] \in 1 .. MaxListings /\ nth[g] <= n
      BY <1>1, <1>3, <2>1 DEF n
    <3>3. n \in 0 .. MaxListings
      BY <1>1, <2>1 DEF n
    <3>4. ASSUME NEW g \in Goods PROVE Row(nth[g], nth[g], g, Stack[g]) \in RowType
      BY <3>2 DEF Row, RowType
    <3>5. \A g \in Goods : Row(nth[g], nth[g], g, Stack[g]).id = nth[g]
      BY DEF Row
    <3>6. bag \in [Goods -> Nat] /\ last_id \in 0 .. MaxListings
      BY <3>1, <3>3
    <3>7. rows \subseteq RowType /\ \A r \in rows : r.id <= last_id
      BY <3>1, <3>2, <3>4, <3>5
    <3>8. \A r, t \in rows : r.id = t.id => r = t
      BY <1>3, <3>1, <3>5
    <3> QED
      BY <3>6, <3>7, <3>8
  <2>2. CASE seller # "Offline"
    BY <1>2, <2>2 DEF InitItems
  <2> QED
    BY <2>1, <2>2
<1>5. step = [p \in Players |-> Idle] /\ world = Idle /\ shopsn = last_id + 1
  BY DEF Init
<1>6. Handlers
  BY <1>5 DEF Handlers
<1>7. Numbers
  BY <1>4, <1>5, <1>6, FS_EmptySet DEF Numbers, Counter, In, Idle, Init
<1>8. TypeOK
  <2>1. DOMAIN step = Players /\ (\A p \in Players : step[p].pc \in StepType) /\ world.pc \in {"Idle", "Banking"}
    BY <1>6, StepsTyped
  <2>2. shopsn \in 1 .. MaxListings + 1
    BY <1>4, <1>5
  <2>3. /\ parcels \in [Buyers -> [Goods -> Nat]] /\ purse \in [Players -> Nat]
        /\ escrow = 0 /\ sold = 0 /\ crashes = 0 /\ trader = FALSE /\ to_world = {} /\ to_zone = {}
        /\ twice = {} /\ interrupted = FALSE
    BY DEF Init
  <2>4. {escrow, sold, crashes} \subseteq Nat /\ trader \in BOOLEAN /\ to_world \cup to_zone \subseteq PurchaseType
    <3>1. escrow \in Nat /\ sold \in Nat /\ crashes \in Nat
      BY <2>3
    <3>2. to_world \cup to_zone = {}
      BY <2>3
    <3>3. trader \in BOOLEAN
      BY <2>3
    <3> QED
      BY <3>1, <3>2, <3>3
  <2> QED
    BY <1>1, <1>4, <2>1, <2>2, <2>3, <2>4 DEF TypeOK
<1> QED
  BY <1>6, <1>7, <1>8 DEF Typed

\* A step of a buyer's handler that leaves the seller's alone keeps the numbers, if the rows
\* keep their ids and the row it has read is one that has been given an id.
LEMMA BuyerNumbers ==
    ASSUME Typed, NEW b \in Buyers, \A p \in Players \ {b} : step'[p] = step[p],
           step'[b] # Idle => step'[b].row.id <= last_id,
           rows' \subseteq RowType, \A r, t \in rows' : r.id = t.id => r = t,
           \A r \in rows' : r.id <= last_id,
           UNCHANGED <<shopsn, last_id>>, IsFiniteSet(to_world'), IsFiniteSet(to_zone')
    PROVE  Numbers'
<1>1. Seller \in Players \ {b} /\ Buyers \subseteq Players
  BY Constants
<1>2. Counter' = Counter
  BY <1>1 DEF Counter, In
<1> QED
  BY <1>1, <1>2 DEF Numbers, Typed

\* ... and the bound of the ids.
LEMMA RemarkedIds ==
    ASSUME NEW R, NEW Q, Remarked(R, Q), NEW n, \A r \in R : r.id <= n
    PROVE  \A q \in Q : q.id <= n
BY DEF Remarked

\* A buyer.
LEMMA TypedBuy ==
    ASSUME Typed, NEW b \in Buyers, Buy(b) PROVE Typed'
<1>1. PICK r \in rows : \E qty \in IF r.good \in Stackable THEN 1 .. r.charges ELSE {1} :
                           Goto(b, [pc |-> "Read", row |-> r, qty |-> qty])
  BY DEF Buy
<1>2. PICK qty \in IF r.good \in Stackable THEN 1 .. r.charges ELSE {1} :
        Goto(b, [pc |-> "Read", row |-> r, qty |-> qty])
  BY <1>1
<1> DEFINE v == [pc |-> "Read", row |-> r, qty |-> qty]
<1>3. r \in RowType /\ r.charges \in Nat \ {0} /\ r.id <= last_id
  BY DEF Typed, TypeOK, RowType, Numbers
<1>4. qty \in Nat \ {0} /\ qty <= r.charges
  BY <1>2, <1>3
<1>5. v \in BuyerSteps /\ v.qty <= v.row.charges /\ v.row.id <= last_id
  BY <1>3, <1>4 DEF BuyerSteps
<1> HIDE DEF v
<1>6. Handlers' /\ step'[b] = v /\ \A p \in Players \ {b} : step'[p] = step[p]
  BY <1>2, <1>5, BuyerGoes DEF Typed, Buy, presence, wires, v
<1>7. UNCHANGED <<items, coin, presence, wires, crashes, history>>
  BY DEF Buy
<1>8. Numbers'
  BY <1>5, <1>6, <1>7, BuyerNumbers DEF Typed, TypeOK, Numbers, items, wires
<1>9. TypeOK'
  BY <1>6, <1>7, StepsTyped DEF Typed, TypeOK, items, coin, presence, wires, history
<1> QED
  BY <1>6, <1>8, <1>9 DEF Typed

\* A buyer's handler goes on with the copy it has.
LEMMA BuyerOn ==
    ASSUME Typed, NEW b \in Buyers, step[b].pc # "Idle",
           NEW pc \in {"Read", "Marked", "Paid", "Delivered", "Taken"},
           Goto(b, [step[b] EXCEPT !.pc = pc]), seller' = seller, world' = world
    PROVE  /\ Handlers' /\ \A p \in Players \ {b} : step'[p] = step[p]
           /\ step'[b].pc = pc /\ step'[b].row = step[b].row /\ step'[b].qty = step[b].qty
           /\ step'[b] # Idle /\ step'[b].row.id <= last_id
<1> DEFINE v == [step[b] EXCEPT !.pc = pc]
<1>1. step[b] \in BuyerSteps /\ step[b] # Idle /\ step[b].qty <= step[b].row.charges /\ step[b].row.id <= last_id
  BY BuyerIn DEF Typed, Numbers
<1>2. v \in BuyerSteps /\ v.pc = pc /\ v.row = step[b].row /\ v.qty = step[b].qty /\ v # Idle
  BY <1>1 DEF BuyerSteps, Idle
<1> HIDE DEF v
<1> QED
  BY <1>1, <1>2, BuyerGoes DEF Typed, v

\* A buyer's handler that ends leaves the others typed.
LEMMA BuyerEnds ==
    ASSUME Typed, NEW b \in Buyers, Goto(b, Idle), seller' = seller, world' = world
    PROVE  Handlers' /\ (\A p \in Players \ {b} : step'[p] = step[p]) /\ step'[b] = Idle
BY BuyerGoes DEF Typed

\* Each step of a buyer's handler keeps the types.
LEMMA TypedMarkActive ==
    ASSUME Typed, NEW b \in Buyers, MarkActive(b) PROVE Typed'
<1>1. /\ step[b].pc = "Read" /\ SetActive(step[b].row.id, TRUE)
      /\ Goto(b, [step[b] EXCEPT !.pc = "Marked"])
      /\ UNCHANGED <<bag, shopsn, last_id, parcels, coin, presence, wires, crashes, history>>
  BY DEF MarkActive, In
<1>2. Handlers' /\ (\A p \in Players \ {b} : step'[p] = step[p]) /\ step'[b].row.id <= last_id
  BY <1>1, BuyerOn DEF presence, wires
<1>3. /\ rows' \subseteq RowType /\ \A r, t \in rows' : r.id = t.id => r = t
      /\ \A r \in rows' : r.id <= last_id
  BY <1>1, Marking, RemarkedIds DEF Typed, TypeOK, Numbers
<1>4. Numbers'
  BY <1>1, <1>2, <1>3, BuyerNumbers DEF Typed, Numbers, wires
<1>5. TypeOK'
  BY <1>1, <1>2, <1>3, StepsTyped DEF Typed, TypeOK, coin, presence, wires, history
<1> QED
  BY <1>2, <1>4, <1>5 DEF Typed

LEMMA TypedTakeMoney ==
    ASSUME Typed, NEW b \in Buyers, TakeMoney(b) PROVE Typed'
<1>1. /\ step[b].pc = "Marked" /\ purse[b] >= step[b].qty
      /\ purse' = [purse EXCEPT ![b] = @ - step[b].qty]
      /\ Goto(b, [step[b] EXCEPT !.pc = "Paid"])
      /\ UNCHANGED <<items, escrow, sold, presence, wires, crashes, history>>
  BY DEF TakeMoney, In
<1>2. Handlers' /\ (\A p \in Players \ {b} : step'[p] = step[p]) /\ step'[b].row.id <= last_id
  BY <1>1, BuyerOn DEF presence, wires
<1>3. Numbers'
  BY <1>1, <1>2, BuyerNumbers DEF Typed, TypeOK, Numbers, wires, items
<1>4. purse' \in [Players -> Nat]
  <2>1. step[b].qty \in Nat /\ b \in Players /\ purse \in [Players -> Nat]
    BY <1>1, BuyerIn, Constants DEF Typed, TypeOK
  <2>2. purse[b] - step[b].qty \in Nat
    BY <1>1, <2>1
  <2> QED
    BY <1>1, <2>1, <2>2
<1>5. TypeOK'
  BY <1>1, <1>2, <1>4, StepsTyped DEF Typed, TypeOK, items, presence, wires, history
<1> QED
  BY <1>2, <1>3, <1>5 DEF Typed

LEMMA TypedRefuse ==
    ASSUME Typed, NEW b \in Buyers, RefuseBuyer(b) \/ LoseParcel(b) PROVE Typed'
<1>1. /\ step[b].pc # "Idle" /\ SetActive(step[b].row.id, FALSE) /\ Goto(b, Idle)
      /\ UNCHANGED <<bag, shopsn, last_id, parcels, coin, presence, wires, history>>
      /\ crashes' \in {crashes, crashes + 1}
  BY DEF RefuseBuyer, LoseParcel, In
<1>2. Handlers' /\ (\A p \in Players \ {b} : step'[p] = step[p]) /\ step'[b] = Idle
  BY <1>1, BuyerEnds DEF presence, wires
<1>3. /\ rows' \subseteq RowType /\ \A r, t \in rows' : r.id = t.id => r = t
      /\ \A r \in rows' : r.id <= last_id
  BY <1>1, Marking, RemarkedIds DEF Typed, TypeOK, Numbers
<1>4. Numbers'
  BY <1>1, <1>2, <1>3, BuyerNumbers DEF Typed, Numbers, wires
<1>5. TypeOK'
  BY <1>1, <1>2, <1>3, StepsTyped DEF Typed, TypeOK, coin, presence, wires, history
<1> QED
  BY <1>2, <1>4, <1>5 DEF Typed

LEMMA TypedSendParcel ==
    ASSUME Typed, NEW b \in Buyers, SendParcel(b) PROVE Typed'
<1>1. /\ step[b].pc = "Paid"
      /\ parcels' = [parcels EXCEPT ![b][step[b].row.good] = @ + step[b].qty]
      /\ Goto(b, [step[b] EXCEPT !.pc = "Delivered"])
      /\ UNCHANGED <<bag, rows, shopsn, last_id, coin, presence, wires, crashes, history>>
  BY DEF SendParcel, In
<1>2. Handlers' /\ (\A p \in Players \ {b} : step'[p] = step[p]) /\ step'[b].row.id <= last_id
  BY <1>1, BuyerOn DEF presence, wires
<1>3. Numbers'
  BY <1>1, <1>2, BuyerNumbers DEF Typed, TypeOK, Numbers, wires
<1>4. parcels' \in [Buyers -> [Goods -> Nat]]
  <2>1. step[b].qty \in Nat /\ step[b].row.good \in Goods /\ parcels \in [Buyers -> [Goods -> Nat]]
    BY <1>1, BuyerIn DEF Typed, TypeOK, RowType
  <2> QED
    BY <1>1, <2>1
<1>5. TypeOK'
  BY <1>1, <1>2, <1>4, StepsTyped DEF Typed, TypeOK, coin, presence, wires, history
<1> QED
  BY <1>2, <1>3, <1>5 DEF Typed

\* What TakeOffShop leaves of the rows: it takes one off or writes new charges into one.
LEMMA TakenOff ==
    ASSUME Typed, NEW b \in Buyers, TakeOffShop(b)
    PROVE  /\ rows' \subseteq RowType /\ \A r, t \in rows' : r.id = t.id => r = t
           /\ \A t \in rows' : \E r \in rows : t.id = r.id /\ t.sn = r.sn /\ t.good = r.good
<1> DEFINE row == step[b].row
           qty == step[b].qty
           left == row.charges - qty
           W(r) == IF r.sn = row.sn THEN [r EXCEPT !.charges = left] ELSE r
<1>1. /\ rows \subseteq RowType /\ \A r, t \in rows : r.id = t.id => r = t
      /\ row \in RowType /\ qty \in Nat \ {0}
  BY BuyerIn DEF Typed, TypeOK, Numbers, TakeOffShop, In
<1>2. CASE rows' \subseteq rows
  BY <1>1, <1>2
<1>3. CASE ~(row.charges <= qty) /\ rows' = {W(r) : r \in rows}
  <2>1. left \in Nat \ {0}
    BY <1>1, <1>3 DEF RowType
  <2>2. \A r \in rows : W(r) \in RowType /\ W(r).id = r.id /\ W(r).sn = r.sn /\ W(r).good = r.good
    BY <1>1, <2>1 DEF RowType
  <2> HIDE DEF W
  <2>3. ASSUME NEW r \in rows', NEW t \in rows', r.id = t.id PROVE r = t
    <3>1. PICK a \in rows : r = W(a)
      BY <1>3
    <3>2. PICK c \in rows : t = W(c)
      BY <1>3
    <3> QED
      BY <1>1, <2>2, <2>3, <3>1, <3>2
  <2> QED
    BY <1>3, <2>2, <2>3
<1>4. rows' \subseteq rows \/ (~(row.charges <= qty) /\ rows' = {W(r) : r \in rows})
  BY DEF TakeOffShop
<1> QED
  BY <1>2, <1>3, <1>4

LEMMA TypedTakeOff ==
    ASSUME Typed, NEW b \in Buyers, TakeOffShop(b) PROVE Typed'
<1>1. /\ step[b].pc = "Delivered" /\ sold' = sold + step[b].qty
      /\ Goto(b, [step[b] EXCEPT !.pc = "Taken"])
      /\ UNCHANGED <<bag, shopsn, last_id, parcels, purse, escrow, presence, wires, crashes, history>>
  BY DEF TakeOffShop, In
<1>2. Handlers' /\ (\A p \in Players \ {b} : step'[p] = step[p]) /\ step'[b].row.id <= last_id
  BY <1>1, BuyerOn DEF presence, wires
<1>3. rows' \subseteq RowType /\ \A r, t \in rows' : r.id = t.id => r = t
  BY TakenOff
<1>4. \A r \in rows' : r.id <= last_id
  BY TakenOff DEF Typed, Numbers
<1>5. Numbers'
  BY <1>1, <1>2, <1>3, <1>4, BuyerNumbers DEF Typed, TypeOK, Numbers, wires
<1>6. sold' \in Nat
  <2>1. step[b].qty \in Nat /\ sold \in Nat
    BY <1>1, BuyerIn DEF Typed, TypeOK
  <2> QED
    BY <1>1, <2>1
<1>7. TypeOK'
  BY <1>1, <1>2, <1>3, <1>6, StepsTyped DEF Typed, TypeOK, presence, wires, history
<1> QED
  BY <1>2, <1>5, <1>7 DEF Typed

LEMMA TypedTellWorld ==
    ASSUME Typed, NEW b \in Buyers, TellWorld(b) PROVE Typed'
<1>1. /\ step[b].pc = "Taken" /\ to_world' = to_world \cup {Purchase(b)} /\ Goto(b, Idle)
      /\ UNCHANGED <<items, coin, presence, world, to_zone, crashes, history>>
  BY DEF TellWorld, In
<1>2. Handlers' /\ (\A p \in Players \ {b} : step'[p] = step[p]) /\ step'[b] = Idle
  BY <1>1, BuyerEnds DEF presence
<1>3. Purchase(b) \in PurchaseType
  BY <1>1, BuyerIn DEF Typed, TypeOK, Purchase, PurchaseType, RowType
<1>4. IsFiniteSet(to_world')
  BY <1>1, FS_AddElement DEF Typed, Numbers
<1>5. Numbers'
  BY <1>1, <1>2, <1>4, BuyerNumbers DEF Typed, TypeOK, Numbers, items
<1>6. TypeOK'
  BY <1>1, <1>2, <1>3, StepsTyped DEF Typed, TypeOK, items, coin, presence, history
<1> QED
  BY <1>2, <1>5, <1>6 DEF Typed

\* A step of the seller's handler keeps the numbers, if the rows keep their ids and the counter
\* stays within them.
LEMMA SellerNumbers ==
    ASSUME Typed, \A b \in Buyers : step'[b] = step[b],
           \A r, t \in rows' : r.id = t.id => r = t, \A r \in rows' : r.id <= last_id',
           last_id \in Nat, last_id' \in Nat, last_id <= last_id', Counter' <= last_id' + 1, shopsn' <= last_id' + 1,
           UNCHANGED <<to_world, to_zone>>
    PROVE  Numbers'
<1>1. \A b \in Buyers : step'[b] # Idle => step'[b].row.id <= last_id'
  <2> SUFFICES ASSUME NEW b \in Buyers, step[b] # Idle PROVE step[b].row.id <= last_id'
    OBVIOUS
  <2>1. step[b].row.id \in Nat /\ step[b].row.id <= last_id
    BY DEF Typed, Handlers, Numbers, BuyerSteps, RowType
  <2> QED
    BY <2>1
<1> QED
  BY <1>1 DEF Typed, Numbers

\* What AddItemsToShop does with a list.
Lists(n, list) ==
    /\ last_id + n <= MaxListings
    /\ rows' = rows \cup
         {Row(last_id + i, shopsn + i - 1, list[i], bag[list[i]]) : i \in 1 .. n}
    /\ last_id' = last_id + n
    /\ Goto(Seller, [pc |-> "Inserted", slots |-> Range(list), next_sn |-> shopsn + n])
    /\ twice' = twice \cup
         {g \in Goods : \E i, j \in 1 .. n : i # j /\ list[i] = g /\ list[j] = g}

\* The entries of the list are items of the bags.
LEMMA Listing ==
    ASSUME Typed, AddItemsToShop
    PROVE  \E n \in Nat \ {0} : \E list \in [1 .. n -> Goods] :
              Lists(n, list) /\ \A i \in 1 .. n : bag[list[i]] \in Nat \ {0}
<1>1. PICK n \in 1 .. ShopMax - Cardinality(rows) :
         \E list \in [1 .. n -> {g \in Goods : bag[g] > 0}] : Lists(n, list)
  BY DEF AddItemsToShop, Lists
<1>2. PICK list \in [1 .. n -> {g \in Goods : bag[g] > 0}] : Lists(n, list)
  BY <1>1
<1>3. n \in Nat \ {0}
  <2>1. Cardinality(rows) \in Nat
    BY RowsFinite, FS_CardinalityType DEF Typed, TypeOK, Numbers
  <2> QED
    BY <2>1, Constants
<1>4. \A i \in 1 .. n : list[i] \in {g \in Goods : bag[g] > 0}
  BY <1>2
<1>5. list \in [1 .. n -> Goods]
  BY <1>2
<1>6. \A i \in 1 .. n : bag[list[i]] \in Nat \ {0}
  BY <1>4 DEF Typed, TypeOK
<1> QED
  BY <1>2, <1>3, <1>5, <1>6

\* The seller.
LEMMA TypedAdd ==
    ASSUME Typed, AddItemsToShop PROVE Typed'
<1> USE Constants
<1>0. PICK n \in Nat \ {0} : \E list \in [1 .. n -> Goods] :
              Lists(n, list) /\ \A i \in 1 .. n : bag[list[i]] \in Nat \ {0}
  BY Listing
<1>1. PICK list \in [1 .. n -> Goods] : Lists(n, list) /\ \A i \in 1 .. n : bag[list[i]] \in Nat \ {0}
  BY <1>0
<1> DEFINE v == [pc |-> "Inserted", slots |-> Range(list), next_sn |-> shopsn + n]
<1>2. n \in Nat \ {0} /\ \A i \in 1 .. n : list[i] \in Goods /\ bag[list[i]] \in Nat \ {0}
  BY <1>1
<1>3. Range(list) \subseteq Goods
  BY <1>1, <1>2 DEF Range
<1>4. /\ seller = "InZone" /\ step[Seller] = Idle
      /\ UNCHANGED <<bag, shopsn, parcels, coin, presence, wires, crashes, interrupted>>
  BY DEF AddItemsToShop, MayStart, Process
<1>5. /\ last_id \in 0 .. MaxListings /\ shopsn \in 1 .. MaxListings + 1 /\ shopsn <= last_id + 1
      /\ rows \subseteq RowType /\ \A r \in rows : r.id <= last_id
      /\ \A r, t \in rows : r.id = t.id => r = t
  BY DEF Typed, TypeOK, Numbers
<1>6. last_id + n <= MaxListings /\ last_id' = last_id + n /\ Goto(Seller, v)
  BY <1>1 DEF Lists
<1>7. twice' \subseteq Goods
  BY <1>1 DEF Lists, Typed, TypeOK
<1>8. v \in SellerSteps
  <2>1. shopsn + n \in 1 .. MaxListings + 1
    BY <1>2, <1>5, <1>6
  <2> QED
    BY <1>3, <2>1 DEF SellerSteps
<1> DEFINE New(i) == Row(last_id + i, shopsn + i - 1, list[i], bag[list[i]])
<1>9. \A i \in 1 .. n : /\ New(i) \in RowType /\ New(i).id = last_id + i
                        /\ New(i).id > last_id /\ New(i).id <= last_id'
  <2> SUFFICES ASSUME NEW i \in 1 .. n
               PROVE  /\ New(i) \in RowType /\ New(i).id = last_id + i
                      /\ New(i).id > last_id /\ New(i).id <= last_id'
    OBVIOUS
  <2>1. last_id + i \in 1 .. MaxListings /\ shopsn + i - 1 \in 1 .. MaxListings
    BY <1>2, <1>5, <1>6
  <2>2. last_id + i > last_id /\ last_id + i <= last_id'
    BY <1>2, <1>5, <1>6
  <2> QED
    BY <1>2, <2>1, <2>2 DEF Row, RowType
<1>10. rows' = rows \cup {New(i) : i \in 1 .. n}
  BY <1>1 DEF Lists
<1> HIDE DEF New, v
<1>11. rows' \subseteq RowType /\ \A r \in rows' : r.id <= last_id'
  <2>1. \A r \in rows : r.id \in Nat /\ r.id <= last_id'
    <3> SUFFICES ASSUME NEW r \in rows PROVE r.id \in Nat /\ r.id <= last_id'
      OBVIOUS
    <3>1. r.id \in Nat /\ r.id <= last_id
      BY <1>5 DEF RowType
    <3> QED
      BY <1>2, <1>5, <1>6, <3>1
  <2> QED
    BY <1>5, <1>9, <1>10, <2>1
<1>12. ASSUME NEW r \in rows', NEW t \in rows', r.id = t.id PROVE r = t
  <2>1. \A a \in rows, i \in 1 .. n : a.id # New(i).id
    <3> SUFFICES ASSUME NEW a \in rows, NEW i \in 1 .. n PROVE a.id # New(i).id
      OBVIOUS
    <3>1. a \in RowType /\ New(i) \in RowType /\ a.id <= last_id /\ New(i).id > last_id
      BY <1>5, <1>9
    <3>2. a.id \in Nat /\ New(i).id \in Nat
      BY <3>1 DEF RowType
    <3> QED
      BY <1>5, <3>1, <3>2
  <2>2. ASSUME NEW i \in 1 .. n, NEW j \in 1 .. n, New(i).id = New(j).id PROVE New(i) = New(j)
    <3>1. last_id + i = last_id + j
      BY <1>9, <2>2
    <3>2. i = j
      BY <1>5, <3>1
    <3> QED
      BY <3>2
  <2>3. CASE r \in rows /\ t \in rows
    BY <1>5, <1>12, <2>3
  <2>4. CASE r \notin rows /\ t \notin rows
    BY <1>10, <1>12, <2>2, <2>4
  <2> QED
    BY <1>10, <1>12, <2>1, <2>3, <2>4
<1>13. Handlers' /\ step'[Seller] = v /\ \A b \in Buyers : step'[b] = step[b]
  BY <1>4, <1>6, <1>8, SellerGoes DEF Typed, presence, wires
<1>14. Counter' = shopsn + n
  BY <1>13 DEF Counter, In, v
<1>15. Counter' <= last_id' + 1 /\ shopsn' <= last_id' + 1 /\ last_id' \in 0 .. MaxListings /\ last_id <= last_id'
  BY <1>2, <1>4, <1>5, <1>6, <1>14
<1>16. Numbers'
  BY <1>4, <1>5, <1>11, <1>12, <1>13, <1>15, SellerNumbers DEF wires
<1>17. TypeOK'
  BY <1>4, <1>7, <1>11, <1>13, <1>15, StepsTyped DEF Typed, TypeOK, coin, presence, wires
<1> QED
  BY <1>13, <1>16, <1>17 DEF Typed

\* Steps of the seller's handler that leave the ids and the counter alone.
LEMMA SellerSame ==
    ASSUME Typed, Handlers', \A b \in Buyers : step'[b] = step[b],
           \A r, t \in rows' : r.id = t.id => r = t, \A r \in rows' : r.id <= last_id,
           UNCHANGED <<shopsn, last_id, to_world, to_zone>>,
           In(Seller, "Inserted")' => In(Seller, "Inserted") /\ step'[Seller].next_sn = step[Seller].next_sn
    PROVE  Numbers'
<1>1. last_id \in Nat /\ Counter <= last_id + 1 /\ shopsn <= last_id + 1
  BY Constants DEF Typed, TypeOK, Numbers
<1>2. Counter' <= last_id + 1
  BY <1>1 DEF Counter, In
<1> QED
  BY <1>1, <1>2, SellerNumbers

\* So does each of the seller's, ...
LEMMA TypedEscrow ==
    ASSUME Typed, EscrowItem PROVE Typed'
<1> USE Constants
<1>1. In(Seller, "Inserted") /\ UNCHANGED <<rows, shopsn, last_id, parcels, coin, presence, wires, crashes, history>>
  BY DEF EscrowItem
<1>2. PICK g \in step[Seller].slots :
         /\ bag' = [bag EXCEPT ![g] = 0]
         /\ step' = [step EXCEPT ![Seller].slots = @ \ {g}]
  BY DEF EscrowItem
<1> DEFINE v == [step[Seller] EXCEPT !.slots = @ \ {g}]
<1>3. step[Seller] \in [pc : {"Inserted"}, slots : SUBSET Goods, next_sn : 1 .. MaxListings + 1] /\ seller = "InZone"
  BY <1>1, SellerIn DEF Typed, In
<1>4. v \in SellerSteps /\ v.next_sn = step[Seller].next_sn
  BY <1>3 DEF SellerSteps
<1>5. Goto(Seller, v)
  BY <1>2 DEF Goto
<1> HIDE DEF v
<1>6. Handlers' /\ step'[Seller] = v /\ \A b \in Buyers : step'[b] = step[b]
  BY <1>1, <1>3, <1>4, <1>5, SellerGoes DEF Typed, presence, wires
<1>7. Numbers'
  BY <1>1, <1>4, <1>6, SellerSame DEF Typed, Numbers, wires
<1>8. bag' \in [Goods -> Nat]
  BY <1>2 DEF Typed, TypeOK
<1>9. TypeOK'
  BY <1>1, <1>6, <1>8, StepsTyped DEF Typed, TypeOK, coin, presence, wires, history
<1> QED
  BY <1>6, <1>7, <1>9 DEF Typed

LEMMA TypedSave ==
    ASSUME Typed, SaveSerial PROVE Typed'
<1> USE Constants
<1>1. /\ In(Seller, "Inserted") /\ shopsn' = step[Seller].next_sn /\ trader' = TRUE /\ Goto(Seller, Idle)
      /\ UNCHANGED <<bag, rows, last_id, parcels, coin, seller, wires, crashes, history>>
  BY DEF SaveSerial
<1>2. step[Seller] \in [pc : {"Inserted"}, slots : SUBSET Goods, next_sn : 1 .. MaxListings + 1]
  BY <1>1, SellerIn DEF Typed, In
<1>3. Handlers' /\ step'[Seller] = Idle /\ \A b \in Buyers : step'[b] = step[b]
  BY <1>1, SellerGoes DEF Typed, wires
<1>4. Counter' = shopsn' /\ Counter = shopsn' /\ shopsn' \in 1 .. MaxListings + 1
  BY <1>1, <1>2, <1>3 DEF Counter, In, Idle
<1>5. last_id \in Nat /\ Counter <= last_id + 1
  BY DEF Typed, TypeOK, Numbers
<1>6. Numbers'
  BY <1>1, <1>3, <1>4, <1>5, SellerNumbers DEF Typed, Numbers, wires
<1>7. TypeOK'
  BY <1>1, <1>3, <1>4, StepsTyped DEF Typed, TypeOK, coin, wires, history
<1> QED
  BY <1>3, <1>6, <1>7 DEF Typed

LEMMA TypedPull ==
    ASSUME Typed, PullShopItem PROVE Typed'
<1> USE Constants
<1>1. seller = "InZone" /\ UNCHANGED <<rows, shopsn, last_id, parcels, coin, presence, wires, crashes, history>>
  BY DEF PullShopItem
<1>2. PICK r \in rows : bag' = [bag EXCEPT ![r.good] = @ + r.charges] /\ Goto(Seller, [pc |-> "Pulled", id |-> r.id])
  BY DEF PullShopItem
<1>3. r \in RowType /\ r.charges \in Nat /\ r.id \in 1 .. MaxListings /\ r.good \in Goods
  BY DEF Typed, TypeOK, RowType
<1> DEFINE v == [pc |-> "Pulled", id |-> r.id]
<1>4. v \in SellerSteps /\ v.pc = "Pulled"
  BY <1>3 DEF SellerSteps
<1> HIDE DEF v
<1>5. Handlers' /\ step'[Seller] = v /\ \A b \in Buyers : step'[b] = step[b]
  BY <1>1, <1>2, <1>4, SellerGoes DEF Typed, presence, wires, v
<1>6. Numbers'
  BY <1>1, <1>4, <1>5, SellerSame DEF Typed, Numbers, wires, In
<1>7. bag' \in [Goods -> Nat]
  BY <1>2, <1>3 DEF Typed, TypeOK
<1>8. TypeOK'
  BY <1>1, <1>5, <1>7, StepsTyped DEF Typed, TypeOK, coin, presence, wires, history
<1> QED
  BY <1>5, <1>6, <1>8 DEF Typed

LEMMA TypedDelete ==
    ASSUME Typed, DeletePulled PROVE Typed'
<1>1. /\ rows' \subseteq rows /\ Goto(Seller, Idle)
      /\ UNCHANGED <<bag, shopsn, last_id, parcels, coin, seller, wires, crashes, history>>
  BY DEF DeletePulled
<1>2. trader' \in BOOLEAN
  BY DEF DeletePulled, Typed, TypeOK
<1>3. Handlers' /\ step'[Seller] = Idle /\ \A b \in Buyers : step'[b] = step[b]
  BY <1>1, SellerGoes DEF Typed, wires
<1>4. Numbers'
  BY <1>1, <1>3, SellerSame DEF Typed, Numbers, wires, In, Idle
<1>5. TypeOK'
  BY <1>1, <1>2, <1>3, StepsTyped DEF Typed, TypeOK, coin, wires, history
<1> QED
  BY <1>3, <1>4, <1>5 DEF Typed

LEMMA TypedMove ==
    ASSUME Typed, Move PROVE Typed'
<1>1. rows' = {} /\ trader' = FALSE /\ UNCHANGED <<bag, shopsn, last_id, parcels, coin, seller, step, wires, crashes, history>>
  BY DEF Move
<1>2. Handlers'
  BY <1>1 DEF Typed, Handlers, wires
<1>3. Numbers'
  BY <1>1 DEF Typed, Numbers, Counter, In, wires
<1>4. TypeOK'
  BY <1>1, <1>2, StepsTyped DEF Typed, TypeOK, coin, wires, history
<1> QED
  BY <1>2, <1>3, <1>4 DEF Typed

\* The bucket and the login.
LEMMA TypedEscrowRead ==
    ASSUME Typed, LookIntoEscrow \/ ClearEscrow \/ GrantEscrow PROVE Typed'
<1> USE Constants
<1>1. /\ ~In(Seller, "Idle") /\ UNCHANGED <<items, sold, presence, wires, crashes, history>>
  BY DEF LookIntoEscrow, ClearEscrow, GrantEscrow, coin, In
<1>2. seller = "InZone"
  BY <1>1, SellerIn DEF Typed, In
<1>3. /\ escrow' \in Nat /\ purse' \in [Players -> Nat]
      /\ \E v \in SellerSteps \cup {Idle} : Goto(Seller, v) /\ v.pc # "Inserted"
  <2>1. CASE LookIntoEscrow
    <3> DEFINE v == [pc |-> "EscrowRead", amount |-> escrow]
    <3>1. escrow \in Nat /\ purse \in [Players -> Nat]
      BY DEF Typed, TypeOK
    <3>2. escrow # 0 => v \in SellerSteps
      BY <3>1 DEF SellerSteps
    <3>3. Idle.pc # "Inserted" /\ v.pc # "Inserted"
      BY DEF Idle
    <3> HIDE DEF v
    <3>4. Goto(Seller, IF escrow = 0 THEN Idle ELSE v)
      BY <2>1 DEF LookIntoEscrow, v
    <3> QED
      BY <2>1, <3>1, <3>2, <3>3, <3>4 DEF LookIntoEscrow, coin
  <2>2. CASE ClearEscrow
    <3> DEFINE v == [step[Seller] EXCEPT !.pc = "EscrowCleared"]
    <3>1. step[Seller] \in [pc : {"EscrowRead", "EscrowCleared"}, amount : Nat \ {0}]
      BY <2>2, SellerIn DEF Typed, ClearEscrow
    <3>2. v \in SellerSteps /\ v.pc # "Inserted"
      BY <3>1 DEF SellerSteps
    <3>3. Goto(Seller, v)
      BY <2>2 DEF ClearEscrow, Goto
    <3> HIDE DEF v
    <3> QED
      BY <2>2, <3>2, <3>3 DEF ClearEscrow, Typed, TypeOK
  <2>3. CASE GrantEscrow
    <3>1. step[Seller].amount \in Nat /\ purse \in [Players -> Nat] /\ escrow \in Nat
      BY <2>3, SellerIn DEF Typed, TypeOK, GrantEscrow
    <3>2. Idle.pc # "Inserted" /\ Goto(Seller, Idle) /\ escrow' = escrow
      BY <2>3 DEF Idle, GrantEscrow
    <3>3. purse' \in [Players -> Nat]
      BY <2>3, <3>1 DEF GrantEscrow
    <3> QED
      BY <3>1, <3>2, <3>3
  <2> QED
    BY <2>1, <2>2, <2>3
<1>4. PICK v \in SellerSteps \cup {Idle} : Goto(Seller, v) /\ v.pc # "Inserted"
  BY <1>3
<1>5. Handlers' /\ step'[Seller] = v /\ \A b \in Buyers : step'[b] = step[b]
  BY <1>1, <1>2, <1>4, SellerGoes DEF Typed, presence, wires
<1>6. Numbers'
  BY <1>1, <1>4, <1>5, SellerSame DEF Typed, Numbers, items, wires, In
<1>7. TypeOK'
  BY <1>1, <1>3, <1>5, StepsTyped DEF Typed, TypeOK, items, presence, wires, history
<1> QED
  BY <1>5, <1>6, <1>7 DEF Typed

\* A step in which no player's handler takes part keeps the numbers, if the rows keep their ids.
LEMMA OthersNumbers ==
    ASSUME Typed, UNCHANGED <<step, shopsn, last_id>>,
           \A r, t \in rows' : r.id = t.id => r = t, \A r \in rows' : r.id <= last_id,
           IsFiniteSet(to_world'), IsFiniteSet(to_zone')
    PROVE  Numbers'
BY DEF Typed, Numbers, Counter, In

\* The world.
LEMMA TypedRoute ==
    ASSUME Typed, RoutePurchase \/ DropPurchase PROVE Typed'
<1>1. /\ UNCHANGED <<items, coin, presence, step, world, crashes, history>>
      /\ \E m \in to_world \cup to_zone : /\ to_world' \in {to_world, to_world \ {m}}
                                          /\ to_zone' \in {to_zone \cup {m}, to_zone \ {m}}
  BY DEF RoutePurchase, DropPurchase
<1>2. PICK m \in to_world \cup to_zone : /\ to_world' \in {to_world, to_world \ {m}}
                                         /\ to_zone' \in {to_zone \cup {m}, to_zone \ {m}}
  BY <1>1
<1>3. IsFiniteSet(to_world') /\ IsFiniteSet(to_zone')
  BY <1>2, FS_AddElement, FS_RemoveElement DEF Typed, Numbers
<1>4. Handlers'
  BY <1>1 DEF Typed, Handlers, presence
<1>5. Numbers'
  BY <1>1, <1>3, OthersNumbers DEF Typed, Numbers, items
<1>6. to_world' \cup to_zone' \subseteq PurchaseType
  BY <1>2 DEF Typed, TypeOK
<1>7. TypeOK'
  BY <1>1, <1>4, <1>6, StepsTyped DEF Typed, TypeOK, items, coin, presence, history
<1> QED
  BY <1>4, <1>5, <1>7 DEF Typed

\* ... each of the world's, and whatever happens to the seller and to a process.
LEMMA TypedReadEscrow ==
    ASSUME Typed, ReadEscrow PROVE Typed'
<1>1. PICK m \in to_world : /\ to_world' = to_world \ {m}
                            /\ world' = [pc |-> "Banking", qty |-> m.qty, banked |-> escrow]
  BY DEF ReadEscrow
<1>2. UNCHANGED <<items, coin, presence, step, to_zone, crashes, history>>
  BY DEF ReadEscrow
<1>3. m.qty \in Nat \ {0} /\ escrow \in Nat
  BY DEF Typed, TypeOK, PurchaseType
<1>4. world' \in WorldSteps
  BY <1>1, <1>3 DEF WorldSteps
<1>5. IsFiniteSet(to_world') /\ IsFiniteSet(to_zone')
  BY <1>1, <1>2, FS_RemoveElement DEF Typed, Numbers
<1>6. Handlers'
  BY <1>2, <1>4 DEF Typed, Handlers, presence
<1>7. Numbers'
  BY <1>2, <1>5, OthersNumbers DEF Typed, Numbers, items
<1>8. TypeOK'
  BY <1>1, <1>2, <1>6, StepsTyped DEF Typed, TypeOK, items, coin, presence, history
<1> QED
  BY <1>6, <1>7, <1>8 DEF Typed

LEMMA TypedBank ==
    ASSUME Typed, BankPrice PROVE Typed'
<1>1. /\ world.pc = "Banking" /\ escrow' = world.banked + world.qty /\ world' = Idle
      /\ UNCHANGED <<items, purse, sold, presence, step, to_world, to_zone, crashes, history>>
  BY DEF BankPrice
<1>2. world.banked \in Nat /\ world.qty \in Nat
  BY <1>1 DEF Typed, Handlers, Idle, WorldSteps
<1>3. Handlers'
  BY <1>1 DEF Typed, Handlers, presence
<1>4. Numbers'
  BY <1>1, OthersNumbers DEF Typed, Numbers, items
<1>5. escrow' \in Nat
  BY <1>1, <1>2
<1>6. TypeOK'
  BY <1>1, <1>3, <1>5, StepsTyped DEF Typed, TypeOK, items, presence, history
<1> QED
  BY <1>3, <1>4, <1>6 DEF Typed

\* The payment.
LEMMA TypedPay ==
    ASSUME Typed, PaySeller PROVE Typed'
<1> USE Constants
<1>1. PICK m \in to_zone :
         /\ to_zone' = to_zone \ {m}
         /\ SetActive(m.id, FALSE)
         /\ purse' = [purse EXCEPT ![Seller] = @ + m.qty]
         /\ \/ UNCHANGED bag
            \/ /\ SerialsMeet
               /\ \E g \in {g \in Goods : bag[g] > 0} :
                    bag' = [bag EXCEPT ![g] = IF @ > m.qty THEN @ - m.qty ELSE 0]
  BY DEF PaySeller
<1>2. UNCHANGED <<shopsn, last_id, parcels, escrow, sold, presence, step, world, to_world, crashes, history>>
  BY DEF PaySeller
<1>3. m.qty \in Nat /\ bag \in [Goods -> Nat] /\ purse \in [Players -> Nat]
  BY DEF Typed, TypeOK, PurchaseType
<1>4. purse' \in [Players -> Nat] /\ bag' \in [Goods -> Nat]
  <2>1. purse' \in [Players -> Nat]
    BY <1>1, <1>3
  <2>2. ASSUME NEW g \in Goods, bag' = [bag EXCEPT ![g] = IF @ > m.qty THEN @ - m.qty ELSE 0]
        PROVE  bag' \in [Goods -> Nat]
    <3>1. bag[g] > m.qty => bag[g] - m.qty \in Nat
      BY <1>3
    <3> QED
      BY <1>3, <2>2, <3>1
  <2> QED
    BY <1>1, <1>3, <2>1, <2>2
<1>5. IsFiniteSet(to_zone')
  BY <1>1, FS_RemoveElement DEF Typed, Numbers
<1>6. /\ rows' \subseteq RowType /\ \A r, t \in rows' : r.id = t.id => r = t
      /\ \A r \in rows' : r.id <= last_id
  BY <1>1, Marking, RemarkedIds DEF Typed, TypeOK, Numbers
<1>7. Handlers'
  BY <1>2 DEF Typed, Handlers, presence
<1>8. Numbers'
  BY <1>2, <1>5, <1>6, OthersNumbers DEF Typed, Numbers
<1>9. to_world' \cup to_zone' \subseteq PurchaseType
  BY <1>1, <1>2 DEF Typed, TypeOK
<1>10. TypeOK'
  BY <1>2, <1>4, <1>6, <1>7, <1>9, StepsTyped DEF Typed, TypeOK, presence, history
<1> QED
  BY <1>7, <1>8, <1>10 DEF Typed

\* The seller comes and goes.
LEMMA TypedPresence ==
    ASSUME Typed, Login \/ ZoneOut \/ Disconnect \/ Forget PROVE Typed'
<1> USE Constants
<1>1. /\ UNCHANGED <<items, coin, step, wires, crashes, history>> /\ step[Seller] = Idle
      /\ seller' \in Places /\ trader' \in BOOLEAN
  <2>1. seller # "InZone" => step[Seller] = Idle
    BY DEF Typed, Handlers
  <2>2. trader \in BOOLEAN
    BY DEF Typed, TypeOK
  <2> QED
    BY <2>1, <2>2 DEF Login, ZoneOut, Disconnect, Forget, MayStart, Process, Places
<1>2. Handlers'
  BY <1>1 DEF Typed, Handlers, wires
<1>3. Numbers'
  BY <1>1, OthersNumbers DEF Typed, Numbers, items, wires
<1>4. TypeOK'
  BY <1>1, <1>2, StepsTyped DEF Typed, TypeOK, items, coin, wires, history
<1> QED
  BY <1>2, <1>3, <1>4 DEF Typed

LEMMA TypedArrive ==
    ASSUME Typed, Arrive PROVE Typed'
<1> USE Constants
<1>1. UNCHANGED <<items, coin, trader, wires, crashes, history>> /\ seller' = "InZone"
  BY DEF Arrive
<1>2. Handlers' /\ Numbers'
  <2>1. CASE seller = "Entering"
    <3> DEFINE v == [pc |-> "PayEscrow"]
    <3>1. v \in SellerSteps /\ Goto(Seller, v)
      BY <2>1 DEF Arrive, SellerSteps
    <3>2. v.pc # "Inserted"
      OBVIOUS
    <3> HIDE DEF v
    <3>3. Handlers' /\ step'[Seller] = v /\ \A b \in Buyers : step'[b] = step[b]
      BY <1>1, <3>1, SellerGoes DEF Typed, wires
    <3>4. Numbers'
      BY <1>1, <3>2, <3>3, SellerSame DEF Typed, Numbers, items, wires, In
    <3> QED
      BY <3>3, <3>4
  <2>2. CASE seller # "Entering"
    <3>1. step' = step
      BY <2>2 DEF Arrive
    <3>2. Handlers'
      BY <1>1, <3>1 DEF Typed, Handlers, wires
    <3>3. Numbers'
      BY <1>1, <3>1, OthersNumbers DEF Typed, Numbers, items, wires
    <3> QED
      BY <3>2, <3>3
  <2> QED
    BY <2>1, <2>2
<1>3. TypeOK'
  BY <1>1, <1>2, StepsTyped DEF Typed, TypeOK, items, coin, wires, Places, history
<1> QED
  BY <1>2, <1>3 DEF Typed

LEMMA TypedCrash ==
    ASSUME Typed, NEW p \in Players, Crash(p) PROVE Typed'
<1> USE Constants
<1>1. /\ crashes' = crashes + 1 /\ UNCHANGED <<items, coin, wires, twice>> /\ interrupted' \in BOOLEAN
      /\ step' = [q \in Players |-> IF q \in Process(p) THEN Idle ELSE step[q]]
  BY DEF Crash, Typed, TypeOK
<1>2. \A q \in Players : step'[q] = step[q] \/ step'[q] = Idle
  BY <1>1
<1>3. step'[Seller] # Idle => step'[Seller] = step[Seller] /\ seller' = seller
  <2>1. Seller \notin Process(p) => seller' = seller
    BY DEF Crash, presence
  <2> QED
    BY <1>1, <2>1
<1>4. step' \in [Players -> {Idle} \cup BuyerSteps \cup SellerSteps]
  <2> DEFINE S == {Idle} \cup BuyerSteps \cup SellerSteps
  <2>1. Idle \in S /\ step \in [Players -> S]
    BY DEF Typed, Handlers
  <2> HIDE DEF S
  <2>2. step' \in [Players -> S]
    BY <1>1, <2>1
  <2> QED
    BY <2>2 DEF S
<1>5. \A b \in Buyers : step'[b] # Idle => step'[b] = step[b]
  BY <1>2
<1>6. Handlers'
  BY <1>1, <1>3, <1>4, <1>5 DEF Typed, Handlers, wires
<1>7. Counter' \in {Counter, shopsn}
  BY <1>1, <1>2 DEF Counter, In, Idle, items
<1>8. Numbers'
  BY <1>1, <1>5, <1>7 DEF Typed, Numbers, items, wires
<1>9. seller' \in Places /\ trader' \in BOOLEAN /\ crashes' \in Nat
  <2>1. seller \in Places /\ trader \in BOOLEAN /\ crashes \in Nat
    BY DEF Typed, TypeOK
  <2>2. crashes' \in Nat
    BY <1>1, <2>1
  <2>3. \/ seller' = "Left" /\ trader' = FALSE
        \/ UNCHANGED presence
    BY DEF Crash
  <2>4. "Left" \in Places
    BY DEF Places
  <2> QED
    BY <2>1, <2>2, <2>3, <2>4 DEF presence
<1>10. TypeOK'
  BY <1>1, <1>6, <1>9, StepsTyped DEF Typed, TypeOK, items, coin, wires, history
<1> QED
  BY <1>6, <1>8, <1>10 DEF Typed

\* The steps of one buyer, and every step.
BuyerStep(b) == \/ Buy(b) \/ MarkActive(b) \/ TakeMoney(b) \/ RefuseBuyer(b)
                \/ SendParcel(b) \/ LoseParcel(b) \/ TakeOffShop(b) \/ TellWorld(b)

\* Every step keeps the types and the ids.
LEMMA TypedStep == Typed /\ [Next]_vars => Typed'
<1> SUFFICES ASSUME Typed, [Next]_vars PROVE Typed'
  OBVIOUS
<1>1. ASSUME NEW b \in Buyers, BuyerStep(b) PROVE Typed'
  BY <1>1, TypedBuy, TypedMarkActive, TypedTakeMoney, TypedRefuse, TypedSendParcel, TypedTakeOff, TypedTellWorld
     DEF BuyerStep
<1>2. ASSUME NEW p \in Players, Crash(p) PROVE Typed'
  BY <1>2, TypedCrash
<1>3. CASE UNCHANGED vars
  <2>1. UNCHANGED <<bag, rows, shopsn, last_id, parcels, purse, escrow, sold, seller, trader, step,
                    world, to_world, to_zone, crashes, history>>
    BY <1>3 DEF vars, items, coin, presence, wires
  <2>2. Handlers'
    BY <2>1 DEF Typed, Handlers
  <2>3. Numbers'
    BY <2>1 DEF Typed, Numbers, Counter, In
  <2>4. TypeOK'
    BY <2>1, <2>2, StepsTyped DEF Typed, TypeOK, history
  <2> QED
    BY <2>2, <2>3, <2>4 DEF Typed
<1> QED
  BY <1>1, <1>2, <1>3, TypedAdd, TypedEscrow, TypedSave, TypedPull, TypedDelete, TypedMove, TypedRoute,
     TypedReadEscrow, TypedBank, TypedPay, TypedEscrowRead, TypedPresence, TypedArrive
     DEF Next, BuyerStep

\* Every variable of the shop has its type, whatever the constants.
THEOREM TypeCorrect == Spec => []TypeOK
<1>1. Spec => []Typed
  BY TypedInit, TypedStep, PTL DEF Spec
<1>2. Typed => TypeOK
  BY DEF Typed
<1> QED
  BY <1>1, <1>2, PTL

-------------------------------------------------------------------------------
(* Serials. *)

Reading(b) == step[b] # Idle

\* The rows of the shop, and the copies of rows that buyers' handlers hold.
Known == rows \cup {step[b].row : b \in {b \in Buyers : Reading(b)}}

\* The counter is past every serial that is known, also those of rows that are gone while a
\* purchase still holds a copy; a serial, like an id, says which listing is meant.
Serials ==
    /\ \A r \in Known : r.sn < Counter
    /\ \A r, t \in Known : /\ r.sn = t.sn <=> r.id = t.id
                           /\ r.id = t.id => r.good = t.good

\* Two states of one listing.
SameListing(r, t) == r.id = t.id /\ r.sn = t.sn /\ r.good = t.good

\* No process dies between the insertion of rows and the saving of the counter: the handler
\* goes on, or the counter is saved.
ListingsFinish == In(Seller, "Inserted") =>
                      In(Seller, "Inserted")' \/ shopsn' = step[Seller].next_sn

\* The rows are listings there were before the step.
LEMMA RowsKnown ==
    ASSUME Typed, [Next]_vars, ~AddItemsToShop
    PROVE  \A t \in rows' : \E r \in rows : SameListing(r, t)
<1>1. \A R, Q : Remarked(R, Q) => \A t \in Q : \E r \in R : SameListing(r, t)
  BY DEF Remarked, SameListing
<1>2. ASSUME rows' \subseteq rows PROVE \A t \in rows' : \E r \in rows : SameListing(r, t)
  BY <1>2 DEF SameListing
<1>3. ASSUME NEW id, NEW status \in BOOLEAN, SetActive(id, status)
      PROVE  \A t \in rows' : \E r \in rows : SameListing(r, t)
  <2>1. Remarked(rows, rows')
    BY <1>3, Marking DEF Typed, TypeOK, Numbers
  <2> QED
    BY <1>1, <2>1
<1>4. ASSUME NEW b \in Buyers, BuyerStep(b)
      PROVE  \A t \in rows' : \E r \in rows : SameListing(r, t)
  <2>1. CASE Buy(b) \/ TakeMoney(b) \/ SendParcel(b) \/ TellWorld(b)
    BY <1>2, <2>1 DEF Buy, TakeMoney, SendParcel, TellWorld, items
  <2>2. CASE MarkActive(b)
    BY <1>3, <2>2 DEF MarkActive
  <2>3. CASE RefuseBuyer(b) \/ LoseParcel(b)
    BY <1>3, <2>3 DEF RefuseBuyer, LoseParcel
  <2>4. CASE TakeOffShop(b)
    BY <2>4, TakenOff DEF SameListing
  <2> QED
    BY <1>4, <2>1, <2>2, <2>3, <2>4 DEF BuyerStep
<1>5. CASE PaySeller
  BY <1>3, <1>5 DEF PaySeller
<1>6. ASSUME NEW p \in Players, Crash(p) PROVE rows' = rows
  BY <1>6 DEF Crash, items
<1>7. CASE \/ EscrowItem \/ SaveSerial \/ PullShopItem \/ RoutePurchase \/ ReadEscrow \/ BankPrice \/ DropPurchase
           \/ LookIntoEscrow \/ ClearEscrow \/ GrantEscrow \/ Login \/ Arrive \/ ZoneOut \/ Disconnect \/ Forget
           \/ UNCHANGED vars
  <2>1. rows' = rows
    BY <1>7 DEF EscrowItem, SaveSerial, PullShopItem, RoutePurchase, ReadEscrow, BankPrice, DropPurchase, LookIntoEscrow,
       ClearEscrow, GrantEscrow, Login, Arrive, ZoneOut, Disconnect, Forget, vars, items
  <2> QED
    BY <1>2, <2>1
<1>8. CASE DeletePulled \/ Move
  BY <1>2, <1>8 DEF DeletePulled, Move
<1> QED
  BY <1>2, <1>4, <1>5, <1>6, <1>7, <1>8 DEF Next, BuyerStep

\* A copy is the one the handler had, or it has just been read from the shop.
LEMMA CopiesKnown ==
    ASSUME Typed, [Next]_vars
    PROVE  \A b \in Buyers : Reading(b)' => \/ Reading(b) /\ step'[b].row = step[b].row
                                            \/ step'[b].row \in rows
<1> SUFFICES ASSUME NEW b \in Buyers, step'[b] # Idle
             PROVE  \/ Reading(b) /\ step'[b].row = step[b].row
                    \/ step'[b].row \in rows
  BY DEF Reading
<1>1. ASSUME step'[b] = step[b] PROVE Reading(b) /\ step'[b].row = step[b].row
  BY <1>1 DEF Reading
<1>2. ASSUME NEW c \in Buyers, BuyerStep(c)
      PROVE  \/ Reading(b) /\ step'[b].row = step[b].row
             \/ step'[b].row \in rows
  <2>1. b \in Players /\ c \in Players /\ step \in [Players -> {Idle} \cup BuyerSteps \cup SellerSteps]
    BY Constants DEF Typed, Handlers
  <2>2. CASE b # c
    <3>1. \A v : Goto(c, v) => step'[b] = step[b]
      BY <2>1, <2>2 DEF Goto
    <3> QED
      BY <1>1, <1>2, <3>1 DEF BuyerStep, Buy, MarkActive, TakeMoney, RefuseBuyer, SendParcel, LoseParcel, TakeOffShop, TellWorld
  <2>3. CASE b = c /\ Buy(c)
    <3>1. PICK r \in rows : \E qty \in IF r.good \in Stackable THEN 1 .. r.charges ELSE {1} :
                               Goto(b, [pc |-> "Read", row |-> r, qty |-> qty])
      BY <2>3 DEF Buy
    <3>2. \A qty : Goto(b, [pc |-> "Read", row |-> r, qty |-> qty]) => step'[b].row = r
      BY <2>1 DEF Goto
    <3> QED
      BY <3>1, <3>2
  <2>4. CASE b = c /\ (MarkActive(c) \/ TakeMoney(c) \/ SendParcel(c) \/ TakeOffShop(c))
    <3>1. step[b].pc # "Idle"
      BY <2>4 DEF MarkActive, TakeMoney, SendParcel, TakeOffShop, In
    <3>2. \A pc \in {"Read", "Marked", "Paid", "Delivered", "Taken"} : Goto(b, [step[b] EXCEPT !.pc = pc]) => step'[b].row = step[b].row
      <4>1. step[b] \in BuyerSteps
        BY <3>1, BuyerIn DEF Typed
      <4> QED
        BY <2>1, <4>1 DEF Goto, BuyerSteps
    <3>3. Reading(b)
      BY <3>1 DEF Reading, Idle
    <3> QED
      BY <2>4, <3>2, <3>3 DEF MarkActive, TakeMoney, SendParcel, TakeOffShop
  <2>5. CASE b = c /\ (RefuseBuyer(c) \/ LoseParcel(c) \/ TellWorld(c))
    <3>1. Goto(b, Idle)
      BY <2>5 DEF RefuseBuyer, LoseParcel, TellWorld
    <3> QED
      BY <2>1, <3>1 DEF Goto
  <2> QED
    BY <1>2, <2>2, <2>3, <2>4, <2>5 DEF BuyerStep
<1>3. ASSUME NEW p \in Players, Crash(p) PROVE step'[b] = step[b]
  <2>1. step'[b] = IF b \in Process(p) THEN Idle ELSE step[b]
    BY <1>3, Constants DEF Crash
  <2> QED
    BY <2>1
<1>4. CASE \/ AddItemsToShop \/ SaveSerial \/ PullShopItem \/ DeletePulled \/ LookIntoEscrow \/ GrantEscrow
           \/ EscrowItem \/ ClearEscrow \/ Arrive
  <2>1. \A v : Goto(Seller, v) => step'[b] = step[b]
    BY Constants DEF Typed, Handlers, Goto
  <2>2. EscrowItem \/ ClearEscrow => step'[b] = step[b]
    BY Constants DEF Typed, Handlers, EscrowItem, ClearEscrow
  <2> QED
    BY <1>1, <1>4, <2>1, <2>2 DEF AddItemsToShop, SaveSerial, PullShopItem, DeletePulled, LookIntoEscrow, GrantEscrow, Arrive
<1>5. CASE \/ Move \/ RoutePurchase \/ ReadEscrow \/ BankPrice \/ DropPurchase \/ PaySeller
           \/ Login \/ ZoneOut \/ Disconnect \/ Forget \/ UNCHANGED vars
  <2>1. step' = step
    BY <1>5 DEF Move, RoutePurchase, ReadEscrow, BankPrice, DropPurchase, PaySeller, Login, ZoneOut, Disconnect, Forget, vars
  <2> QED
    BY <1>1, <2>1
<1> QED
  BY <1>1, <1>2, <1>3, <1>4, <1>5 DEF Next, BuyerStep

\* The seller's handler is where it was, unless it has just listed or pulled.
LEMMA SellerStays ==
    ASSUME Typed, [Next]_vars
    PROVE  /\ In(Seller, "Inserted")' => \/ AddItemsToShop
                                         \/ /\ In(Seller, "Inserted") /\ step'[Seller].next_sn = step[Seller].next_sn
                                            /\ step'[Seller].slots \subseteq step[Seller].slots
           /\ In(Seller, "Pulled")' => PullShopItem \/ step'[Seller] = step[Seller]
<1>1. Seller \in Players /\ Seller \notin Buyers /\ step \in [Players -> {Idle} \cup BuyerSteps \cup SellerSteps]
  BY Constants DEF Typed, Handlers
<1>2. \A v : Goto(Seller, v) => step'[Seller] = v
  BY <1>1 DEF Goto
<1>3. CASE EscrowItem
  BY <1>1, <1>3, SellerIn DEF Typed, EscrowItem, In
<1>4. CASE ClearEscrow
  BY <1>1, <1>4, SellerIn DEF Typed, ClearEscrow, In
<1>5. CASE SaveSerial \/ DeletePulled \/ GrantEscrow
  BY <1>2, <1>5 DEF SaveSerial, DeletePulled, GrantEscrow, In, Idle
<1>6. CASE LookIntoEscrow
  <2>1. Goto(Seller, Idle) \/ Goto(Seller, [pc |-> "EscrowRead", amount |-> escrow])
    BY <1>6 DEF LookIntoEscrow
  <2> QED
    BY <1>2, <2>1 DEF In, Idle
<1>7. CASE Arrive
  <2>1. step' = step \/ Goto(Seller, [pc |-> "PayEscrow"])
    BY <1>7 DEF Arrive
  <2>2. [pc |-> "PayEscrow"].pc = "PayEscrow"
    OBVIOUS
  <2>3. CASE step' = step
    BY <2>3 DEF In
  <2>4. CASE step'[Seller] = [pc |-> "PayEscrow"]
    BY <2>2, <2>4 DEF In
  <2> QED
    BY <1>2, <2>1, <2>3, <2>4
<1>8. ASSUME NEW p \in Players, Crash(p) PROVE step'[Seller] = step[Seller] \/ step'[Seller] = Idle
  BY <1>1, <1>8 DEF Crash
<1>9. CASE \/ Move \/ RoutePurchase \/ ReadEscrow \/ BankPrice \/ DropPurchase \/ PaySeller
           \/ Login \/ ZoneOut \/ Disconnect \/ Forget \/ UNCHANGED vars
  <2>1. step' = step
    BY <1>9 DEF Move, RoutePurchase, ReadEscrow, BankPrice, DropPurchase, PaySeller, Login, ZoneOut, Disconnect, Forget, vars
  <2> QED
    BY <2>1 DEF In
<1>10. ASSUME NEW b \in Buyers, BuyerStep(b) PROVE step'[Seller] = step[Seller]
  <2>1. \E v : Goto(b, v)
    BY <1>10 DEF BuyerStep, Buy, MarkActive, TakeMoney, RefuseBuyer, SendParcel, LoseParcel, TakeOffShop, TellWorld
  <2> QED
    BY <1>1, <2>1 DEF Goto
<1>11. CASE AddItemsToShop
  <2>1. \E v : Goto(Seller, v) /\ v.pc = "Inserted"
    BY <1>11 DEF AddItemsToShop
  <2> QED
    BY <1>2, <1>11, <2>1 DEF In
<1>12. CASE PullShopItem
  <2>1. \E v : Goto(Seller, v) /\ v.pc = "Pulled"
    BY <1>12 DEF PullShopItem
  <2> QED
    BY <1>2, <1>12, <2>1 DEF In
<1>13. CASE \E b \in Buyers : BuyerStep(b)
  BY <1>10, <1>13 DEF In
<1>14. CASE \E p \in Players : Crash(p)
  BY <1>8, <1>14 DEF In, Idle
<1> QED
  BY <1>3, <1>4, <1>5, <1>6, <1>7, <1>9, <1>11, <1>12, <1>13, <1>14 DEF Next, BuyerStep

\* A listing finishes, or the death of its process is recorded for good.
LEMMA Finishes ==
    ASSUME Typed, [Next]_vars, ~interrupted'
    PROVE  ~interrupted /\ ListingsFinish
<1>1. Seller \in Players /\ Seller \notin Buyers /\ step \in [Players -> {Idle} \cup BuyerSteps \cup SellerSteps]
  BY Constants DEF Typed, Handlers
<1>2. ASSUME step'[Seller] = step[Seller] PROVE ListingsFinish
  BY <1>2 DEF ListingsFinish, In
<1>3. ASSUME NEW p \in Players, Crash(p) PROVE ~interrupted /\ ListingsFinish
  <2>1. step'[Seller] = IF Seller \in Process(p) THEN Idle ELSE step[Seller]
    BY <1>1, <1>3 DEF Crash
  <2>2. ~interrupted /\ ~(Seller \in Process(p) /\ In(Seller, "Inserted"))
    BY <1>3 DEF Crash
  <2> QED
    BY <1>2, <2>1, <2>2 DEF ListingsFinish
<1>4. CASE AddItemsToShop
  <2>1. step[Seller] = Idle
    BY <1>4, <1>1 DEF AddItemsToShop, MayStart, Process
  <2> QED
    BY <1>4, <2>1 DEF AddItemsToShop, ListingsFinish, In, Idle
<1>5. CASE EscrowItem
  <2>1. In(Seller, "Inserted") => In(Seller, "Inserted")'
    BY <1>1, <1>5, SellerIn DEF Typed, EscrowItem, In
  <2> QED
    BY <1>5, <2>1 DEF EscrowItem, ListingsFinish, history
<1>6. CASE SaveSerial
  BY <1>6 DEF SaveSerial, ListingsFinish, history
<1>7. CASE PullShopItem
  <2>1. step[Seller] = Idle
    BY <1>7, <1>1 DEF PullShopItem, MayStart, Process
  <2> QED
    BY <1>7, <2>1 DEF PullShopItem, ListingsFinish, In, Idle, history
<1>8. CASE DeletePulled \/ LookIntoEscrow \/ ClearEscrow \/ GrantEscrow
  BY <1>8 DEF DeletePulled, LookIntoEscrow, ClearEscrow, GrantEscrow, ListingsFinish, In, history
<1>9. CASE Arrive
  <2>1. step[Seller] = Idle
    BY <1>9, <1>1 DEF Arrive, MayStart, Process
  <2> QED
    BY <1>9, <2>1 DEF Arrive, ListingsFinish, In, Idle, history
<1>10. CASE \/ Move \/ RoutePurchase \/ ReadEscrow \/ BankPrice \/ DropPurchase \/ PaySeller
            \/ Login \/ ZoneOut \/ Disconnect \/ Forget \/ UNCHANGED vars
  <2>1. step' = step /\ UNCHANGED history
    BY <1>10 DEF Move, RoutePurchase, ReadEscrow, BankPrice, DropPurchase, PaySeller, Login, ZoneOut, Disconnect, Forget, vars
  <2> QED
    BY <1>2, <2>1 DEF history
<1>11. ASSUME NEW b \in Buyers, BuyerStep(b) PROVE ~interrupted /\ ListingsFinish
  <2>1. \E v : Goto(b, v) /\ UNCHANGED history
    BY <1>11 DEF BuyerStep, Buy, MarkActive, TakeMoney, RefuseBuyer, SendParcel, LoseParcel, TakeOffShop, TellWorld
  <2> QED
    BY <1>1, <1>2, <2>1 DEF Goto, history
<1> QED
  BY <1>3, <1>4, <1>5, <1>6, <1>7, <1>8, <1>9, <1>10, <1>11 DEF Next, BuyerStep

\* The counter only moves when items are listed, if listings finish.
LEMMA CounterSame ==
    ASSUME Typed, [Next]_vars, ~AddItemsToShop, ListingsFinish
    PROVE  Counter' = Counter
<1>1. shopsn' = shopsn \/ SaveSerial
  BY DEF Next, vars, items, EscrowItem, PullShopItem, DeletePulled, Move, Buy, MarkActive, TakeMoney, RefuseBuyer, SendParcel,
     LoseParcel, TakeOffShop, TellWorld, RoutePurchase, ReadEscrow, BankPrice, PaySeller, DropPurchase, LookIntoEscrow,
     ClearEscrow, GrantEscrow, Login, Arrive, ZoneOut, Disconnect, Forget, Crash
<1>2. In(Seller, "Inserted")' => In(Seller, "Inserted") /\ step'[Seller].next_sn = step[Seller].next_sn
  BY SellerStays
<1>3. CASE SaveSerial
  <2>1. step'[Seller] = Idle /\ In(Seller, "Inserted") /\ shopsn' = step[Seller].next_sn
    BY <1>3, Constants DEF SaveSerial, Goto, Typed, Handlers
  <2> QED
    BY <2>1 DEF Counter, In, Idle
<1>4. CASE shopsn' = shopsn
  BY <1>2, <1>4 DEF Counter, ListingsFinish
<1> QED
  BY <1>1, <1>3, <1>4

\* Listing items: their serials and ids are above all that are known.
LEMMA SerialsListed ==
    ASSUME Typed, Serials, AddItemsToShop PROVE Serials'
<1> USE Constants
<1>1. PICK n \in Nat \ {0} : \E list \in [1 .. n -> Goods] : Lists(n, list)
  BY Listing
<1>2. PICK list \in [1 .. n -> Goods] : Lists(n, list)
  BY <1>1
<1>3. /\ rows' = rows \cup {Row(last_id + i, shopsn + i - 1, list[i], bag[list[i]]) : i \in 1 .. n}
      /\ Goto(Seller, [pc |-> "Inserted", slots |-> Range(list), next_sn |-> shopsn + n])
  BY <1>2 DEF Lists
<1>5. Seller \in Players /\ step \in [Players -> {Idle} \cup BuyerSteps \cup SellerSteps] /\ step[Seller] = Idle
  BY DEF Typed, Handlers, AddItemsToShop, MayStart, Process
<1>6. Counter = shopsn /\ Counter' = shopsn + n
  BY <1>3, <1>5 DEF Counter, In, Idle, Goto
<1>7. \A b \in Buyers : step'[b] = step[b]
  BY <1>3, <1>5 DEF Goto
<1> DEFINE New == {Row(last_id + i, shopsn + i - 1, list[i], bag[list[i]]) : i \in 1 .. n}
<1>8. Known' = Known \cup New
  BY <1>3, <1>7 DEF Known, Reading
<1>9. last_id \in Nat /\ shopsn \in Nat
  BY DEF Typed, TypeOK
<1>10. \A r \in Known : r.sn \in Nat /\ r.id \in Nat /\ r.sn < shopsn /\ r.id <= last_id
  <2>1. \A r \in rows : r \in RowType /\ r.id <= last_id
    BY DEF Typed, TypeOK, Numbers
  <2>2. \A b \in Buyers : Reading(b) => step[b].row \in RowType /\ step[b].row.id <= last_id
    BY DEF Typed, Handlers, Numbers, Reading, BuyerSteps
  <2>3. \A r \in Known : r \in RowType /\ r.id <= last_id
    BY <2>1, <2>2 DEF Known
  <2> QED
    BY <1>6, <2>3 DEF Serials, RowType
<1>11. \A t \in New : t.sn \in Nat /\ t.id \in Nat /\ t.sn >= shopsn /\ t.sn < shopsn + n /\ t.id > last_id
  <2> SUFFICES ASSUME NEW i \in 1 .. n, NEW t, t = Row(last_id + i, shopsn + i - 1, list[i], bag[list[i]])
               PROVE  t.sn \in Nat /\ t.id \in Nat /\ t.sn >= shopsn /\ t.sn < shopsn + n /\ t.id > last_id
    OBVIOUS
  <2>1. t.sn = shopsn + i - 1 /\ t.id = last_id + i
    BY DEF Row
  <2> QED
    BY <1>2, <1>9, <2>1
<1>12. \A r, t \in New : (r.sn = t.sn <=> r.id = t.id) /\ (r.id = t.id => r.good = t.good)
  <2> SUFFICES ASSUME NEW i \in 1 .. n, NEW j \in 1 .. n,
                      NEW r, r = Row(last_id + i, shopsn + i - 1, list[i], bag[list[i]]),
                      NEW t, t = Row(last_id + j, shopsn + j - 1, list[j], bag[list[j]])
               PROVE  (r.sn = t.sn <=> r.id = t.id) /\ (r.id = t.id => r.good = t.good)
    OBVIOUS
  <2>1. /\ r.sn = shopsn + i - 1 /\ r.id = last_id + i /\ r.good = list[i]
        /\ t.sn = shopsn + j - 1 /\ t.id = last_id + j /\ t.good = list[j]
    BY DEF Row
  <2>2. r.id = t.id <=> i = j
    BY <1>9, <2>1
  <2>3. r.sn = t.sn <=> i = j
    BY <1>9, <2>1
  <2> QED
    BY <2>1, <2>2, <2>3
<1> HIDE DEF New
<1>13. \A r \in Known' : r.sn < Counter'
  BY <1>2, <1>6, <1>8, <1>9, <1>10, <1>11
<1>14. \A r \in Known, t \in New : r.sn # t.sn /\ r.id # t.id
  BY <1>9, <1>10, <1>11
<1>15. \A r, t \in Known' : (r.sn = t.sn <=> r.id = t.id) /\ (r.id = t.id => r.good = t.good)
  BY <1>8, <1>12, <1>14 DEF Serials
<1> QED
  BY <1>13, <1>15 DEF Serials

\* The rows a seller begins with have serials of their own.
LEMMA SerialsInit == Init => Serials
<1> SUFFICES ASSUME Init PROVE Serials
  OBVIOUS
<1> USE Constants
<1>1. Typed
  BY TypedInit
<1> DEFINE n == Cardinality(Goods)
<1>2. PICK nth \in Bijection(Goods, 1 .. n) : InitItems(nth)
  BY DEF Init
<1>3. n \in Nat
  BY FS_CardinalityType
<1> HIDE DEF n
<1>4. nth \in [Goods -> 1 .. n] /\ \A g, h \in Goods : nth[g] = nth[h] => g = h
  BY <1>2 DEF Bijection, Injection, IsInjective
<1>5. step = [p \in Players |-> Idle] /\ shopsn = last_id + 1
  BY DEF Init
<1>6. Known = rows /\ Counter = last_id + 1
  BY <1>5 DEF Known, Reading, Counter, In, Idle
<1>7. \A r \in rows : r.sn = r.id /\ r.id \in Nat /\ r.id <= last_id /\ last_id \in Nat
  <2>1. \A r \in rows : r.sn = r.id
    BY <1>2 DEF InitItems, Row
  <2> QED
    BY <1>1, <2>1 DEF Typed, TypeOK, RowType, Numbers
<1>8. \A r \in rows : r.sn < last_id + 1
  BY <1>7
<1> QED
  BY <1>1, <1>6, <1>7, <1>8 DEF Serials, Typed, Numbers

\* Every step keeps the serials apart but the death of a process in the middle of a listing.
LEMMA SerialsStep == Typed /\ Serials /\ [Next]_vars /\ ListingsFinish => Serials'
<1> SUFFICES ASSUME Typed, Serials, [Next]_vars, ListingsFinish, ~AddItemsToShop PROVE Serials'
  BY SerialsListed
<1>1. \A t \in Known' : \E r \in Known : SameListing(r, t)
  <2>1. \A t \in rows' : \E r \in Known : SameListing(r, t)
    BY RowsKnown DEF Known
  <2>2. ASSUME NEW b \in Buyers, step'[b] # Idle PROVE step'[b].row \in Known
    BY <2>2, CopiesKnown DEF Known, Reading
  <2> QED
    BY <2>1, <2>2 DEF Known, Reading, SameListing
<1>2. Counter' = Counter
  BY CounterSame
<1> QED
  BY <1>1, <1>2 DEF Serials, SameListing

\* The serials of the listings are unique whatever is listed, sold, pulled and listed again, in
\* any number of processes, until one dies between the insertion of rows and the saving of the
\* counter.
THEOREM SerialsUnique == Spec => []UniqueSerials
<1> DEFINE Unbroken == ~interrupted => Serials
<1>1. Typed /\ Unbroken => UniqueSerials
  BY DEF Typed, Serials, UniqueSerials, Known
<1>2. Typed /\ Unbroken /\ [Next]_vars => (Typed /\ Unbroken)'
  BY TypedStep, SerialsStep, Finishes
<1>3. Init => Typed /\ Unbroken
  BY TypedInit, SerialsInit
<1> HIDE DEF Unbroken
<1> QED
  BY <1>1, <1>2, <1>3, PTL DEF Spec

-------------------------------------------------------------------------------
(* Coin. *)

\* The coin of a set of messages, of the buyers' handlers that are at one of some places, of the
\* world's handler and of the seller's.
Qty(M)     == SumFunction([m \in M |-> m.qty])
Owes(P, s) == SumFunction([b \in Buyers |-> IF s[b].pc \in P THEN s[b].qty ELSE 0])
Banking(w) == IF w = Idle THEN 0 ELSE w.qty
Cleared(s) == IF s[Seller].pc = "EscrowCleared" THEN s[Seller].amount ELSE 0

\* What the seller has yet to get of the purchases the world has been told of.
Due == escrow + (Qty(to_world \cup to_zone) + Banking(world) + Cleared(step))

\* A message is in one place, and is told apart from every other by its buyer and number.
Messages ==
    /\ to_world \cap to_zone = {}
    /\ \A m \in to_world \cup to_zone : m.nth <= sold
    /\ \A b \in Buyers : In(b, "Taken") =>
           \A m \in to_world \cup to_zone : m.buyer = b => m.nth < sold

\* Who has read the bucket and not yet written it is alone with it.
Bucket ==
    /\ world # Idle => seller = "Offline" /\ world.banked = escrow
    /\ In(Seller, "EscrowRead") => escrow = step[Seller].amount

Copies(s) == \A b \in Buyers : s[b] = Idle \/ s[b].qty \in Nat

\* The quantities buyers' handlers hold are naturals.
LEMMA CopiesTyped ==
    /\ Handlers => Copies(step)
    /\ Handlers' => Copies(step')
BY DEF Handlers, Copies, BuyerSteps

\* What buyers' handlers hold at the steps P is a natural, ...
LEMMA OwesTyped ==
    ASSUME NEW P, "Idle" \notin P, NEW s, Copies(s)
    PROVE  [b \in Buyers |-> IF s[b].pc \in P THEN s[b].qty ELSE 0] \in [Buyers -> Nat] /\ Owes(P, s) \in Nat
<1>1. [b \in Buyers |-> IF s[b].pc \in P THEN s[b].qty ELSE 0] \in [Buyers -> Nat]
  BY DEF Copies, Idle
<1> QED
  BY <1>1, Total, Constants DEF Owes

\* ... changes as the one handler that goes on, ...
LEMMA OwesChanged ==
    ASSUME NEW P, "Idle" \notin P, NEW s, Copies(s), NEW t, Copies(t),
           NEW b \in Buyers, \A c \in Buyers \ {b} : t[c] = s[c]
    PROVE  Owes(P, t) = Owes(P, s) - (IF s[b].pc \in P THEN s[b].qty ELSE 0)
                                   + (IF t[b].pc \in P THEN t[b].qty ELSE 0)
<1> DEFINE f == [c \in Buyers |-> IF s[c].pc \in P THEN s[c].qty ELSE 0]
           g == [c \in Buyers |-> IF t[c].pc \in P THEN t[c].qty ELSE 0]
<1>1. f \in [Buyers -> Nat] /\ g \in [Buyers -> Nat]
  BY OwesTyped
<1>2. \A c \in Buyers : c # b => g[c] = f[c]
  OBVIOUS
<1>3. f[b] = (IF s[b].pc \in P THEN s[b].qty ELSE 0) /\ g[b] = (IF t[b].pc \in P THEN t[b].qty ELSE 0)
  OBVIOUS
<1>4. Owes(P, t) = SumFunction(g) /\ Owes(P, s) = SumFunction(f)
  BY DEF Owes
<1> HIDE DEF f, g
<1>5. f \in [Buyers -> Int] /\ g \in [Buyers -> Int]
  BY <1>1
<1>6. SumFunction(g) = SumFunction(f) - f[b] + g[b]
  BY <1>2, <1>5, TotalChanged, Constants
<1> QED
  BY <1>3, <1>4, <1>6

\* ... is the same if no buyer's handler goes on, ...
LEMMA OwesSame ==
    ASSUME NEW P, NEW s, NEW t, \A c \in Buyers : t[c] = s[c]
    PROVE  Owes(P, t) = Owes(P, s)
<1>1. [c \in Buyers |-> IF t[c].pc \in P THEN t[c].qty ELSE 0] = [c \in Buyers |-> IF s[c].pc \in P THEN s[c].qty ELSE 0]
  OBVIOUS
<1> QED
  BY <1>1 DEF Owes

\* ... and is not more when handlers end.
LEMMA OwesLess ==
    ASSUME NEW P, "Idle" \notin P, NEW s, Copies(s), NEW t, \A c \in Buyers : t[c] = s[c] \/ t[c] = Idle
    PROVE  Owes(P, t) <= Owes(P, s)
<1> DEFINE f == [c \in Buyers |-> IF s[c].pc \in P THEN s[c].qty ELSE 0]
           g == [c \in Buyers |-> IF t[c].pc \in P THEN t[c].qty ELSE 0]
<1>1. Copies(t)
  BY DEF Copies
<1>2. f \in [Buyers -> Nat] /\ g \in [Buyers -> Nat]
  BY <1>1, OwesTyped
<1>3. \A c \in Buyers : g[c] <= f[c]
  <2> SUFFICES ASSUME NEW c \in Buyers PROVE g[c] <= f[c]
    OBVIOUS
  <2>1. CASE t[c] = s[c]
    <3>1. g[c] = f[c] /\ f[c] \in Nat
      BY <1>2, <2>1
    <3> HIDE DEF f, g
    <3> QED
      BY <3>1
  <2>2. CASE t[c] = Idle
    <3>1. g[c] = 0 /\ f[c] \in Nat
      BY <1>2, <2>2 DEF Idle
    <3> HIDE DEF f, g
    <3> QED
      BY <3>1
  <2> QED
    BY <2>1, <2>2
<1>4. Owes(P, t) = SumFunction(g) /\ Owes(P, s) = SumFunction(f)
  BY DEF Owes
<1> HIDE DEF f, g
<1>5. f \in [Buyers -> Int] /\ g \in [Buyers -> Int]
  BY <1>2
<1> QED
  BY <1>3, <1>4, <1>5, TotalBelow, Constants

\* What messages carry is a natural, ...
LEMMA QtyTyped ==
    ASSUME NEW M \in SUBSET PurchaseType, IsFiniteSet(M)
    PROVE  Qty(M) \in Nat
<1>1. [m \in M |-> m.qty] \in [M -> Nat]
  BY DEF PurchaseType
<1> QED
  BY <1>1, Total DEF Qty

\* ... grows by what a message carries that is sent, ...
LEMMA QtyAdded ==
    ASSUME NEW M \in SUBSET PurchaseType, IsFiniteSet(M), NEW m \in PurchaseType, m \notin M
    PROVE  Qty(M \cup {m}) = Qty(M) + m.qty
<1> DEFINE f == [x \in M |-> x.qty]
           g == [x \in M \cup {m} |-> x.qty]
<1>1. f \in [M -> Int] /\ g \in [M \cup {m} -> Int] /\ (\A x \in M : g[x] = f[x]) /\ g[m] = m.qty
  BY DEF PurchaseType
<1>2. Qty(M \cup {m}) = SumFunction(g) /\ Qty(M) = SumFunction(f)
  BY DEF Qty
<1> HIDE DEF f, g
<1>3. SumFunction(g) = SumFunction(f) + g[m]
  BY <1>1, TotalAdded
<1> QED
  BY <1>1, <1>2, <1>3

\* ... and shrinks by what one carries that is taken.
LEMMA QtyTaken ==
    ASSUME NEW M \in SUBSET PurchaseType, IsFiniteSet(M), NEW m \in M
    PROVE  /\ Qty(M) = Qty(M \ {m}) + m.qty /\ Qty(M \ {m}) \in Nat
           /\ m \in PurchaseType /\ m.qty \in Nat
<1>1. M \ {m} \in SUBSET PurchaseType /\ IsFiniteSet(M \ {m}) /\ m \in PurchaseType /\ m \notin M \ {m}
  BY FS_RemoveElement
<1>2. (M \ {m}) \cup {m} = M
  OBVIOUS
<1>3. m.qty \in Nat
  BY DEF PurchaseType
<1> QED
  BY <1>1, <1>2, <1>3, QtyAdded, QtyTyped

\* The numbers, before a step and after it.
LEMMA CoinTyped ==
    /\ Typed => /\ escrow \in Nat /\ sold \in Nat /\ purse \in [Players -> Nat] /\ Banking(world) \in Nat /\ Cleared(step) \in Nat
                /\ to_world \cup to_zone \in SUBSET PurchaseType /\ IsFiniteSet(to_world \cup to_zone)
                /\ Qty(to_world \cup to_zone) \in Nat /\ Due \in Nat
    /\ Typed' => /\ escrow' \in Nat /\ sold' \in Nat /\ purse' \in [Players -> Nat] /\ Banking(world') \in Nat /\ Cleared(step') \in Nat
                 /\ to_world' \cup to_zone' \in SUBSET PurchaseType /\ IsFiniteSet(to_world' \cup to_zone')
                 /\ Qty(to_world' \cup to_zone') \in Nat /\ Due' \in Nat
<1>1. ASSUME Typed
      PROVE  /\ escrow \in Nat /\ sold \in Nat /\ purse \in [Players -> Nat] /\ Banking(world) \in Nat /\ Cleared(step) \in Nat
             /\ to_world \cup to_zone \in SUBSET PurchaseType /\ IsFiniteSet(to_world \cup to_zone)
  <2>1. escrow \in Nat /\ sold \in Nat /\ purse \in [Players -> Nat]
    BY <1>1 DEF Typed, TypeOK
  <2>2. Banking(world) \in Nat
    BY <1>1 DEF Typed, Handlers, Banking, WorldSteps
  <2>3. Cleared(step) \in Nat
    BY <1>1 DEF Typed, Handlers, Cleared, SellerSteps, Idle
  <2>4. to_world \cup to_zone \in SUBSET PurchaseType /\ IsFiniteSet(to_world \cup to_zone)
    BY <1>1, FS_Union DEF Typed, TypeOK, Numbers
  <2> QED
    BY <2>1, <2>2, <2>3, <2>4
<1>2. ASSUME Typed'
      PROVE  /\ escrow' \in Nat /\ sold' \in Nat /\ purse' \in [Players -> Nat] /\ Banking(world') \in Nat /\ Cleared(step') \in Nat
             /\ to_world' \cup to_zone' \in SUBSET PurchaseType /\ IsFiniteSet(to_world' \cup to_zone')
  <2>1. escrow' \in Nat /\ sold' \in Nat /\ purse' \in [Players -> Nat]
    BY <1>2 DEF Typed, TypeOK
  <2>2. Banking(world') \in Nat
    BY <1>2 DEF Typed, Handlers, Banking, WorldSteps
  <2>3. Cleared(step') \in Nat
    BY <1>2 DEF Typed, Handlers, Cleared, SellerSteps, Idle
  <2>4. to_world' \cup to_zone' \in SUBSET PurchaseType /\ IsFiniteSet(to_world' \cup to_zone')
    BY <1>2, FS_Union DEF Typed, TypeOK, Numbers
  <2> QED
    BY <2>1, <2>2, <2>3, <2>4
<1>3. Typed => Qty(to_world \cup to_zone) \in Nat
  BY <1>1, QtyTyped
<1>4. Typed' => Qty(to_world' \cup to_zone') \in Nat
  BY <1>2, QtyTyped
<1> QED
  BY <1>1, <1>2, <1>3, <1>4 DEF Due

\* Steps that touch no coin.
LEMMA CoinLeft ==
    ASSUME UNCHANGED <<coin, wires>>, Cleared(step') = Cleared(step),
           In(Seller, "EscrowRead")' => \/ In(Seller, "EscrowRead") /\ step'[Seller].amount = step[Seller].amount
                                        \/ step'[Seller].amount = escrow,
           \A b \in Buyers : In(b, "Taken")' => In(b, "Taken"),
           world # Idle /\ seller = "Offline" => seller' = "Offline"
    PROVE  Due' = Due /\ purse' = purse /\ sold' = sold /\ (Messages => Messages') /\ (Bucket => Bucket')
<1>1. UNCHANGED <<purse, escrow, sold, world, to_world, to_zone>>
  BY DEF coin, wires
<1>2. Due' = Due
  BY <1>1 DEF Due
<1>3. Messages => Messages'
  BY <1>1 DEF Messages
<1>4. Bucket => Bucket'
  BY <1>1 DEF Bucket
<1> QED
  BY <1>1, <1>2, <1>3, <1>4

\* The pcs between which a buyer's handler moves, seen from the others.
LEMMA BuyerMoves ==
    ASSUME Typed, NEW b \in Buyers, NEW v, Goto(b, v)
    PROVE  step'[b] = v /\ (\A c \in Buyers \ {b} : step'[c] = step[c]) /\ step'[Seller] = step[Seller]
BY Constants DEF Typed, Handlers, Goto

\* A step of the seller's handler is none of a buyer's.
LEMMA SellerMoves ==
    ASSUME Typed, NEW v, Goto(Seller, v)
    PROVE  step'[Seller] = v /\ \A c \in Buyers : step'[c] = step[c]
BY Constants DEF Typed, Handlers, Goto

\* Due, the messages and the bucket, where they stay as they are.
CoinKept == Due' = Due /\ purse' = purse /\ sold' = sold /\ (Messages => Messages') /\ (Bucket => Bucket')

\* The seller's steps, but those that clear and grant the escrow, leave the coin alone.
LEMMA CoinSeller ==
    ASSUME Typed, \/ AddItemsToShop \/ EscrowItem \/ SaveSerial \/ PullShopItem \/ DeletePulled \/ Move
                  \/ Arrive \/ Login \/ ZoneOut \/ Disconnect \/ Forget \/ LookIntoEscrow
    PROVE  CoinKept /\ \A b \in Buyers : step'[b] = step[b]
<1>1. UNCHANGED <<coin, wires>> /\ (world # Idle /\ seller = "Offline" => seller' = "Offline")
  <2>1. UNCHANGED <<coin, wires>>
    BY DEF AddItemsToShop, EscrowItem, SaveSerial, PullShopItem, DeletePulled, Move, Arrive, Login, ZoneOut, Disconnect, Forget, LookIntoEscrow
  <2>2. seller' = seller \/ Arrive \/ Login \/ ZoneOut \/ Disconnect \/ Forget
    BY DEF AddItemsToShop, EscrowItem, SaveSerial, PullShopItem, DeletePulled, Move, LookIntoEscrow, presence
  <2>3. world # Idle /\ seller = "Offline" => ~(Arrive \/ Login \/ ZoneOut \/ Disconnect \/ Forget)
    BY DEF Arrive, Login, ZoneOut, Disconnect, Forget
  <2> QED
    BY <2>1, <2>2, <2>3
<1>2. \/ step' = step
      \/ /\ \A b \in Buyers : step'[b] = step[b]
         /\ step[Seller].pc # "EscrowCleared" /\ step'[Seller].pc \notin {"EscrowCleared", "EscrowRead"}
      \/ /\ \A b \in Buyers : step'[b] = step[b]
         /\ step[Seller].pc # "EscrowCleared" /\ step'[Seller] = [pc |-> "EscrowRead", amount |-> escrow]
  <2>1. CASE AddItemsToShop \/ PullShopItem
    <3>1. step[Seller] = Idle
      BY <2>1, Constants DEF AddItemsToShop, PullShopItem, MayStart, Process
    <3>2. \E v : Goto(Seller, v) /\ v.pc \notin {"EscrowCleared", "EscrowRead"}
      <4>1. CASE AddItemsToShop
        BY <4>1 DEF AddItemsToShop
      <4>2. CASE PullShopItem
        BY <4>2 DEF PullShopItem
      <4> QED
        BY <2>1, <4>1, <4>2
    <3> QED
      BY <3>1, <3>2, SellerMoves DEF Idle
  <2>2. CASE EscrowItem
    <3>1. Seller \in Players /\ step \in [Players -> {Idle} \cup BuyerSteps \cup SellerSteps] /\ Seller \notin Buyers /\ Buyers \subseteq Players
      BY Constants DEF Typed, Handlers
    <3>2. step[Seller] \in [pc : {"Inserted"}, slots : SUBSET Goods, next_sn : 1 .. MaxListings + 1]
      BY <2>2, SellerIn DEF Typed, EscrowItem
    <3> QED
      BY <2>2, <3>1, <3>2 DEF EscrowItem
  <2>3. CASE SaveSerial \/ DeletePulled
    <3>1. Goto(Seller, Idle) /\ step[Seller].pc # "EscrowCleared"
      BY <2>3 DEF SaveSerial, DeletePulled, In
    <3> QED
      BY <3>1, SellerMoves DEF Idle
  <2>4. CASE LookIntoEscrow
    <3>1. Goto(Seller, Idle) \/ Goto(Seller, [pc |-> "EscrowRead", amount |-> escrow])
      BY <2>4 DEF LookIntoEscrow
    <3>2. step[Seller].pc # "EscrowCleared"
      BY <2>4 DEF LookIntoEscrow, In
    <3> QED
      BY <3>1, <3>2, SellerMoves DEF Idle
  <2>5. CASE Arrive
    <3>1. step' = step \/ Goto(Seller, [pc |-> "PayEscrow"])
      BY <2>5 DEF Arrive
    <3>2. step[Seller].pc # "EscrowCleared"
      BY <2>5, Constants DEF Arrive, MayStart, Process, Idle
    <3>3. [pc |-> "PayEscrow"].pc = "PayEscrow"
      OBVIOUS
    <3> QED
      BY <3>1, <3>2, <3>3, SellerMoves
  <2>6. CASE Move \/ Login \/ ZoneOut \/ Disconnect \/ Forget
    BY <2>6 DEF Move, Login, ZoneOut, Disconnect, Forget
  <2> QED
    BY <2>1, <2>2, <2>3, <2>4, <2>5, <2>6
<1>3. Cleared(step') = Cleared(step) /\ \A b \in Buyers : step'[b] = step[b]
  BY <1>2 DEF Cleared
<1>4. In(Seller, "EscrowRead")' => \/ In(Seller, "EscrowRead") /\ step'[Seller].amount = step[Seller].amount
                                   \/ step'[Seller].amount = escrow
  BY <1>2 DEF In
<1> QED
  BY <1>1, <1>3, <1>4, CoinLeft DEF CoinKept, In

\* A buyer's handler that touches no coin.
LEMMA CoinBuyer ==
    ASSUME Typed, NEW b \in Buyers,
           Buy(b) \/ MarkActive(b) \/ RefuseBuyer(b) \/ SendParcel(b) \/ LoseParcel(b)
    PROVE  /\ CoinKept /\ \A c \in Buyers \ {b} : step'[c] = step[c]
           /\ \/ step[b].pc \in {"Idle", "Read", "Marked"} /\ step'[b].pc \in {"Idle", "Read", "Marked"}
              \/ step[b].pc = "Paid" /\ step'[b].pc = "Delivered" /\ step'[b].qty = step[b].qty
              \/ step[b].pc = "Paid" /\ step'[b] = Idle
<1>1. UNCHANGED <<coin, wires, seller>>
  BY DEF Buy, MarkActive, RefuseBuyer, SendParcel, LoseParcel, presence
<1>2. \E v : Goto(b, v)
  BY DEF Buy, MarkActive, RefuseBuyer, SendParcel, LoseParcel
<1>3. (\A c \in Buyers \ {b} : step'[c] = step[c]) /\ step'[Seller] = step[Seller]
  BY <1>2, BuyerMoves
<1>4. \/ step[b].pc \in {"Idle", "Read", "Marked"} /\ step'[b].pc \in {"Idle", "Read", "Marked"}
      \/ step[b].pc = "Paid" /\ step'[b].pc = "Delivered" /\ step'[b].qty = step[b].qty
      \/ step[b].pc = "Paid" /\ step'[b] = Idle
  <2>1. CASE Buy(b)
    <3>1. step[b] = Idle
      BY <2>1, Constants DEF Buy, MayStart, Process
    <3>2. \E v : Goto(b, v) /\ v.pc = "Read"
      BY <2>1 DEF Buy
    <3> QED
      BY <3>1, <3>2, BuyerMoves DEF Idle
  <2>2. CASE MarkActive(b)
    <3>1. step[b].pc = "Read" /\ step[b] \in BuyerSteps
      BY <2>2, BuyerIn DEF MarkActive, In, Typed
    <3>2. step'[b] = [step[b] EXCEPT !.pc = "Marked"]
      BY <2>2, BuyerMoves DEF MarkActive
    <3> QED
      BY <3>1, <3>2 DEF BuyerSteps
  <2>3. CASE RefuseBuyer(b)
    BY <2>3, BuyerMoves DEF RefuseBuyer, In, Idle
  <2>4. CASE SendParcel(b)
    <3>1. step[b].pc = "Paid" /\ step[b] \in BuyerSteps
      BY <2>4, BuyerIn DEF SendParcel, In, Typed
    <3>2. step'[b] = [step[b] EXCEPT !.pc = "Delivered"]
      BY <2>4, BuyerMoves DEF SendParcel
    <3> QED
      BY <3>1, <3>2 DEF BuyerSteps
  <2>5. CASE LoseParcel(b)
    BY <2>5, BuyerMoves DEF LoseParcel, In
  <2> QED
    BY <2>1, <2>2, <2>3, <2>4, <2>5
<1>5. \A c \in Buyers : In(c, "Taken")' => In(c, "Taken")
  BY <1>3, <1>4 DEF In, Idle
<1>6. Cleared(step') = Cleared(step)
  BY <1>3 DEF Cleared
<1> QED
  BY <1>1, <1>3, <1>4, <1>5, <1>6, CoinLeft DEF CoinKept, In

\* The three steps of a purchase that move coin.
LEMMA CoinTakeMoney ==
    ASSUME Typed, NEW b \in Buyers, TakeMoney(b)
    PROVE  /\ Due' = Due /\ sold' = sold /\ (Messages => Messages') /\ (Bucket => Bucket')
           /\ purse' = [purse EXCEPT ![b] = @ - step[b].qty]
           /\ \A c \in Buyers \ {b} : step'[c] = step[c]
           /\ step[b].pc = "Marked" /\ step'[b].pc = "Paid" /\ step'[b].qty = step[b].qty
<1>1. /\ UNCHANGED <<escrow, sold, presence, wires>> /\ step[b].pc = "Marked"
      /\ purse' = [purse EXCEPT ![b] = @ - step[b].qty]
      /\ Goto(b, [step[b] EXCEPT !.pc = "Paid"])
  BY DEF TakeMoney, In
<1>2. step[b] \in BuyerSteps
  BY <1>1, BuyerIn DEF Typed
<1>3. step'[b] = [step[b] EXCEPT !.pc = "Paid"] /\ (\A c \in Buyers \ {b} : step'[c] = step[c]) /\ step'[Seller] = step[Seller]
  BY <1>1, BuyerMoves
<1>4. step'[b].pc = "Paid" /\ step'[b].qty = step[b].qty
  BY <1>2, <1>3 DEF BuyerSteps
<1>5. UNCHANGED <<escrow, sold, seller, world, to_world, to_zone>>
  BY <1>1 DEF presence, wires
<1>6. Due' = Due
  BY <1>3, <1>5 DEF Due, Cleared
<1>7. Messages => Messages'
  BY <1>3, <1>4, <1>5 DEF Messages, In
<1>8. Bucket => Bucket'
  BY <1>3, <1>5 DEF Bucket, In
<1> QED
  BY <1>1, <1>3, <1>4, <1>5, <1>6, <1>7, <1>8

\* A unit taken off the shop is one more sold, and its handler still owes its price.
LEMMA CoinTakeOff ==
    ASSUME Typed, NEW b \in Buyers, TakeOffShop(b)
    PROVE  /\ Due' = Due /\ purse' = purse /\ (Messages => Messages') /\ (Bucket => Bucket')
           /\ sold' = sold + step[b].qty
           /\ \A c \in Buyers \ {b} : step'[c] = step[c]
           /\ step[b].pc = "Delivered" /\ step'[b].pc = "Taken" /\ step'[b].qty = step[b].qty
<1>1. /\ UNCHANGED <<purse, escrow, presence, wires>> /\ step[b].pc = "Delivered"
      /\ sold' = sold + step[b].qty
      /\ Goto(b, [step[b] EXCEPT !.pc = "Taken"])
  BY DEF TakeOffShop, In
<1>2. step[b] \in BuyerSteps /\ step[b].qty \in Nat \ {0} /\ sold \in Nat
  BY <1>1, BuyerIn DEF Typed, TypeOK
<1>3. step'[b] = [step[b] EXCEPT !.pc = "Taken"] /\ (\A c \in Buyers \ {b} : step'[c] = step[c]) /\ step'[Seller] = step[Seller]
  BY <1>1, BuyerMoves
<1>4. step'[b].pc = "Taken" /\ step'[b].qty = step[b].qty
  BY <1>2, <1>3 DEF BuyerSteps
<1>5. UNCHANGED <<purse, escrow, seller, world, to_world, to_zone>>
  BY <1>1 DEF presence, wires
<1>6. Due' = Due
  BY <1>3, <1>5 DEF Due, Cleared
<1>7. Messages => Messages'
  <2> SUFFICES ASSUME Messages PROVE Messages'
    OBVIOUS
  <2>1. \A m \in to_world \cup to_zone : m.nth \in Nat /\ m.nth <= sold /\ m.nth < sold'
    <3> SUFFICES ASSUME NEW m \in to_world \cup to_zone PROVE m.nth \in Nat /\ m.nth <= sold /\ m.nth < sold'
      OBVIOUS
    <3>1. m.nth \in Nat /\ m.nth <= sold
      BY DEF Messages, Typed, TypeOK, PurchaseType
    <3> QED
      BY <1>1, <1>2, <3>1
  <2>2. \A m \in to_world \cup to_zone : m.nth <= sold'
    BY <1>1, <1>2, <2>1
  <2> QED
    BY <1>5, <2>1, <2>2 DEF Messages
<1>8. Bucket => Bucket'
  BY <1>3, <1>5 DEF Bucket, In
<1> QED
  BY <1>1, <1>3, <1>4, <1>5, <1>6, <1>7, <1>8

\* What the handler owed is due when the world has been told.
LEMMA CoinTellWorld ==
    ASSUME Typed, Messages, NEW b \in Buyers, TellWorld(b)
    PROVE  /\ Due' = Due + step[b].qty /\ purse' = purse /\ sold' = sold /\ Messages' /\ (Bucket => Bucket')
           /\ \A c \in Buyers \ {b} : step'[c] = step[c]
           /\ step[b].pc = "Taken" /\ step'[b] = Idle
<1>1. /\ UNCHANGED <<coin, presence, world, to_zone>> /\ step[b].pc = "Taken"
      /\ to_world' = to_world \cup {Purchase(b)} /\ Goto(b, Idle)
  BY DEF TellWorld, In
<1>2. step[b] \in BuyerSteps /\ step[b].qty \in Nat \ {0} /\ sold \in Nat
  BY <1>1, BuyerIn DEF Typed, TypeOK
<1>3. step'[b] = Idle /\ (\A c \in Buyers \ {b} : step'[c] = step[c]) /\ step'[Seller] = step[Seller]
  BY <1>1, BuyerMoves
<1>4. Purchase(b) \in PurchaseType /\ Purchase(b).buyer = b /\ Purchase(b).nth = sold /\ Purchase(b).qty = step[b].qty
  BY <1>1, <1>2, BuyerIn DEF Typed, Purchase, PurchaseType, RowType
<1>5. Purchase(b) \notin to_world \cup to_zone
  <2>1. \A m \in to_world \cup to_zone : m.buyer = b => m.nth < sold
    BY <1>1 DEF Messages, In
  <2> QED
    BY <1>2, <1>4, <2>1
<1>6. UNCHANGED <<purse, escrow, sold, seller, world>>
  BY <1>1 DEF coin, presence
<1>7. to_world' \cup to_zone' = (to_world \cup to_zone) \cup {Purchase(b)}
  BY <1>1
<1>8. Qty(to_world' \cup to_zone') = Qty(to_world \cup to_zone) + step[b].qty
  BY <1>4, <1>5, <1>7, CoinTyped, QtyAdded
<1>9. Cleared(step') = Cleared(step)
  BY <1>3 DEF Cleared
<1>10. Due' = Due + step[b].qty
  BY <1>2, <1>6, <1>8, <1>9, CoinTyped DEF Due
<1>11. Messages'
  <2>1. to_world' \cap to_zone' = {}
    BY <1>1, <1>5 DEF Messages
  <2>2. \A m \in to_world' \cup to_zone' : m.nth <= sold'
    BY <1>2, <1>4, <1>6, <1>7 DEF Messages
  <2>3. ASSUME NEW c \in Buyers, step'[c].pc = "Taken", NEW m \in to_world' \cup to_zone', m.buyer = c
        PROVE  m.nth < sold'
    <3>1. c # b /\ step[c].pc = "Taken"
      BY <1>3, <2>3 DEF Idle
    <3> QED
      BY <1>4, <1>6, <1>7, <2>3, <3>1 DEF Messages, In
  <2> QED
    BY <2>1, <2>2, <2>3 DEF Messages, In
<1>12. Bucket => Bucket'
  BY <1>3, <1>6 DEF Bucket, In
<1> QED
  BY <1>1, <1>3, <1>6, <1>10, <1>11, <1>12

\* The messages, when one goes.
LEMMA MessagesLess ==
    ASSUME Messages, to_world' \cup to_zone' \subseteq to_world \cup to_zone, to_world' \cap to_zone' = {},
           sold' = sold, \A b \in Buyers : In(b, "Taken")' => In(b, "Taken")
    PROVE  Messages'
BY DEF Messages

\* A message goes on to the seller's zone, ...
LEMMA CoinRoute ==
    ASSUME Typed, RoutePurchase
    PROVE  Due' = Due /\ purse' = purse /\ sold' = sold /\ (Messages => Messages') /\ (Bucket => Bucket') /\ step' = step
<1>1. UNCHANGED <<purse, escrow, sold, seller, step, world>>
  BY DEF RoutePurchase, coin, presence
<1>2. PICK m \in to_world : to_world' = to_world \ {m} /\ to_zone' = to_zone \cup {m}
  BY DEF RoutePurchase
<1>3. to_world' \cup to_zone' = to_world \cup to_zone
  BY <1>2
<1>4. Due' = Due
  BY <1>1, <1>3 DEF Due
<1>5. Messages => Messages'
  <2> SUFFICES ASSUME Messages PROVE Messages'
    OBVIOUS
  <2>1. to_world' \cap to_zone' = {}
    BY <1>2 DEF Messages
  <2> QED
    BY <1>1, <1>3, <2>1, MessagesLess DEF In
<1>6. Bucket => Bucket'
  BY <1>1 DEF Bucket, In
<1> QED
  BY <1>1, <1>4, <1>5, <1>6

\* ... or is being banked, ...
LEMMA CoinReadEscrow ==
    ASSUME Typed, Messages, ReadEscrow
    PROVE  Due' = Due /\ purse' = purse /\ sold' = sold /\ Messages' /\ (Bucket => Bucket') /\ step' = step
<1>1. UNCHANGED <<purse, escrow, sold, seller, step, to_zone>> /\ world = Idle /\ seller = "Offline"
  BY DEF ReadEscrow, coin, presence
<1>2. PICK m \in to_world : /\ to_world' = to_world \ {m}
                            /\ world' = [pc |-> "Banking", qty |-> m.qty, banked |-> escrow]
  BY DEF ReadEscrow
<1>3. to_world' \cup to_zone' = (to_world \cup to_zone) \ {m}
  BY <1>1, <1>2 DEF Messages
<1>4. /\ Qty(to_world \cup to_zone) = Qty(to_world' \cup to_zone') + m.qty
      /\ Qty(to_world' \cup to_zone') \in Nat /\ m.qty \in Nat
  BY <1>2, <1>3, CoinTyped, QtyTaken
<1>5. Banking(world) = 0 /\ Banking(world') = m.qty
  BY <1>1, <1>2 DEF Banking, Idle
<1>6. Due' = Due
  BY <1>1, <1>4, <1>5, CoinTyped DEF Due
<1>7. Messages'
  BY <1>1, <1>2, <1>3, MessagesLess DEF Messages, In
<1>8. Bucket => Bucket'
  BY <1>1, <1>2 DEF Bucket, In
<1> QED
  BY <1>1, <1>6, <1>7, <1>8

\* ... or is in the bucket, and what is due is the same.
LEMMA CoinBank ==
    ASSUME Typed, Bucket, BankPrice
    PROVE  Due' = Due /\ purse' = purse /\ sold' = sold /\ (Messages => Messages') /\ Bucket' /\ step' = step
<1>1. /\ UNCHANGED <<purse, sold, seller, step, to_world, to_zone>> /\ world.pc = "Banking"
      /\ escrow' = world.banked + world.qty /\ world' = Idle
  BY DEF BankPrice, presence
<1>2. world # Idle /\ world.banked = escrow /\ seller = "Offline"
  BY <1>1 DEF Bucket, Idle
<1>3. Banking(world) = world.qty /\ Banking(world') = 0
  BY <1>1, <1>2 DEF Banking
<1>4. Due' = Due
  BY <1>1, <1>2, <1>3, CoinTyped DEF Due
<1>5. Messages => Messages'
  BY <1>1 DEF Messages, In
<1>6. ~In(Seller, "EscrowRead")'
  BY <1>1, <1>2, SellerIn DEF Typed, In
<1>7. Bucket'
  BY <1>1, <1>6 DEF Bucket
<1> QED
  BY <1>1, <1>4, <1>5, <1>7

\* What the zone pays the seller is no longer due.
LEMMA CoinPay ==
    ASSUME Typed, Messages, PaySeller
    PROVE  /\ Due' + purse'[Seller] = Due + purse[Seller] /\ sold' = sold /\ Messages' /\ (Bucket => Bucket') /\ step' = step
           /\ \E v : purse' = [purse EXCEPT ![Seller] = v]
<1>1. UNCHANGED <<escrow, sold, seller, step, world, to_world>>
  BY DEF PaySeller, presence
<1>2. PICK m \in to_zone : to_zone' = to_zone \ {m} /\ purse' = [purse EXCEPT ![Seller] = @ + m.qty]
  BY DEF PaySeller
<1>3. to_world' \cup to_zone' = (to_world \cup to_zone) \ {m}
  BY <1>1, <1>2 DEF Messages
<1>4. /\ Qty(to_world \cup to_zone) = Qty(to_world' \cup to_zone') + m.qty
      /\ Qty(to_world' \cup to_zone') \in Nat /\ m.qty \in Nat
  BY <1>2, <1>3, CoinTyped, QtyTaken
<1>5. purse[Seller] \in Nat /\ purse'[Seller] = purse[Seller] + m.qty
  BY <1>2, CoinTyped, Constants
<1>6. Due' + purse'[Seller] = Due + purse[Seller]
  <2> DEFINE q == Qty(to_world \cup to_zone)
             r == Qty(to_world' \cup to_zone')
  <2>1. Due = escrow + (q + Banking(world) + Cleared(step)) /\ Due' = escrow + (r + Banking(world) + Cleared(step))
    BY <1>1 DEF Due
  <2>2. escrow \in Nat /\ Banking(world) \in Nat /\ Cleared(step) \in Nat /\ q = r + m.qty /\ r \in Nat
    BY <1>4, CoinTyped
  <2> HIDE DEF q, r
  <2> QED
    BY <1>4, <1>5, <2>1, <2>2
<1>7. Messages'
  BY <1>1, <1>2, <1>3, MessagesLess DEF Messages, In
<1>8. Bucket => Bucket'
  BY <1>1 DEF Bucket, In
<1> QED
  BY <1>1, <1>2, <1>6, <1>7, <1>8

\* What a zone drops is no longer due, and nobody has it.
LEMMA CoinDrop ==
    ASSUME Typed, Messages, DropPurchase
    PROVE  Due' <= Due /\ purse' = purse /\ sold' = sold /\ Messages' /\ (Bucket => Bucket') /\ step' = step
<1>1. UNCHANGED <<purse, escrow, sold, seller, step, world, to_world>>
  BY DEF DropPurchase, coin, presence
<1>2. PICK m \in to_zone : to_zone' = to_zone \ {m}
  BY DEF DropPurchase
<1>3. to_world' \cup to_zone' = (to_world \cup to_zone) \ {m}
  BY <1>1, <1>2 DEF Messages
<1>4. /\ Qty(to_world \cup to_zone) = Qty(to_world' \cup to_zone') + m.qty
      /\ Qty(to_world' \cup to_zone') \in Nat /\ m.qty \in Nat
  BY <1>2, <1>3, CoinTyped, QtyTaken
<1>5. Due' <= Due
  <2> DEFINE q == Qty(to_world \cup to_zone)
             r == Qty(to_world' \cup to_zone')
  <2>1. Due = escrow + (q + Banking(world) + Cleared(step)) /\ Due' = escrow + (r + Banking(world) + Cleared(step))
    BY <1>1 DEF Due
  <2>2. escrow \in Nat /\ Banking(world) \in Nat /\ Cleared(step) \in Nat /\ q = r + m.qty /\ r \in Nat
    BY <1>4, CoinTyped
  <2> HIDE DEF q, r
  <2> QED
    BY <1>4, <2>1, <2>2
<1>6. Messages'
  BY <1>1, <1>2, <1>3, MessagesLess DEF Messages, In
<1>7. Bucket => Bucket'
  BY <1>1 DEF Bucket, In
<1> QED
  BY <1>1, <1>5, <1>6, <1>7

\* What is cleared from the bucket is with the handler, ...
LEMMA CoinClear ==
    ASSUME Typed, Bucket, ClearEscrow
    PROVE  /\ Due' = Due /\ purse' = purse /\ sold' = sold /\ (Messages => Messages') /\ Bucket'
           /\ \A b \in Buyers : step'[b] = step[b]
<1>1. /\ UNCHANGED <<purse, sold, seller, world, to_world, to_zone>> /\ step[Seller].pc = "EscrowRead" /\ escrow' = 0
      /\ step' = [step EXCEPT ![Seller].pc = "EscrowCleared"]
  BY DEF ClearEscrow, presence, wires, In
<1>2. Seller \in Players /\ step \in [Players -> {Idle} \cup BuyerSteps \cup SellerSteps] /\ Seller \notin Buyers /\ Buyers \subseteq Players
  BY Constants DEF Typed, Handlers
<1>3. step[Seller] \in [pc : {"EscrowRead", "EscrowCleared"}, amount : Nat \ {0}] /\ seller = "InZone"
  BY <1>1, SellerIn DEF Typed, In
<1>4. step'[Seller].pc = "EscrowCleared" /\ step'[Seller].amount = step[Seller].amount /\ \A b \in Buyers : step'[b] = step[b]
  BY <1>1, <1>2, <1>3
<1>5. world = Idle /\ escrow = step[Seller].amount
  BY <1>1, <1>3 DEF Bucket, In
<1>6. Cleared(step) = 0 /\ Cleared(step') = escrow
  BY <1>1, <1>4, <1>5 DEF Cleared
<1>7. Due' = Due
  <2> DEFINE q == Qty(to_world \cup to_zone)
  <2>1. Due = escrow + (q + Banking(world) + 0) /\ Due' = 0 + (q + Banking(world) + escrow)
    BY <1>1, <1>6 DEF Due
  <2>2. escrow \in Nat /\ Banking(world) \in Nat /\ q \in Nat
    BY CoinTyped
  <2> HIDE DEF q
  <2> QED
    BY <2>1, <2>2
<1>8. Messages => Messages'
  BY <1>1, <1>4 DEF Messages, In
<1>9. Bucket'
  BY <1>1, <1>4, <1>5 DEF Bucket, In
<1> QED
  BY <1>1, <1>4, <1>7, <1>8, <1>9

\* ... which grants it to the seller.
LEMMA CoinGrant ==
    ASSUME Typed, GrantEscrow
    PROVE  /\ Due' + purse'[Seller] = Due + purse[Seller] /\ sold' = sold /\ (Messages => Messages') /\ (Bucket => Bucket')
           /\ \E v : purse' = [purse EXCEPT ![Seller] = v]
           /\ \A b \in Buyers : step'[b] = step[b]
<1>1. /\ UNCHANGED <<escrow, sold, seller, world, to_world, to_zone>> /\ step[Seller].pc = "EscrowCleared"
      /\ purse' = [purse EXCEPT ![Seller] = @ + step[Seller].amount] /\ Goto(Seller, Idle)
  BY DEF GrantEscrow, presence, wires, In
<1>2. step'[Seller] = Idle /\ \A b \in Buyers : step'[b] = step[b]
  BY <1>1, SellerMoves
<1>3. step[Seller].amount \in Nat
  BY <1>1, SellerIn DEF Typed, In
<1>4. purse[Seller] \in Nat /\ purse'[Seller] = purse[Seller] + step[Seller].amount
  BY <1>1, CoinTyped, Constants
<1>5. Cleared(step) = step[Seller].amount /\ Cleared(step') = 0
  BY <1>1, <1>2 DEF Cleared, Idle
<1>6. Due' + purse'[Seller] = Due + purse[Seller]
  <2> DEFINE q == Qty(to_world \cup to_zone)
  <2>1. Due = escrow + (q + Banking(world) + step[Seller].amount) /\ Due' = escrow + (q + Banking(world) + 0)
    BY <1>1, <1>5 DEF Due
  <2>2. escrow \in Nat /\ Banking(world) \in Nat /\ q \in Nat
    BY CoinTyped
  <2> HIDE DEF q
  <2> QED
    BY <1>3, <1>4, <2>1, <2>2
<1>7. Messages => Messages'
  BY <1>1, <1>2 DEF Messages, In
<1>8. Bucket => Bucket'
  BY <1>1, <1>2 DEF Bucket, In, Idle
<1> QED
  BY <1>1, <1>2, <1>6, <1>7, <1>8

\* A process that dies takes what its handler had, and adds nothing.
LEMMA CoinCrash ==
    ASSUME Typed, NEW p \in Players, Crash(p)
    PROVE  /\ Due' <= Due /\ purse' = purse /\ sold' = sold /\ (Messages => Messages') /\ (Bucket => Bucket')
           /\ \A b \in Buyers : step'[b] = step[b] \/ step'[b] = Idle
<1>1. UNCHANGED <<purse, escrow, sold, world, to_world, to_zone>> /\ (seller = "Offline" => seller' = "Offline")
  BY DEF Crash, coin, wires, presence
<1>2. \A q \in Players : step'[q] = step[q] \/ step'[q] = Idle
  BY DEF Crash
<1>3. Seller \in Players /\ Buyers \subseteq Players
  BY Constants
<1>4. Due' <= Due
  <2> DEFINE q == Qty(to_world \cup to_zone)
  <2>1. Due = escrow + (q + Banking(world) + Cleared(step)) /\ Due' = escrow + (q + Banking(world) + Cleared(step'))
    BY <1>1 DEF Due
  <2>2. escrow \in Nat /\ Banking(world) \in Nat /\ q \in Nat /\ Cleared(step) \in Nat
    BY CoinTyped
  <2>3. Cleared(step') = Cleared(step) \/ Cleared(step') = 0
    BY <1>2, <1>3 DEF Cleared, Idle
  <2> HIDE DEF q
  <2> QED
    BY <2>1, <2>2, <2>3
<1>5. Messages => Messages'
  <2>1. \A b \in Buyers : In(b, "Taken")' => In(b, "Taken")
    BY <1>2, <1>3 DEF In, Idle
  <2> QED
    BY <1>1, <2>1 DEF Messages
<1>6. Bucket => Bucket'
  BY <1>1, <1>2, <1>3 DEF Bucket, In, Idle
<1> QED
  BY <1>1, <1>2, <1>3, <1>4, <1>5, <1>6

\* No coin is made.
Paying == {"Paid", "Delivered", "Taken"}
Coin   == SumFunction(purse) + Due + Owes(Paying, step)

\* NoCoinMinted in the terms of these lemmas, ...
LEMMA InFlightIs == NoCoinMinted <=> SumFunction(purse) + escrow + (Qty(to_world \cup to_zone) + Banking(world) + Cleared(step)
                                         + Owes(Paying, step)) <= Coins * Cardinality(Buyers)
BY DEF NoCoinMinted, InFlight, Qty, Owes, Banking, Cleared, Paying, In

\* ... and of Coin.
LEMMA CoinIs == Typed => (NoCoinMinted <=> Coin <= Coins * Cardinality(Buyers))
<1> SUFFICES ASSUME Typed PROVE NoCoinMinted <=> Coin <= Coins * Cardinality(Buyers)
  OBVIOUS
<1> DEFINE q == Qty(to_world \cup to_zone)
           o == Owes(Paying, step)
<1>1. SumFunction(purse) \in Nat /\ escrow \in Nat /\ q \in Nat /\ Banking(world) \in Nat /\ Cleared(step) \in Nat /\ o \in Nat
  <2>1. IsFiniteSet(Players)
    BY Constants, FS_AddElement
  <2>2. o \in Nat
    BY CopiesTyped, OwesTyped DEF Typed, Paying
  <2> QED
    BY <2>1, <2>2, CoinTyped, Total
<1>2. Coin = SumFunction(purse) + (escrow + (q + Banking(world) + Cleared(step))) + o
  BY DEF Coin, Due
<1>3. NoCoinMinted <=> SumFunction(purse) + escrow + (q + Banking(world) + Cleared(step) + o) <= Coins * Cardinality(Buyers)
  BY InFlightIs
<1> HIDE DEF q, o
<1>4. Coin = SumFunction(purse) + escrow + (q + Banking(world) + Cleared(step) + o)
  BY <1>1, <1>2
<1> QED
  BY <1>3, <1>4

\* All of these are naturals.
LEMMA PurseTyped ==
    /\ IsFiniteSet(Players)
    /\ Typed => SumFunction(purse) \in Nat /\ Owes(Paying, step) \in Nat /\ Owes({"Taken"}, step) \in Nat
<1>1. IsFiniteSet(Players)
  BY Constants, FS_AddElement
<1> QED
  BY <1>1, CoinTyped, Total, CopiesTyped, OwesTyped DEF Typed, Paying

\* One purse that changes changes the sum.
LEMMA PurseChanged ==
    ASSUME Typed, Typed', NEW p \in Players, NEW v, purse' = [purse EXCEPT ![p] = v]
    PROVE  SumFunction(purse') = SumFunction(purse) - purse[p] + purse'[p]
<1>1. purse \in [Players -> Int] /\ purse' \in [Players -> Int] /\ \A q \in Players : q # p => purse'[q] = purse[q]
  BY CoinTyped
<1>2. IsFiniteSet(Players)
  BY PurseTyped
<1>3. ASSUME NEW f \in [Players -> Int], NEW g \in [Players -> Int], \A q \in Players : q # p => g[q] = f[q]
      PROVE  SumFunction(g) = SumFunction(f) - f[p] + g[p]
  BY <1>2, <1>3, TotalChanged
<1> QED
  BY <1>1, <1>3

\* One buyer's step changes what the buyers owe by what that buyer does.
LEMMA OwesStep ==
    ASSUME Typed, Typed', NEW b \in Buyers, \A c \in Buyers \ {b} : step'[c] = step[c], NEW P, "Idle" \notin P
    PROVE  /\ Owes(P, step') = Owes(P, step) - (IF step[b].pc \in P THEN step[b].qty ELSE 0)
                                             + (IF step'[b].pc \in P THEN step'[b].qty ELSE 0)
           /\ Owes(P, step) \in Nat /\ (step[b].pc # "Idle" => step[b].qty \in Nat)
<1>1. Copies(step) /\ Copies(step')
  BY CopiesTyped DEF Typed
<1> QED
  BY <1>1, OwesChanged, OwesTyped, BuyerIn DEF Typed

\* A step of a purchase makes no coin.
LEMMA CoinBuyerStep ==
    ASSUME Typed, Typed', Messages, Bucket, NEW b \in Buyers, BuyerStep(b)
    PROVE  Coin' <= Coin /\ Messages' /\ Bucket'
<1>1. Due \in Nat /\ Due' \in Nat /\ SumFunction(purse) \in Nat /\ Owes(Paying, step) \in Nat /\ b \in Players
  BY CoinTyped, PurseTyped, Constants
<1>2. Coin = SumFunction(purse) + Due + Owes(Paying, step) /\ Coin' = SumFunction(purse') + Due' + Owes(Paying, step')
  BY DEF Coin
<1>3. CASE Buy(b) \/ MarkActive(b) \/ RefuseBuyer(b) \/ SendParcel(b) \/ LoseParcel(b)
  <2>1. CoinKept /\ \A c \in Buyers \ {b} : step'[c] = step[c]
    BY <1>3, CoinBuyer
  <2>2. Owes(Paying, step') <= Owes(Paying, step)
    BY <1>1, <1>3, <2>1, CoinBuyer, OwesStep DEF Paying, Idle
  <2>3. Owes(Paying, step') \in Nat
    BY CopiesTyped, OwesTyped DEF Typed, Paying
  <2> QED
    BY <1>1, <1>2, <2>1, <2>2, <2>3 DEF CoinKept
<1>4. CASE TakeMoney(b)
  <2>1. /\ Due' = Due /\ Messages' /\ Bucket' /\ \A c \in Buyers \ {b} : step'[c] = step[c]
        /\ purse' = [purse EXCEPT ![b] = @ - step[b].qty]
        /\ step[b].pc = "Marked" /\ step'[b].pc = "Paid" /\ step'[b].qty = step[b].qty
    BY <1>4, CoinTakeMoney
  <2>2. Owes(Paying, step') = Owes(Paying, step) + step[b].qty /\ step[b].qty \in Nat
    BY <1>1, <2>1, OwesStep DEF Paying
  <2>3. SumFunction(purse') = SumFunction(purse) - purse[b] + purse'[b]
    BY <1>1, <2>1, PurseChanged
  <2>4. purse'[b] = purse[b] - step[b].qty /\ purse[b] \in Nat
    BY <1>1, <2>1, CoinTyped
  <2>5. Coin' = Coin
    BY <1>1, <1>2, <2>1, <2>2, <2>3, <2>4
  <2> QED
    BY <1>1, <1>2, <2>1, <2>5
<1>5. CASE TakeOffShop(b)
  <2>1. /\ Due' = Due /\ purse' = purse /\ Messages' /\ Bucket' /\ \A c \in Buyers \ {b} : step'[c] = step[c]
        /\ step[b].pc = "Delivered" /\ step'[b].pc = "Taken" /\ step'[b].qty = step[b].qty
    BY <1>5, CoinTakeOff
  <2>2. Owes(Paying, step') = Owes(Paying, step)
    BY <1>1, <2>1, OwesStep DEF Paying
  <2> QED
    BY <1>1, <1>2, <2>1, <2>2
<1>6. CASE TellWorld(b)
  <2>1. /\ Due' = Due + step[b].qty /\ purse' = purse /\ Messages' /\ Bucket' /\ \A c \in Buyers \ {b} : step'[c] = step[c]
        /\ step[b].pc = "Taken" /\ step'[b] = Idle
    BY <1>6, CoinTellWorld
  <2>2. Owes(Paying, step') = Owes(Paying, step) - step[b].qty /\ step[b].qty \in Nat
    BY <1>1, <2>1, OwesStep DEF Paying, Idle
  <2>3. Coin' = Coin
    BY <1>1, <1>2, <2>1, <2>2
  <2> QED
    BY <1>1, <1>2, <2>1, <2>3
<1> QED
  BY <1>3, <1>4, <1>5, <1>6 DEF BuyerStep

\* No step makes coin.
LEMMA CoinStep ==
    ASSUME Typed, Typed', Messages, Bucket, [Next]_vars
    PROVE  Coin' <= Coin /\ Messages' /\ Bucket'
<1>1. Due \in Nat /\ Due' \in Nat /\ SumFunction(purse) \in Nat /\ Owes(Paying, step) \in Nat
  BY CoinTyped, PurseTyped
<1>2. Coin = SumFunction(purse) + Due + Owes(Paying, step) /\ Coin' = SumFunction(purse') + Due' + Owes(Paying, step')
  BY DEF Coin
<1>3. ASSUME Due' = Due, purse' = purse, \A b \in Buyers : step'[b] = step[b] PROVE Coin' <= Coin
  <2>1. Owes(Paying, step') = Owes(Paying, step)
    BY <1>3, OwesSame
  <2> QED
    BY <1>1, <1>2, <1>3, <2>1
<1>4. ASSUME Due' + purse'[Seller] = Due + purse[Seller], \E v : purse' = [purse EXCEPT ![Seller] = v],
             \A b \in Buyers : step'[b] = step[b]
      PROVE  Coin' <= Coin
  <2>1. Owes(Paying, step') = Owes(Paying, step)
    BY <1>4, OwesSame
  <2>2. SumFunction(purse') = SumFunction(purse) - purse[Seller] + purse'[Seller]
    BY <1>4, PurseChanged, Constants
  <2>3. purse[Seller] \in Nat /\ purse'[Seller] \in Nat
    BY CoinTyped, Constants
  <2> QED
    BY <1>1, <1>2, <1>4, <2>1, <2>2, <2>3
<1>5. ASSUME Due' <= Due, purse' = purse, \A b \in Buyers : step'[b] = step[b] \/ step'[b] = Idle PROVE Coin' <= Coin
  <2>1. Owes(Paying, step') <= Owes(Paying, step)
    BY <1>5, OwesLess, CopiesTyped DEF Typed, Paying
  <2>2. Owes(Paying, step') \in Nat
    BY CopiesTyped, OwesTyped DEF Typed, Paying
  <2> QED
    BY <1>1, <1>2, <1>5, <2>1, <2>2
<1>6. CASE \E b \in Buyers : BuyerStep(b)
  BY <1>6, CoinBuyerStep
<1>7. CASE \E p \in Players : Crash(p)
  BY <1>5, <1>7, CoinCrash
<1>8. CASE \/ AddItemsToShop \/ EscrowItem \/ SaveSerial \/ PullShopItem \/ DeletePulled \/ Move
           \/ Arrive \/ Login \/ ZoneOut \/ Disconnect \/ Forget \/ LookIntoEscrow
  BY <1>3, <1>8, CoinSeller DEF CoinKept
<1>9. CASE RoutePurchase \/ ReadEscrow \/ BankPrice
  BY <1>3, <1>9, CoinRoute, CoinReadEscrow, CoinBank
<1>10. CASE ClearEscrow
  BY <1>3, <1>10, CoinClear
<1>11. CASE PaySeller \/ GrantEscrow
  BY <1>4, <1>11, CoinPay, CoinGrant
<1>12. CASE DropPurchase
  BY <1>5, <1>12, CoinDrop
<1>13. CASE UNCHANGED vars
  <2>1. UNCHANGED <<purse, escrow, sold, seller, step, world, to_world, to_zone>>
    BY <1>13 DEF vars, coin, wires, presence
  <2>2. Due' = Due
    BY <2>1 DEF Due
  <2>3. Messages' /\ Bucket'
    BY <2>1 DEF Messages, Bucket, In
  <2> QED
    BY <1>3, <2>1, <2>2, <2>3
<1> QED
  BY <1>6, <1>7, <1>8, <1>9, <1>10, <1>11, <1>12, <1>13 DEF Next, BuyerStep

\* Buyers who are in no handler owe nothing.
LEMMA OwesIdle ==
    ASSUME NEW P, "Idle" \notin P, NEW s, \A b \in Buyers : s[b] = Idle
    PROVE  Owes(P, s) = 0
<1> DEFINE f == [b \in Buyers |-> 0]
<1>1. [b \in Buyers |-> IF s[b].pc \in P THEN s[b].qty ELSE 0] = f
  BY DEF Idle
<1>2. (\A b \in Buyers : f[b] = 0) /\ DOMAIN f = Buyers
  OBVIOUS
<1>3. Owes(P, s) = SumFunction(f)
  BY <1>1 DEF Owes
<1> HIDE DEF f
<1>4. SumFunction(f) = 0 * Cardinality(Buyers)
  BY <1>2, Constants, SumConstant DEF SumFunction
<1>5. Cardinality(Buyers) \in Nat
  BY Constants, FS_CardinalityType
<1> QED
  BY <1>3, <1>4, <1>5

\* In the beginning the buyers have all the coin there is.
LEMMA CoinInit == Init => Messages /\ Bucket /\ Coin = Coins * Cardinality(Buyers) /\ Due = 0 /\ Owes({"Taken"}, step) = 0
<1> SUFFICES ASSUME Init PROVE Messages /\ Bucket /\ Coin = Coins * Cardinality(Buyers) /\ Due = 0 /\ Owes({"Taken"}, step) = 0
  OBVIOUS
<1>1. /\ step = [p \in Players |-> Idle] /\ world = Idle /\ to_world = {} /\ to_zone = {} /\ escrow = 0 /\ sold = 0
      /\ purse = [p \in Players |-> IF p = Seller THEN 0 ELSE Coins]
  BY DEF Init
<1>2. Seller \in Players /\ Buyers \subseteq Players /\ IsFiniteSet(Buyers) /\ Seller \notin Buyers /\ Coins \in Nat
  BY Constants
<1>3. Messages /\ Bucket
  BY <1>1, <1>2 DEF Messages, Bucket, In, Idle
<1>4. ASSUME NEW P, "Idle" \notin P PROVE Owes(P, step) = 0
  BY <1>1, <1>2, <1>4, OwesIdle
<1>5. Due = 0
  <2>1. to_world \cup to_zone = {}
    BY <1>1
  <2>2. Qty({}) = 0
    <3>1. [m \in {} |-> m.qty] = [m \in {} |-> 0] /\ DOMAIN [m \in {} |-> m.qty] = {}
      OBVIOUS
    <3> QED
      BY <3>1, SumEmpty DEF Qty, SumFunction
  <2>3. Banking(world) = 0 /\ Cleared(step) = 0
    BY <1>1, <1>2 DEF Banking, Cleared, Idle
  <2> QED
    BY <1>1, <2>1, <2>2, <2>3 DEF Due
<1>6. SumFunction(purse) = Coins * Cardinality(Buyers)
  <2> DEFINE f == [b \in Buyers |-> Coins]
  <2>1. f \in [Buyers -> Int] /\ purse \in [Buyers \cup {Seller} -> Int] /\ (\A b \in Buyers : purse[b] = f[b]) /\ purse[Seller] = 0
    BY <1>1, <1>2, Constants
  <2>2. DOMAIN f = Buyers /\ \A b \in Buyers : f[b] = Coins
    OBVIOUS
  <2> HIDE DEF f
  <2>3. SumFunction(purse) = SumFunction(f) + purse[Seller]
    BY <1>2, <2>1, TotalAdded
  <2>4. SumFunction(f) = Coins * Cardinality(Buyers)
    BY <1>2, <2>2, SumConstant DEF SumFunction
  <2>5. Coins * Cardinality(Buyers) \in Nat
    BY <1>2, FS_CardinalityType
  <2> QED
    BY <2>1, <2>3, <2>4, <2>5
<1>7. Coins * Cardinality(Buyers) \in Nat
  BY <1>2, FS_CardinalityType
<1>8. Owes(Paying, step) = 0 /\ Owes({"Taken"}, step) = 0
  BY <1>4 DEF Paying
<1> QED
  BY <1>3, <1>5, <1>6, <1>7, <1>8 DEF Coin

\* No coin is made, whatever the constants: a price is paid to the seller at most once.
THEOREM CoinNotMinted == Spec => []NoCoinMinted
<1> DEFINE I == Typed /\ Messages /\ Bucket /\ Coin <= Coins * Cardinality(Buyers)
<1>1. Init => I
  <2>1. Coins * Cardinality(Buyers) \in Nat
    BY Constants, FS_CardinalityType
  <2> QED
    BY <2>1, TypedInit, CoinInit
<1>2. I /\ [Next]_vars => I'
  <2> SUFFICES ASSUME I, [Next]_vars PROVE I'
    OBVIOUS
  <2>1. Typed'
    BY TypedStep
  <2>2. Coin' <= Coin /\ Messages' /\ Bucket'
    BY <2>1, CoinStep
  <2>3. Coin \in Nat /\ Coin' \in Nat /\ Coins * Cardinality(Buyers) \in Nat
    <3>1. Owes(Paying, step') \in Nat /\ SumFunction(purse') \in Nat
      BY <2>1, CopiesTyped, OwesTyped, PurseTyped, CoinTyped, Total DEF Typed, Paying
    <3>2. Due \in Nat /\ Due' \in Nat /\ SumFunction(purse) \in Nat /\ Owes(Paying, step) \in Nat
      BY <2>1, CoinTyped, PurseTyped
    <3>3. Coins * Cardinality(Buyers) \in Nat
      BY Constants, FS_CardinalityType
    <3> QED
      BY <3>1, <3>2, <3>3 DEF Coin
  <2>4. Coin' <= Coins * Cardinality(Buyers)
    BY <2>2, <2>3
  <2> QED
    BY <2>1, <2>2, <2>4
<1>3. I => NoCoinMinted
  BY CoinIs
<1> HIDE DEF I
<1> QED
  BY <1>1, <1>2, <1>3, PTL DEF Spec

\* Every unit sold is paid for, or its price is on its way.
Paid == purse[Seller] + Due + Owes({"Taken"}, step) = sold

\* No process dies; and no message is dropped either.
NobodyDies  == \A p \in Players : ~Crash(p)
NothingLost == ~DropPurchase /\ NobodyDies

\* Every step keeps Paid but a message dropped and a process that dies.
LEMMA PaidStep ==
    ASSUME Typed, Typed', Messages, Bucket, Paid, [Next]_vars, NothingLost
    PROVE  Paid'
<1>1. /\ Due \in Nat /\ Due' \in Nat /\ Owes({"Taken"}, step) \in Nat /\ sold \in Nat
      /\ purse[Seller] \in Nat /\ purse'[Seller] \in Nat
  BY CoinTyped, PurseTyped, Constants
<1>2. purse[Seller] + Due + Owes({"Taken"}, step) = sold
  BY DEF Paid
<1>3. SUFFICES purse'[Seller] + Due' + Owes({"Taken"}, step') = sold'
  BY DEF Paid
<1>4. ASSUME Due' + purse'[Seller] = Due + purse[Seller], sold' = sold, \A b \in Buyers : step'[b] = step[b]
      PROVE  purse'[Seller] + Due' + Owes({"Taken"}, step') = sold'
  <2>1. Owes({"Taken"}, step') = Owes({"Taken"}, step)
    BY <1>4, OwesSame
  <2> QED
    BY <1>1, <1>2, <1>4, <2>1
<1>5. ASSUME NEW b \in Buyers, BuyerStep(b)
      PROVE  purse'[Seller] + Due' + Owes({"Taken"}, step') = sold'
  <2>1. CASE Buy(b) \/ MarkActive(b) \/ RefuseBuyer(b) \/ SendParcel(b) \/ LoseParcel(b)
    <3>1. Due' = Due /\ purse' = purse /\ sold' = sold /\ \A c \in Buyers \ {b} : step'[c] = step[c]
      BY <2>1, CoinBuyer DEF CoinKept
    <3>2. step[b].pc # "Taken" /\ step'[b].pc # "Taken"
      BY <2>1, CoinBuyer DEF Idle
    <3>3. Owes({"Taken"}, step') = Owes({"Taken"}, step)
      BY <1>1, <3>1, <3>2, OwesStep
    <3> QED
      BY <1>1, <1>2, <3>1, <3>3
  <2>2. CASE TakeMoney(b)
    <3>1. /\ Due' = Due /\ sold' = sold /\ \A c \in Buyers \ {b} : step'[c] = step[c]
          /\ purse' = [purse EXCEPT ![b] = @ - step[b].qty]
          /\ step[b].pc = "Marked" /\ step'[b].pc = "Paid"
      BY <2>2, CoinTakeMoney
    <3>2. purse'[Seller] = purse[Seller]
      BY <3>1, CoinTyped, Constants
    <3>3. Owes({"Taken"}, step') = Owes({"Taken"}, step)
      BY <1>1, <3>1, OwesStep
    <3> QED
      BY <1>1, <1>2, <3>1, <3>2, <3>3
  <2>3. CASE TakeOffShop(b)
    <3>1. /\ Due' = Due /\ purse' = purse /\ sold' = sold + step[b].qty /\ \A c \in Buyers \ {b} : step'[c] = step[c]
          /\ step[b].pc = "Delivered" /\ step'[b].pc = "Taken" /\ step'[b].qty = step[b].qty
      BY <2>3, CoinTakeOff
    <3>2. Owes({"Taken"}, step') = Owes({"Taken"}, step) + step[b].qty /\ step[b].qty \in Nat
      BY <1>1, <3>1, OwesStep
    <3> QED
      BY <1>1, <1>2, <3>1, <3>2
  <2>4. CASE TellWorld(b)
    <3>1. /\ Due' = Due + step[b].qty /\ purse' = purse /\ sold' = sold /\ \A c \in Buyers \ {b} : step'[c] = step[c]
          /\ step[b].pc = "Taken" /\ step'[b] = Idle
      BY <2>4, CoinTellWorld
    <3>2. Owes({"Taken"}, step') = Owes({"Taken"}, step) - step[b].qty /\ step[b].qty \in Nat
      BY <1>1, <3>1, OwesStep DEF Idle
    <3> QED
      BY <1>1, <1>2, <3>1, <3>2
  <2> QED
    BY <1>5, <2>1, <2>2, <2>3, <2>4 DEF BuyerStep
<1>6. CASE \/ AddItemsToShop \/ EscrowItem \/ SaveSerial \/ PullShopItem \/ DeletePulled \/ Move
           \/ Arrive \/ Login \/ ZoneOut \/ Disconnect \/ Forget \/ LookIntoEscrow
  BY <1>1, <1>4, <1>6, CoinSeller DEF CoinKept
<1>7. CASE RoutePurchase \/ ReadEscrow \/ BankPrice \/ ClearEscrow
  BY <1>1, <1>4, <1>7, CoinRoute, CoinReadEscrow, CoinBank, CoinClear
<1>8. CASE PaySeller \/ GrantEscrow
  BY <1>4, <1>8, CoinPay, CoinGrant
<1>9. CASE UNCHANGED vars
  <2>1. UNCHANGED <<purse, escrow, sold, step, world, to_world, to_zone>>
    BY <1>9 DEF vars, coin, wires
  <2>2. Due' = Due
    BY <2>1 DEF Due
  <2> QED
    BY <1>1, <1>4, <2>1, <2>2
<1> QED
  BY <1>5, <1>6, <1>7, <1>8, <1>9 DEF Next, NothingLost, NobodyDies, BuyerStep

\* When nothing is on its way, Paid is SellerPaid.
LEMMA PaidSeller == Typed /\ Paid => SellerPaid
<1> SUFFICES ASSUME Typed, Paid, \A p \in Players : step[p] = Idle, InFlight = 0
             PROVE  purse[Seller] + escrow = sold
  BY DEF SellerPaid
<1> DEFINE q == Qty(to_world \cup to_zone)
           o == Owes(Paying, step)
<1>1. InFlight = q + Banking(world) + Cleared(step) + o
  BY DEF InFlight, Qty, Owes, Banking, Cleared, Paying, In
<1>2. purse[Seller] \in Nat /\ escrow \in Nat /\ q \in Nat /\ Banking(world) \in Nat /\ Cleared(step) \in Nat /\ o \in Nat
  BY CoinTyped, PurseTyped, Constants
<1>3. Owes({"Taken"}, step) = 0
  BY Constants, OwesIdle
<1>4. purse[Seller] + (escrow + (q + Banking(world) + Cleared(step))) + 0 = sold
  BY <1>3 DEF Paid, Due
<1> HIDE DEF q, o
<1>5. q = 0 /\ Banking(world) = 0 /\ Cleared(step) = 0
  BY <1>1, <1>2
<1> QED
  BY <1>2, <1>4, <1>5

\* In the beginning nothing has been sold.
LEMMA PaidInit == Init => Messages /\ Bucket /\ Paid
<1> SUFFICES ASSUME Init PROVE Paid
  BY CoinInit
<1>1. purse[Seller] = 0 /\ sold = 0
  BY Constants DEF Init
<1> QED
  BY <1>1, CoinInit DEF Paid

\* Once nothing is under way the seller has the price of every unit sold, in hand or banked, as
\* long as no zone drops the message of a purchase and no process dies.
THEOREM SellerIsPaid == Spec /\ [][NothingLost]_vars => []SellerPaid
<1> DEFINE I == Typed /\ Messages /\ Bucket /\ Paid
<1>1. Init => I
  BY TypedInit, PaidInit
<1>2. I /\ [Next /\ NothingLost]_vars => I'
  <2> SUFFICES ASSUME I, [Next /\ NothingLost]_vars PROVE I'
    OBVIOUS
  <2>1. Typed' /\ [Next]_vars
    BY TypedStep
  <2>2. Messages' /\ Bucket'
    BY <2>1, CoinStep
  <2>3. CASE NothingLost
    BY <2>1, <2>2, <2>3, PaidStep
  <2>4. CASE UNCHANGED vars
    <3>1. UNCHANGED <<purse, escrow, sold, step, world, to_world, to_zone>>
      BY <2>4 DEF vars, coin, wires
    <3>2. Paid'
      BY <3>1 DEF Paid, Due
    <3> QED
      BY <2>1, <2>2, <3>2
  <2> QED
    BY <2>3, <2>4
<1>3. I => SellerPaid
  BY PaidSeller
<1> HIDE DEF I
<1> QED
  BY <1>1, <1>2, <1>3, PTL DEF Spec

\* A seller who stays where he is, in the zone or offline.
Stays == seller \in {"InZone", "Offline"} /\ (to_zone # {} => seller = "InZone")

\* Without crashes nobody dies.
LEMMA NobodyCan ==
    ASSUME MaxCrashes = 0, Typed PROVE NobodyDies
BY DEF Typed, TypeOK, Crash, NobodyDies

\* A seller who stays is there for every message.
LEMMA StaysStep ==
    ASSUME MaxCrashes = 0, ~MayLeave, Typed, Stays, [Next]_vars
    PROVE  NothingLost /\ Stays'
<1>1. NobodyDies /\ \A p \in Players : ~Crash(p)
  BY NobodyCan DEF NobodyDies
<1>2. ~DropPurchase
  BY DEF Stays, DropPurchase
<1>3. ~(Arrive \/ Login \/ ZoneOut \/ Disconnect \/ Forget)
  BY DEF Stays, Arrive, Login, ZoneOut, Disconnect, Forget
<1>4. seller' = seller
  BY <1>1, <1>3 DEF Next, vars, presence, AddItemsToShop, EscrowItem, SaveSerial, PullShopItem, DeletePulled, Move,
     Buy, MarkActive, TakeMoney, RefuseBuyer, SendParcel, LoseParcel, TakeOffShop, TellWorld, RoutePurchase,
     ReadEscrow, BankPrice, PaySeller, DropPurchase, LookIntoEscrow, ClearEscrow, GrantEscrow
<1>5. to_zone' \subseteq to_zone \/ RoutePurchase
  BY <1>1, <1>3 DEF Next, vars, wires, AddItemsToShop, EscrowItem, SaveSerial, PullShopItem, DeletePulled, Move,
     Buy, MarkActive, TakeMoney, RefuseBuyer, SendParcel, LoseParcel, TakeOffShop, TellWorld, RoutePurchase,
     ReadEscrow, BankPrice, PaySeller, DropPurchase, LookIntoEscrow, ClearEscrow, GrantEscrow
<1>6. RoutePurchase => seller = "InZone"
  BY DEF RoutePurchase, Stays
<1>7. Stays'
  BY <1>4, <1>5, <1>6 DEF Stays
<1> QED
  BY <1>1, <1>2, <1>7 DEF NothingLost

\* ... so a seller who stays, in a game where no process dies, is paid for every unit.
COROLLARY SellerPaidWhoStays ==
    ASSUME MaxCrashes = 0, ~MayLeave, SellerStart \subseteq {"InZone", "Offline"}
    PROVE  Spec => []SellerPaid
<1>1. Init => Stays
  BY DEF Init, Stays
<1>2. Typed /\ Stays /\ [Next]_vars => Stays' /\ [NothingLost]_vars
  BY StaysStep
<1>3. Init => Typed
  BY TypedInit
<1>4. Typed /\ [Next]_vars => Typed'
  BY TypedStep
<1>5. Spec => [][NothingLost]_vars
  BY <1>1, <1>2, <1>3, <1>4, PTL DEF Spec
<1> QED
  BY <1>5, SellerIsPaid, PTL

\* Where no process dies, listings finish, and the serials are unique.
LEMMA Finishing ==
    ASSUME Typed, [Next]_vars, NobodyDies
    PROVE  ListingsFinish
<1> SUFFICES ASSUME In(Seller, "Inserted"), ~SaveSerial
             PROVE  In(Seller, "Inserted")'
  BY DEF ListingsFinish, SaveSerial
<1>1. \A p \in Players : ~Crash(p)
  BY DEF NobodyDies
<1>2. Seller \in Players /\ step \in [Players -> {Idle} \cup BuyerSteps \cup SellerSteps] /\ Seller \notin Buyers
  BY Constants DEF Typed, Handlers
<1>3. ~(AddItemsToShop \/ PullShopItem \/ Arrive)
  BY <1>2, Constants DEF AddItemsToShop, PullShopItem, Arrive, MayStart, Process, In, Idle
<1>4. ~(DeletePulled \/ LookIntoEscrow \/ ClearEscrow \/ GrantEscrow)
  BY DEF DeletePulled, LookIntoEscrow, ClearEscrow, GrantEscrow, In
<1>5. CASE EscrowItem
  <2>1. step[Seller] \in [pc : {"Inserted"}, slots : SUBSET Goods, next_sn : 1 .. MaxListings + 1]
    BY SellerIn DEF Typed
  <2> QED
    BY <1>2, <1>5, <2>1 DEF EscrowItem, In
<1>6. ASSUME NEW b \in Buyers, BuyerStep(b) PROVE In(Seller, "Inserted")'
  <2>1. \E v : Goto(b, v)
    BY <1>6 DEF BuyerStep, Buy, MarkActive, TakeMoney, RefuseBuyer, SendParcel, LoseParcel, TakeOffShop, TellWorld
  <2> QED
    BY <2>1, BuyerMoves DEF In
<1>7. CASE \/ Move \/ RoutePurchase \/ ReadEscrow \/ BankPrice \/ DropPurchase \/ PaySeller
           \/ Login \/ ZoneOut \/ Disconnect \/ Forget \/ UNCHANGED vars
  <2>1. step' = step
    BY <1>7 DEF Move, RoutePurchase, ReadEscrow, BankPrice, DropPurchase, PaySeller, Login, ZoneOut, Disconnect, Forget, vars
  <2> QED
    BY <2>1 DEF In
<1> QED
  BY <1>1, <1>3, <1>4, <1>5, <1>6, <1>7 DEF Next, BuyerStep

-------------------------------------------------------------------------------
(* Units. *)

\* The units of an item in a set of rows, and those in the buyers' parcels.
Shop(R, g) == SumFunction([r \in {r \in R : r.good = g} |-> r.charges])
Sent(P, g) == SumFunction([b \in Buyers |-> P[b][g]])

\* A shop: rows with ids of their own.
IsShop(R) == R \subseteq RowType /\ \A r, t \in R : r.id = t.id => r = t

\* The units of a shop are a natural, ...
LEMMA ShopTyped ==
    ASSUME NEW R, IsShop(R), NEW g
    PROVE  IsFiniteSet(R) /\ Shop(R, g) \in Nat
<1>1. IsFiniteSet(R)
  BY RowsFinite DEF IsShop
<1> DEFINE S == {r \in R : r.good = g}
<1>2. IsFiniteSet(S)
  BY <1>1, FS_Subset
<1>3. [r \in S |-> r.charges] \in [S -> Nat]
  BY DEF IsShop, RowType
<1> HIDE DEF S
<1>4. SumFunction([r \in S |-> r.charges]) \in Nat
  BY <1>2, <1>3, Total
<1> QED
  BY <1>1, <1>4 DEF Shop, S

\* ... none if it has no row, ...
LEMMA ShopEmpty ==
    ASSUME NEW g PROVE Shop({}, g) = 0
<1>1. {r \in {} : r.good = g} = {}
  OBVIOUS
<1>2. DOMAIN [r \in {} |-> r.charges] = {}
  OBVIOUS
<1> QED
  BY <1>1, <1>2, SumEmpty DEF Shop, SumFunction

\* A row more.
LEMMA ShopAdded ==
    ASSUME NEW R, IsShop(R), NEW x \in RowType, x \notin R, NEW g
    PROVE  Shop(R \cup {x}, g) = Shop(R, g) + (IF x.good = g THEN x.charges ELSE 0)
<1> DEFINE S == {r \in R : r.good = g}
           T == {r \in R \cup {x} : r.good = g}
           f == [r \in S |-> r.charges]
           h == [r \in T |-> r.charges]
<1>1. Shop(R, g) = SumFunction(f) /\ Shop(R \cup {x}, g) = SumFunction(h)
  BY DEF Shop
<1>2. CASE x.good = g
  <2>1. T = S \cup {x} /\ x \notin S
    BY <1>2
  <2>2. f \in [S -> Int] /\ h \in [T -> Int] /\ (\A r \in S : h[r] = f[r]) /\ h[x] = x.charges
    BY <2>1 DEF IsShop, RowType
  <2>3. IsFiniteSet(S)
    BY ShopTyped, FS_Subset
  <2> HIDE DEF S, T, f, h
  <2>4. SumFunction(h) = SumFunction(f) + h[x]
    BY <2>1, <2>2, <2>3, TotalAdded
  <2> QED
    BY <1>1, <1>2, <2>2, <2>4
<1>3. CASE x.good # g
  <2>1. T = S
    BY <1>3
  <2>2. Shop(R, g) \in Nat
    BY ShopTyped
  <2> QED
    BY <1>1, <1>3, <2>1, <2>2
<1> QED
  BY <1>2, <1>3

\* At most a row more of one item.
LEMMA ShopGains ==
    ASSUME NEW R, IsShop(R), NEW Q, IsShop(Q), NEW x, NEW g, x.charges \in Nat,
           {r \in Q : r.good = g} = {r \in R : r.good = g} \cup {x}
    PROVE  Shop(Q, g) <= Shop(R, g) + x.charges
<1> DEFINE S == {r \in R : r.good = g}
           T == {r \in Q : r.good = g}
           f == [r \in S |-> r.charges]
           h == [r \in T |-> r.charges]
<1>1. T = S \cup {x}
  OBVIOUS
<1>2. Shop(R, g) = SumFunction(f) /\ Shop(Q, g) = SumFunction(h) /\ Shop(R, g) \in Nat
  BY ShopTyped DEF Shop
<1>3. f \in [S -> Int] /\ h \in [S \cup {x} -> Int] /\ (\A r \in S : h[r] = f[r]) /\ h[x] = x.charges
  BY DEF IsShop, RowType
<1>4. IsFiniteSet(S)
  BY ShopTyped, FS_Subset
<1>5. x \in S => SumFunction(h) = SumFunction(f)
  <2>1. x \in S => T = S
    BY <1>1
  <2> QED
    BY <2>1
<1> HIDE DEF S, T, f, h
<1>6. CASE x \in S
  BY <1>2, <1>5, <1>6
<1>7. CASE x \notin S
  <2>1. SumFunction(h) = SumFunction(f) + h[x]
    BY <1>3, <1>4, <1>7, TotalAdded
  <2> QED
    BY <1>2, <1>3, <2>1
<1> QED
  BY <1>6, <1>7

\* A row less.
LEMMA ShopTaken ==
    ASSUME NEW R, IsShop(R), NEW x \in R, NEW g
    PROVE  /\ IsShop(R \ {x}) /\ Shop(R \ {x}, g) \in Nat
           /\ Shop(R, g) = Shop(R \ {x}, g) + (IF x.good = g THEN x.charges ELSE 0)
<1>1. IsShop(R \ {x}) /\ x \in RowType /\ x \notin R \ {x} /\ (R \ {x}) \cup {x} = R
  BY DEF IsShop
<1> QED
  BY <1>1, ShopAdded, ShopTyped

\* ... and each row adds its own.
LEMMA ShopLess ==
    \A R : IsShop(R) =>
        \A x \in R : \A g : Shop(R, g) = Shop(R \ {x}, g) + (IF x.good = g THEN x.charges ELSE 0)
BY ShopTaken

\* One row is replaced by another state of it.
LEMMA ShopWritten ==
    ASSUME NEW R, IsShop(R), NEW x \in R, NEW y \in RowType, y.id = x.id, y.good = x.good, NEW g
    PROVE  Shop((R \ {x}) \cup {y}, g) = Shop(R, g) - (IF x.good = g THEN x.charges ELSE 0)
                                                    + (IF x.good = g THEN y.charges ELSE 0)
<1>1. IsShop(R \ {x}) /\ Shop(R \ {x}, g) \in Nat /\ Shop(R, g) = Shop(R \ {x}, g) + (IF x.good = g THEN x.charges ELSE 0)
  BY ShopTaken
<1>2. y \notin R \ {x}
  BY DEF IsShop
<1>3. Shop((R \ {x}) \cup {y}, g) = Shop(R \ {x}, g) + (IF x.good = g THEN y.charges ELSE 0)
  BY <1>1, <1>2, ShopAdded
<1>4. x.charges \in Nat /\ y.charges \in Nat
  BY DEF IsShop, RowType
<1> QED
  BY <1>1, <1>3, <1>4

\* The mark of a row says nothing of its units.
LEMMA ShopMarked ==
    ASSUME IsShop(rows), NEW id, NEW status \in BOOLEAN, SetActive(id, status), NEW g
    PROVE  Shop(rows', g) = Shop(rows, g)
<1>1. CASE \E x \in rows : x.id = id
  <2>1. PICK x \in rows : x.id = id
    BY <1>1
  <2> DEFINE y == [x EXCEPT !.active = status]
  <2>2. y \in RowType /\ y.id = x.id /\ y.good = x.good /\ y.charges = x.charges /\ x.charges \in Nat
    BY DEF IsShop, RowType
  <2>3. rows' = (rows \ {x}) \cup {y}
    <3>1. \A r \in rows : (IF r.id = id THEN [r EXCEPT !.active = status] ELSE r) = (IF r = x THEN y ELSE r)
      BY <2>1 DEF IsShop
    <3>2. rows' = {IF r.id = id THEN [r EXCEPT !.active = status] ELSE r : r \in rows}
      BY DEF SetActive
    <3> HIDE DEF y
    <3>3. rows' = {IF r = x THEN y ELSE r : r \in rows}
      BY <3>1, <3>2
    <3> QED
      BY <3>3
  <2> HIDE DEF y
  <2>4. Shop(rows', g) = Shop(rows, g) - (IF x.good = g THEN x.charges ELSE 0) + (IF x.good = g THEN y.charges ELSE 0)
    BY <2>2, <2>3, ShopWritten
  <2>5. Shop(rows, g) \in Nat
    BY ShopTyped
  <2> QED
    BY <2>2, <2>4, <2>5
<1>2. CASE \A x \in rows : x.id # id
  <2>1. rows' = rows
    BY <1>2 DEF SetActive
  <2> QED
    BY <2>1
<1> QED
  BY <1>1, <1>2

\* The parcels of a buyer.
LEMMA SentTyped ==
    ASSUME NEW P \in [Buyers -> [Goods -> Nat]], NEW g \in Goods
    PROVE  Sent(P, g) \in Nat
<1>1. [b \in Buyers |-> P[b][g]] \in [Buyers -> Nat]
  OBVIOUS
<1> QED
  BY <1>1, Total, Constants DEF Sent

\* One buyer's term that changes changes the sum over the buyers.
LEMMA BuyersChanged ==
    \A u, v \in [Buyers -> Int], b \in Buyers :
        (\A c \in Buyers : c # b => v[c] = u[c]) => SumFunction(v) = SumFunction(u) - u[b] + v[b]
BY TotalChanged, Constants

\* One parcel more adds its units to those delivered.
LEMMA SentAdded ==
    ASSUME NEW P \in [Buyers -> [Goods -> Nat]], NEW Q \in [Buyers -> [Goods -> Nat]], NEW g \in Goods,
           NEW b \in Buyers, NEW k \in Int, \A c \in Buyers \ {b} : Q[c][g] = P[c][g], Q[b][g] = P[b][g] + k
    PROVE  Sent(Q, g) = Sent(P, g) + k
<1> DEFINE u == [c \in Buyers |-> P[c][g]]
           v == [c \in Buyers |-> Q[c][g]]
<1>1. u \in [Buyers -> Int] /\ v \in [Buyers -> Int] /\ Sent(P, g) \in Nat
  BY SentTyped
<1>2. (\A c \in Buyers : c # b => v[c] = u[c]) /\ v[b] = u[b] + k /\ u[b] \in Nat
  OBVIOUS
<1>3. Sent(P, g) = SumFunction(u) /\ Sent(Q, g) = SumFunction(v)
  BY DEF Sent
<1> HIDE DEF u, v
<1>4. SumFunction(v) = SumFunction(u) - u[b] + v[b]
  BY <1>1, <1>2, BuyersChanged
<1> QED
  BY <1>1, <1>2, <1>3, <1>4

\* Where the units of an item are: in the bags, on the shop, in parcels.
LEMMA UnitsAre ==
    /\ \A g \in Goods : Units(g) = bag[g] + Shop(rows, g) + Sent(parcels, g)
    /\ \A g \in Goods : Units(g)' = bag'[g] + Shop(rows', g) + Sent(parcels', g)
    /\ Typed => /\ IsShop(rows) /\ parcels \in [Buyers -> [Goods -> Nat]]
                /\ \A g \in Goods : bag[g] \in Nat /\ Shop(rows, g) \in Nat /\ Sent(parcels, g) \in Nat
    /\ Typed' => /\ IsShop(rows')
                 /\ \A g \in Goods : bag'[g] \in Nat /\ Shop(rows', g) \in Nat /\ Sent(parcels', g) \in Nat
<1>1. /\ \A g \in Goods : Units(g) = bag[g] + Shop(rows, g) + Sent(parcels, g)
      /\ \A g \in Goods : Units(g)' = bag'[g] + Shop(rows', g) + Sent(parcels', g)
  BY DEF Units, Listed, Delivered, Shop, Sent
<1>2. ASSUME Typed
      PROVE  /\ IsShop(rows) /\ parcels \in [Buyers -> [Goods -> Nat]]
             /\ \A g \in Goods : bag[g] \in Nat /\ Shop(rows, g) \in Nat /\ Sent(parcels, g) \in Nat
  <2>1. IsShop(rows) /\ parcels \in [Buyers -> [Goods -> Nat]] /\ bag \in [Goods -> Nat]
    BY <1>2 DEF Typed, TypeOK, Numbers, IsShop
  <2> QED
    BY <2>1, ShopTyped, SentTyped
<1>3. ASSUME Typed'
      PROVE  /\ IsShop(rows')
             /\ \A g \in Goods : bag'[g] \in Nat /\ Shop(rows', g) \in Nat /\ Sent(parcels', g) \in Nat
  <2>1. IsShop(rows') /\ parcels' \in [Buyers -> [Goods -> Nat]] /\ bag' \in [Goods -> Nat]
    BY <1>3 DEF Typed, TypeOK, Numbers, IsShop
  <2> QED
    BY <2>1, ShopTyped, SentTyped
<1> QED
  BY <1>1, <1>2, <1>3

\* In one process: one handler at a time; what a purchase has read is still so, and what is being
\* pulled is still there; and an item counts twice only while a handler is moving it.
OneAtATime == \A p, q \in Players : step[p] # Idle /\ step[q] # Idle => p = q

SameUnits(r, t) == SameListing(r, t) /\ r.charges = t.charges

Fresh == \A b \in Buyers : step[b].pc \in {"Read", "Marked", "Paid", "Delivered"} =>
             \E r \in rows : SameUnits(r, step[b].row)

PulledThere == In(Seller, "Pulled") => \E r \in rows : r.id = step[Seller].id

Once == \A g \in Goods \ twice :
    /\ (step[Seller].pc \notin {"Inserted", "Pulled"} /\ \A b \in Buyers : ~In(b, "Delivered")) => Units(g) <= Stack[g]
    /\ In(Seller, "Inserted") => Units(g) <= Stack[g] + (IF g \in step[Seller].slots THEN bag[g] ELSE 0)
    /\ In(Seller, "Pulled") => \A r \in rows : r.id = step[Seller].id =>
           Units(g) <= Stack[g] + (IF r.good = g THEN r.charges ELSE 0)
    /\ \A b \in Buyers : In(b, "Delivered") =>
           Units(g) <= Stack[g] + (IF step[b].row.good = g THEN step[b].qty ELSE 0)

NoneTwice == OneAtATime /\ Fresh /\ PulledThere /\ Once

\* Before and after a step of a buyer's handler, ...
LEMMA BuyerAlone ==
    ASSUME NoneTwice, NEW b \in Buyers, step[b] # Idle
    PROVE  /\ \A q \in Players \ {b} : step[q] = Idle
           /\ \A g \in Goods \ twice : Units(g) <= Stack[g] + (IF step[b].pc = "Delivered" /\ step[b].row.good = g THEN step[b].qty ELSE 0)
<1>1. b \in Players /\ Seller \in Players /\ Seller # b /\ Buyers \subseteq Players
  BY Constants
<1>2. \A q \in Players \ {b} : step[q] = Idle
  BY <1>1 DEF NoneTwice, OneAtATime
<1>3. step[Seller] = Idle /\ \A c \in Buyers \ {b} : step[c] = Idle
  BY <1>1, <1>2
<1>4. ASSUME NEW g \in Goods \ twice PROVE Units(g) <= Stack[g] + (IF step[b].pc = "Delivered" /\ step[b].row.good = g THEN step[b].qty ELSE 0)
  <2>1. CASE step[b].pc = "Delivered"
    BY <2>1 DEF NoneTwice, Once, In
  <2>2. CASE step[b].pc # "Delivered"
    <3>1. Units(g) <= Stack[g]
      BY <1>3, <2>2 DEF NoneTwice, Once, In, Idle
    <3>2. Stack[g] + 0 = Stack[g]
      BY Constants
    <3> QED
      BY <2>2, <3>1, <3>2
  <2> QED
    BY <2>1, <2>2
<1> QED
  BY <1>2, <1>4

\* What a step of a buyer's handler has to show.
LEMMA BuyerAfter ==
    ASSUME NEW b \in Buyers, \A q \in Players \ {b} : step'[q] = Idle,
           step'[b].pc \in {"Read", "Marked", "Paid", "Delivered"} => \E r \in rows' : SameUnits(r, step'[b].row),
           \A g \in Goods \ twice' : Units(g)' <= Stack[g] + (IF step'[b].pc = "Delivered" /\ step'[b].row.good = g THEN step'[b].qty ELSE 0)
    PROVE  NoneTwice'
<1>1. b \in Players /\ Seller \in Players /\ Seller # b /\ Buyers \subseteq Players
  BY Constants
<1>2. step'[Seller].pc = "Idle" /\ \A c \in Buyers \ {b} : step'[c].pc = "Idle"
  BY <1>1 DEF Idle
<1>3. OneAtATime'
  BY <1>1 DEF OneAtATime
<1>4. Fresh'
  BY <1>2 DEF Fresh
<1>5. PulledThere'
  BY <1>2 DEF PulledThere, In
<1>6. \A g \in Goods : Stack[g] + 0 = Stack[g]
  BY Constants
<1>7. Once'
  BY <1>2, <1>6 DEF Once, In
<1> QED
  BY <1>3, <1>4, <1>5, <1>7 DEF NoneTwice

\* ... and of the seller's.
LEMMA SellerAfter ==
    ASSUME \A b \in Buyers : step'[b] = Idle, PulledThere',
           \A g \in Goods \ twice' : /\ step'[Seller].pc \notin {"Inserted", "Pulled"} => Units(g)' <= Stack[g]
                                     /\ In(Seller, "Inserted")' => Units(g)' <= Stack[g] + (IF g \in step'[Seller].slots THEN bag'[g] ELSE 0)
                                     /\ In(Seller, "Pulled")' => \A r \in rows' : r.id = step'[Seller].id =>
                                            Units(g)' <= Stack[g] + (IF r.good = g THEN r.charges ELSE 0)
    PROVE  NoneTwice'
<1>1. \A b \in Buyers : step'[b].pc = "Idle"
  BY DEF Idle
<1>2. OneAtATime'
  BY Constants DEF OneAtATime
<1>3. Fresh'
  BY <1>1 DEF Fresh
<1>4. Once'
  BY <1>1 DEF Once, In
<1> QED
  BY <1>2, <1>3, <1>4 DEF NoneTwice

\* ... and of the seller's.
LEMMA SellerAlone ==
    ASSUME NoneTwice, step[Seller] # Idle PROVE \A b \in Buyers : step[b] = Idle
BY Constants DEF NoneTwice, OneAtATime

\* Who starts is alone too.
LEMMA StartAlone ==
    ASSUME SameZone, NoneTwice, NEW p \in Players, MayStart(p)
    PROVE  (\A q \in Players : step[q] = Idle) /\ \A g \in Goods \ twice : Units(g) <= Stack[g]
<1>1. \A q \in Players : step[q] = Idle
  BY DEF MayStart, Process
<1>2. step[Seller].pc = "Idle" /\ \A b \in Buyers : step[b].pc = "Idle"
  BY <1>1, Constants DEF Idle
<1> QED
  BY <1>1, <1>2 DEF NoneTwice, Once, In

\* Rows that only change their marks.
LEMMA MarkedUnits ==
    ASSUME Typed, NEW id, NEW status \in BOOLEAN, SetActive(id, status)
    PROVE  /\ \A g \in Goods : Shop(rows', g) = Shop(rows, g)
           /\ \A r \in rows : \E t \in rows' : SameUnits(t, r)
<1>1. IsShop(rows)
  BY UnitsAre
<1>2. Remarked(rows, rows')
  BY <1>1, Marking DEF IsShop
<1> QED
  BY <1>1, <1>2, ShopMarked DEF Remarked, SameUnits, SameListing

\* The steps of a purchase.
LEMMA OnceBuy ==
    ASSUME SameZone, Typed, NoneTwice, NEW b \in Buyers, Buy(b) PROVE NoneTwice'
<1>0. twice' = twice
  BY DEF Buy, history
<1>1. UNCHANGED <<bag, rows, parcels>> /\ b \in Players
  BY Constants DEF Buy, items
<1>2. (\A q \in Players : step[q] = Idle) /\ \A g \in Goods \ twice : Units(g) <= Stack[g]
  BY <1>1, StartAlone DEF Buy
<1>3. PICK r \in rows : \E qty \in IF r.good \in Stackable THEN 1 .. r.charges ELSE {1} :
                           Goto(b, [pc |-> "Read", row |-> r, qty |-> qty])
  BY DEF Buy
<1>4. PICK qty : Goto(b, [pc |-> "Read", row |-> r, qty |-> qty])
  BY <1>3
<1>5. step'[b] = [pc |-> "Read", row |-> r, qty |-> qty] /\ \A q \in Players \ {b} : step'[q] = Idle
  BY <1>1, <1>2, <1>4 DEF Typed, Handlers, Goto
<1>6. \E t \in rows' : SameUnits(t, step'[b].row)
  BY <1>1, <1>5 DEF SameUnits, SameListing
<1>7. \A g \in Goods \ twice : Units(g)' <= Stack[g] + 0
  BY <1>1, <1>2, UnitsAre, Constants
<1> QED
  BY <1>0, <1>5, <1>6, <1>7, BuyerAfter

\* The steps of a purchase that move no unit.
LEMMA OnceGoesOn ==
    ASSUME Typed, NoneTwice, NEW b \in Buyers, MarkActive(b) \/ TakeMoney(b)
    PROVE  NoneTwice'
<1>0. twice' = twice
  BY DEF MarkActive, TakeMoney, history
<1>1. /\ step[b].pc \in {"Read", "Marked"} /\ UNCHANGED <<bag, parcels>>
      /\ rows' = rows \/ SetActive(step[b].row.id, TRUE)
      /\ \E pc \in {"Marked", "Paid"} : Goto(b, [step[b] EXCEPT !.pc = pc])
  BY DEF MarkActive, TakeMoney, In, items
<1>2. step[b] \in BuyerSteps /\ step[b] # Idle
  BY <1>1, BuyerIn DEF Typed
<1>3. (\A q \in Players \ {b} : step[q] = Idle) /\ \A g \in Goods \ twice : Units(g) <= Stack[g] + 0
  BY <1>1, <1>2, BuyerAlone
<1>4. PICK pc \in {"Marked", "Paid"} : Goto(b, [step[b] EXCEPT !.pc = pc])
  BY <1>1
<1>5. step'[b] = [step[b] EXCEPT !.pc = pc] /\ \A q \in Players \ {b} : step'[q] = Idle
  BY <1>3, <1>4, Constants DEF Typed, Handlers, Goto
<1>6. step'[b].pc # "Delivered" /\ step'[b].row = step[b].row
  BY <1>2, <1>5 DEF BuyerSteps
<1>7. \E r \in rows : SameUnits(r, step[b].row)
  BY <1>1 DEF NoneTwice, Fresh
<1>8. (\A g \in Goods : Shop(rows', g) = Shop(rows, g)) /\ \A r \in rows : \E t \in rows' : SameUnits(t, r)
  BY <1>1, MarkedUnits DEF SameUnits, SameListing
<1>9. \E r \in rows' : SameUnits(r, step'[b].row)
  BY <1>6, <1>7, <1>8 DEF SameUnits, SameListing
<1>10. \A g \in Goods \ twice : Units(g)' <= Stack[g] + 0
  BY <1>1, <1>3, <1>8, UnitsAre
<1> QED
  BY <1>0, <1>5, <1>6, <1>9, <1>10, BuyerAfter

\* A purchase that ends.
LEMMA OnceEnds ==
    ASSUME Typed, NoneTwice, NEW b \in Buyers, RefuseBuyer(b) \/ LoseParcel(b) \/ TellWorld(b)
    PROVE  NoneTwice'
<1>0. twice' = twice
  BY DEF RefuseBuyer, LoseParcel, TellWorld, history
<1>1. /\ step[b].pc \in {"Marked", "Paid", "Taken"} /\ UNCHANGED <<bag, parcels>>
      /\ rows' = rows \/ SetActive(step[b].row.id, FALSE)
      /\ Goto(b, Idle)
  BY DEF RefuseBuyer, LoseParcel, TellWorld, In, items
<1>2. step[b] # Idle
  BY <1>1 DEF Idle
<1>3. (\A q \in Players \ {b} : step[q] = Idle) /\ \A g \in Goods \ twice : Units(g) <= Stack[g] + 0
  BY <1>1, <1>2, BuyerAlone
<1>4. step'[b] = Idle /\ \A q \in Players \ {b} : step'[q] = Idle
  BY <1>1, <1>3, Constants DEF Typed, Handlers, Goto
<1>5. \A g \in Goods : Shop(rows', g) = Shop(rows, g)
  BY <1>1, MarkedUnits
<1>6. \A g \in Goods \ twice : Units(g)' <= Stack[g] + 0
  BY <1>1, <1>3, <1>5, UnitsAre
<1> QED
  BY <1>0, <1>4, <1>6, BuyerAfter DEF Idle

\* The parcel is sent: its units exist twice, and only while the handler goes on.
LEMMA OnceSend ==
    ASSUME Typed, Typed', NoneTwice, NEW b \in Buyers, SendParcel(b)
    PROVE  NoneTwice'
<1> DEFINE h == step[b].row.good
           n == step[b].qty
<1>0. twice' = twice
  BY DEF SendParcel, history
<1>1. /\ step[b].pc = "Paid" /\ UNCHANGED <<bag, rows>>
      /\ parcels' = [parcels EXCEPT ![b][h] = @ + n]
      /\ Goto(b, [step[b] EXCEPT !.pc = "Delivered"])
  BY DEF SendParcel, In
<1>2. step[b] \in BuyerSteps /\ step[b] # Idle /\ n \in Nat /\ h \in Goods
  BY <1>1, BuyerIn DEF Typed, RowType
<1>3. (\A q \in Players \ {b} : step[q] = Idle) /\ \A g \in Goods \ twice : Units(g) <= Stack[g] + 0
  BY <1>1, <1>2, BuyerAlone
<1>4. step'[b] = [step[b] EXCEPT !.pc = "Delivered"] /\ \A q \in Players \ {b} : step'[q] = Idle
  BY <1>1, <1>3, Constants DEF Typed, Handlers, Goto
<1>5. step'[b].pc = "Delivered" /\ step'[b].row = step[b].row /\ step'[b].qty = step[b].qty
  BY <1>2, <1>4 DEF BuyerSteps
<1>6. \E r \in rows' : SameUnits(r, step'[b].row)
  BY <1>1, <1>5 DEF NoneTwice, Fresh
<1>7. ASSUME NEW g \in Goods, g \notin twice PROVE Units(g)' <= Stack[g] + (IF h = g THEN n ELSE 0)
  <2> HIDE DEF h, n
  <2>1. parcels \in [Buyers -> [Goods -> Nat]] /\ parcels' \in [Buyers -> [Goods -> Nat]]
    BY DEF Typed, TypeOK
  <2> DEFINE k == IF g = h THEN n ELSE 0
  <2>4. k \in Int /\ (\A c \in Buyers \ {b} : parcels'[c][g] = parcels[c][g]) /\ parcels'[b][g] = parcels[b][g] + k
    BY <1>1, <1>2, <2>1
  <2> HIDE DEF k
  <2>5. Sent(parcels', g) = Sent(parcels, g) + k
    BY <2>1, <2>4, SentAdded
  <2>2. Sent(parcels', g) = Sent(parcels, g) + (IF g = h THEN n ELSE 0)
    BY <2>5 DEF k
  <2>3. /\ Units(g) = bag[g] + Shop(rows, g) + Sent(parcels, g) /\ Units(g)' = bag[g] + Shop(rows, g) + Sent(parcels', g)
        /\ bag[g] \in Nat /\ Shop(rows, g) \in Nat /\ Sent(parcels, g) \in Nat /\ Stack[g] \in Nat /\ Units(g) <= Stack[g] + 0
    BY <1>1, <1>3, <1>7, UnitsAre, Constants
  <2> QED
    BY <1>2, <2>2, <2>3
<1> QED
  BY <1>0, <1>4, <1>5, <1>6, <1>7, BuyerAfter

\* The row a serial finds is the listing that was read.
LEMMA RowBySerial ==
    ASSUME Typed, Serials, NEW b \in Buyers, step[b].pc # "Idle", NEW r \in rows, r.id = step[b].row.id
    PROVE  /\ \A t \in rows : t.sn = step[b].row.sn <=> t = r
           /\ RowWithSn(step[b].row.sn) = {r} /\ RowWithId(step[b].row.id) = {r}
           /\ Cardinality(RowWithSn(step[b].row.sn)) = 1 /\ r.good = step[b].row.good
<1>1. step[b].row \in Known /\ rows \subseteq Known
  BY BuyerIn DEF Typed, Known, Reading
<1>2. \A t \in rows : t.sn = step[b].row.sn <=> t = r
  BY <1>1 DEF Serials, Typed, Numbers
<1>3. RowWithSn(step[b].row.sn) = {r} /\ RowWithId(step[b].row.id) = {r}
  BY <1>2 DEF RowWithSn, RowWithId, Typed, Numbers
<1>4. Cardinality({r}) = 1
  BY FS_Singleton
<1> QED
  BY <1>1, <1>2, <1>3, <1>4 DEF Serials

\* TakeOffShop, of a row that is there.
LEMMA TakenOffRow ==
    ASSUME Typed, Serials, NEW b \in Buyers, TakeOffShop(b), NEW r \in rows, r.id = step[b].row.id
    PROVE  \/ /\ step[b].row.charges <= step[b].qty \/ step[b].row.good \notin Stackable
              /\ rows' = rows \ {r}
           \/ /\ step[b].row.charges > step[b].qty /\ step[b].row.good \in Stackable
              /\ rows' = (rows \ {r}) \cup {[r EXCEPT !.charges = step[b].row.charges - step[b].qty]}
              /\ [r EXCEPT !.charges = step[b].row.charges - step[b].qty] \in RowType
<1> DEFINE row == step[b].row
           qty == step[b].qty
           y == [r EXCEPT !.charges = row.charges - qty]
<1>1. /\ rows' = IF row.charges <= qty \/ row.good \notin Stackable
                 THEN rows \ RowWithId(row.id)
                 ELSE IF Cardinality(RowWithSn(row.sn)) # 1 THEN rows
                 ELSE {IF t.sn = row.sn THEN [t EXCEPT !.charges = row.charges - qty] ELSE t : t \in rows}
      /\ step[b].pc = "Delivered"
  BY DEF TakeOffShop, In
<1>2. /\ \A t \in rows : t.sn = row.sn <=> t = r
      /\ RowWithId(row.id) = {r} /\ Cardinality(RowWithSn(row.sn)) = 1
  BY <1>1, RowBySerial
<1>3. row.charges \in Nat /\ qty \in Nat
  BY <1>1, BuyerIn DEF Typed, RowType
<1>4. CASE row.charges <= qty \/ row.good \notin Stackable
  BY <1>1, <1>2, <1>4
<1>5. CASE ~(row.charges <= qty \/ row.good \notin Stackable)
  <2>1. rows' = {IF t.sn = row.sn THEN [t EXCEPT !.charges = row.charges - qty] ELSE t : t \in rows}
    BY <1>1, <1>2, <1>5
  <2>2. \A t \in rows : (IF t.sn = row.sn THEN [t EXCEPT !.charges = row.charges - qty] ELSE t) = (IF t = r THEN y ELSE t)
    BY <1>2
  <2>3. row.charges - qty \in Nat \ {0}
    BY <1>3, <1>5
  <2>4. y \in RowType
    BY <2>3 DEF Typed, TypeOK, RowType
  <2> DEFINE M(t) == IF t.sn = row.sn THEN [t EXCEPT !.charges = row.charges - qty] ELSE t
             N(t) == IF t = r THEN y ELSE t
  <2>7. rows' = {M(t) : t \in rows} /\ \A t \in rows : M(t) = N(t)
    BY <2>1, <2>2
  <2> HIDE DEF M, N
  <2>8. rows' = {N(t) : t \in rows}
    BY <2>7
  <2> HIDE DEF y, row, qty
  <2>5. rows' = {IF t = r THEN y ELSE t : t \in rows}
    BY <2>8 DEF N
  <2>6. rows' = (rows \ {r}) \cup {y}
    BY <2>5
  <2> QED
    BY <1>3, <1>5, <2>4, <2>6 DEF y, row, qty
<1> QED
  BY <1>4, <1>5

\* The row is as it was read, so what is left of it is right.
LEMMA OnceTakeOff ==
    ASSUME Typed, Typed', Serials, NoneTwice, NEW b \in Buyers, TakeOffShop(b)
    PROVE  NoneTwice'
<1> DEFINE row == step[b].row
           qty == step[b].qty
<1>0. twice' = twice
  BY DEF TakeOffShop, history
<1>1. step[b].pc = "Delivered" /\ UNCHANGED <<bag, parcels>> /\ Goto(b, [step[b] EXCEPT !.pc = "Taken"])
  BY DEF TakeOffShop, In
<1>2. step[b] \in BuyerSteps /\ step[b] # Idle /\ qty \in Nat \ {0} /\ row.charges \in Nat /\ qty <= row.charges
  BY <1>1, BuyerIn DEF Typed, RowType
<1>3. (\A q \in Players \ {b} : step[q] = Idle) /\ \A g \in Goods \ twice : Units(g) <= Stack[g] + (IF row.good = g THEN qty ELSE 0)
  BY <1>1, <1>2, BuyerAlone
<1>4. step'[b] = [step[b] EXCEPT !.pc = "Taken"] /\ \A q \in Players \ {b} : step'[q] = Idle
  BY <1>1, <1>3, Constants DEF Typed, Handlers, Goto
<1>5. step'[b].pc = "Taken"
  BY <1>2, <1>4 DEF BuyerSteps
<1>6. PICK r \in rows : SameUnits(r, row)
  BY <1>1 DEF NoneTwice, Fresh
<1>7. r.id = row.id /\ r.good = row.good /\ r.charges = row.charges /\ r \in RowType /\ IsShop(rows)
  BY <1>6, UnitsAre DEF SameUnits, SameListing, IsShop
<1>8. ASSUME NEW g \in Goods
      PROVE  Shop(rows', g) + (IF row.good = g THEN qty ELSE 0) <= Shop(rows, g)
  <2> DEFINE y == [r EXCEPT !.charges = row.charges - qty]
  <2>1. \/ (row.charges <= qty \/ row.good \notin Stackable) /\ rows' = rows \ {r}
        \/ row.charges > qty /\ rows' = (rows \ {r}) \cup {y} /\ y \in RowType
    BY <1>7, TakenOffRow
  <2>2. y.id = r.id /\ y.good = r.good /\ y.charges = row.charges - qty
    BY <1>7 DEF RowType
  <2> HIDE DEF y
  <2>3. CASE rows' = rows \ {r}
    <3>1. Shop(rows, g) = Shop(rows', g) + (IF r.good = g THEN r.charges ELSE 0) /\ Shop(rows', g) \in Nat
      <4>2. IsShop(rows)
        BY <1>7
      <4>1. Shop(rows, g) = Shop(rows \ {r}, g) + (IF r.good = g THEN r.charges ELSE 0)
        BY <4>2, ShopLess
      <4>3. Shop(rows', g) \in Nat
        BY UnitsAre
      <4> QED
        BY <2>3, <4>1, <4>3
    <3> QED
      BY <1>2, <1>7, <3>1
  <2>4. CASE row.charges > qty /\ rows' = (rows \ {r}) \cup {y} /\ y \in RowType
    <3>1. Shop(rows', g) = Shop(rows, g) - (IF r.good = g THEN r.charges ELSE 0) + (IF r.good = g THEN y.charges ELSE 0)
      BY <1>7, <2>2, <2>4, ShopWritten
    <3>2. Shop(rows, g) \in Nat
      BY UnitsAre
    <3> QED
      BY <1>2, <1>7, <2>2, <3>1, <3>2
  <2> QED
    BY <2>1, <2>3, <2>4
<1>9. ASSUME NEW g \in Goods \ twice PROVE Units(g)' <= Stack[g] + 0
  <2>1. /\ Units(g) = bag[g] + Shop(rows, g) + Sent(parcels, g) /\ Units(g)' = bag[g] + Shop(rows', g) + Sent(parcels, g)
        /\ bag[g] \in Nat /\ Shop(rows, g) \in Nat /\ Sent(parcels, g) \in Nat /\ Stack[g] \in Nat /\ Shop(rows', g) \in Nat
    BY <1>1, UnitsAre, Constants
  <2> HIDE DEF row, qty
  <2> QED
    BY <1>2, <1>3, <1>8, <2>1
<1> QED
  BY <1>0, <1>4, <1>5, <1>9, BuyerAfter

\* The steps of the seller's handler.
LEMMA OnceAdd ==
    ASSUME SameZone, Typed, Typed', NoneTwice, AddItemsToShop PROVE NoneTwice'
<1> USE Constants
<1>1. PICK n \in Nat \ {0} : \E list \in [1 .. n -> Goods] : Lists(n, list)
  BY Listing
<1>2. PICK list \in [1 .. n -> Goods] : Lists(n, list)
  BY <1>1
<1> DEFINE New(i) == Row(last_id + i, shopsn + i - 1, list[i], bag[list[i]])
<1>3. UNCHANGED <<bag, parcels>> /\ rows' = rows \cup {New(i) : i \in 1 .. n}
  BY <1>2 DEF AddItemsToShop, Lists
<1>4. (\A q \in Players : step[q] = Idle) /\ \A g \in Goods \ twice : Units(g) <= Stack[g]
  BY StartAlone DEF AddItemsToShop
<1>5. /\ step'[Seller].pc = "Inserted" /\ step'[Seller].slots = Range(list) /\ \A b \in Buyers : step'[b] = Idle
  BY <1>2, <1>4 DEF Typed, Handlers, Goto, Lists
<1>6. \A i \in 1 .. n : New(i).good = list[i] /\ New(i).charges = bag[list[i]]
  BY DEF Row
<1> HIDE DEF New
<1>7. ASSUME NEW g \in Goods \ twice'
      PROVE  g \notin twice /\ Shop(rows', g) <= Shop(rows, g) + (IF g \in Range(list) THEN bag[g] ELSE 0)
  <2> DEFINE S == {r \in rows : r.good = g}
             T == {r \in rows' : r.good = g}
  <2>1. \A i, j \in 1 .. n : list[i] = g /\ list[j] = g => i = j
    BY <1>2 DEF Lists
  <2>2. g \notin twice
    BY <1>2 DEF Lists
  <2>3. IsShop(rows) /\ IsShop(rows') /\ bag[g] \in Nat
    BY UnitsAre
  <2>4. CASE g \notin Range(list)
    <3>1. \A i \in 1 .. n : list[i] # g
      BY <2>4 DEF Range
    <3>2. T = S
      BY <1>3, <1>6, <3>1
    <3>3. Shop(rows', g) = Shop(rows, g)
      BY <3>2 DEF Shop
    <3>4. Shop(rows, g) \in Nat
      BY <2>3, ShopTyped
    <3> QED
      BY <2>2, <2>4, <3>3, <3>4
  <2>5. CASE g \in Range(list)
    <3>1. PICK i \in 1 .. n : list[i] = g
      BY <2>5 DEF Range
    <3>2. T = S \cup {New(i)}
      <4>1. \A r \in T : r \in S \cup {New(i)}
        BY <1>3, <1>6, <2>1, <3>1
      <4>2. New(i) \in T /\ S \subseteq T
        BY <1>3, <1>6, <3>1
      <4> QED
        BY <4>1, <4>2
    <3>3. New(i).charges = bag[g]
      BY <1>6, <3>1
    <3>4. Shop(rows', g) <= Shop(rows, g) + New(i).charges
      BY <2>3, <3>2, <3>3, ShopGains
    <3> QED
      BY <2>2, <2>5, <3>3, <3>4
  <2> QED
    BY <2>4, <2>5
<1>8. ASSUME NEW g \in Goods \ twice'
      PROVE  Units(g)' <= Stack[g] + (IF g \in Range(list) THEN bag[g] ELSE 0)
  <2>1. /\ Units(g) = bag[g] + Shop(rows, g) + Sent(parcels, g) /\ Units(g)' = bag[g] + Shop(rows', g) + Sent(parcels, g)
        /\ bag[g] \in Nat /\ Shop(rows, g) \in Nat /\ Sent(parcels, g) \in Nat /\ Stack[g] \in Nat /\ Shop(rows', g) \in Nat
    BY <1>3, UnitsAre
  <2> QED
    BY <1>4, <1>7, <2>1
<1>9. PulledThere'
  BY <1>5 DEF PulledThere, In
<1> QED
  BY <1>3, <1>5, <1>8, <1>9, SellerAfter DEF In

\* The units of a listing leave the bags.
LEMMA OnceEscrow ==
    ASSUME Typed, Typed', NoneTwice, EscrowItem PROVE NoneTwice'
<1> USE Constants
<1>0. twice' = twice
  BY DEF EscrowItem, history
<1>1. In(Seller, "Inserted") /\ UNCHANGED <<rows, parcels>>
  BY DEF EscrowItem
<1>2. PICK h \in step[Seller].slots : bag' = [bag EXCEPT ![h] = 0] /\ step' = [step EXCEPT ![Seller].slots = @ \ {h}]
  BY DEF EscrowItem
<1>3. step[Seller] \in [pc : {"Inserted"}, slots : SUBSET Goods, next_sn : 1 .. MaxListings + 1] /\ step[Seller] # Idle
  BY <1>1, SellerIn DEF Typed, In, Idle
<1>4. \A b \in Buyers : step[b] = Idle
  BY <1>3, SellerAlone
<1>5. /\ step'[Seller].pc = "Inserted" /\ step'[Seller].slots = step[Seller].slots \ {h} /\ \A b \in Buyers : step'[b] = Idle
  BY <1>2, <1>3, <1>4 DEF Typed, Handlers
<1>6. ASSUME NEW g \in Goods \ twice
      PROVE  Units(g)' <= Stack[g] + (IF g \in step'[Seller].slots THEN bag'[g] ELSE 0)
  <2>1. /\ Units(g) = bag[g] + Shop(rows, g) + Sent(parcels, g) /\ Units(g)' = bag'[g] + Shop(rows, g) + Sent(parcels, g)
        /\ bag[g] \in Nat /\ Shop(rows, g) \in Nat /\ Sent(parcels, g) \in Nat /\ Stack[g] \in Nat
    BY <1>1, UnitsAre
  <2>2. Units(g) <= Stack[g] + (IF g \in step[Seller].slots THEN bag[g] ELSE 0)
    BY <1>1 DEF NoneTwice, Once
  <2>3. bag'[g] = IF g = h THEN 0 ELSE bag[g]
    BY <1>2 DEF Typed, TypeOK
  <2>4. CASE g = h
    BY <1>2, <2>1, <2>2, <2>3, <2>4, <1>5
  <2>5. CASE g # h
    BY <2>1, <2>2, <2>3, <2>5, <1>5
  <2> QED
    BY <2>4, <2>5
<1>7. PulledThere'
  BY <1>5 DEF PulledThere, In
<1> QED
  BY <1>0, <1>5, <1>6, <1>7, SellerAfter DEF In

\* The serial is saved, and no unit moves.
LEMMA OnceSave ==
    ASSUME Typed, Typed', NoneTwice, SaveSerial PROVE NoneTwice'
<1> USE Constants
<1>0. twice' = twice
  BY DEF SaveSerial, history
<1>1. In(Seller, "Inserted") /\ step[Seller].slots = {} /\ UNCHANGED <<bag, rows, parcels>> /\ Goto(Seller, Idle)
  BY DEF SaveSerial
<1>2. \A b \in Buyers : step[b] = Idle
  BY <1>1, SellerIn, SellerAlone DEF Typed, In
<1>3. step'[Seller].pc = "Idle" /\ \A b \in Buyers : step'[b] = Idle
  BY <1>1, <1>2, SellerMoves DEF Idle
<1>4. ASSUME NEW g \in Goods \ twice PROVE Units(g)' <= Stack[g]
  <2>1. Units(g) <= Stack[g] + 0 /\ Units(g)' = Units(g) /\ Stack[g] \in Nat
    BY <1>1, UnitsAre DEF NoneTwice, Once
  <2> QED
    BY <2>1
<1>5. PulledThere'
  BY <1>3 DEF PulledThere, In
<1> QED
  BY <1>0, <1>3, <1>4, <1>5, SellerAfter DEF In

\* The row being pulled exists twice, ...
LEMMA OncePull ==
    ASSUME SameZone, Typed, Typed', NoneTwice, PullShopItem PROVE NoneTwice'
<1> USE Constants
<1>0. twice' = twice
  BY DEF PullShopItem, history
<1>1. PICK r \in rows : bag' = [bag EXCEPT ![r.good] = @ + r.charges] /\ Goto(Seller, [pc |-> "Pulled", id |-> r.id])
  BY DEF PullShopItem
<1>2. UNCHANGED <<rows, parcels>> /\ r \in RowType /\ \A t \in rows : t.id = r.id => t = r
  BY DEF PullShopItem, Typed, TypeOK, Numbers
<1>3. (\A q \in Players : step[q] = Idle) /\ \A g \in Goods \ twice : Units(g) <= Stack[g]
  BY StartAlone DEF PullShopItem
<1>4. step'[Seller].pc = "Pulled" /\ step'[Seller].id = r.id /\ \A b \in Buyers : step'[b] = Idle
  BY <1>1, <1>3, SellerMoves
<1>5. ASSUME NEW g \in Goods \ twice PROVE Units(g)' <= Stack[g] + (IF r.good = g THEN r.charges ELSE 0)
  <2>1. /\ Units(g) = bag[g] + Shop(rows, g) + Sent(parcels, g) /\ Units(g)' = bag'[g] + Shop(rows, g) + Sent(parcels, g)
        /\ bag[g] \in Nat /\ Shop(rows, g) \in Nat /\ Sent(parcels, g) \in Nat /\ Stack[g] \in Nat /\ Units(g) <= Stack[g]
    BY <1>2, <1>3, UnitsAre
  <2>2. bag'[g] = bag[g] + (IF r.good = g THEN r.charges ELSE 0) /\ r.charges \in Nat
    BY <1>1, <1>2, <2>1 DEF Typed, TypeOK, RowType
  <2> QED
    BY <2>1, <2>2
<1>6. PulledThere'
  BY <1>2, <1>4 DEF PulledThere
<1> QED
  BY <1>0, <1>2, <1>4, <1>5, <1>6, SellerAfter DEF In

\* ... until it is deleted.
LEMMA OnceDelete ==
    ASSUME Typed, Typed', NoneTwice, DeletePulled PROVE NoneTwice'
<1> USE Constants
<1>0. twice' = twice
  BY DEF DeletePulled, history
<1>1. In(Seller, "Pulled") /\ UNCHANGED <<bag, parcels>> /\ Goto(Seller, Idle) /\ rows' = rows \ RowWithId(step[Seller].id)
  BY DEF DeletePulled
<1>2. \A b \in Buyers : step[b] = Idle
  BY <1>1, SellerIn, SellerAlone DEF Typed, In
<1>3. step'[Seller].pc = "Idle" /\ \A b \in Buyers : step'[b] = Idle
  BY <1>1, <1>2, SellerMoves DEF Idle
<1>4. PICK r \in rows : r.id = step[Seller].id
  BY <1>1 DEF NoneTwice, PulledThere
<1>5. rows' = rows \ {r} /\ IsShop(rows)
  BY <1>1, <1>4, UnitsAre DEF RowWithId, IsShop
<1>6. ASSUME NEW g \in Goods \ twice PROVE Units(g)' <= Stack[g]
  <2>1. /\ Units(g) = bag[g] + Shop(rows, g) + Sent(parcels, g) /\ Units(g)' = bag[g] + Shop(rows', g) + Sent(parcels, g)
        /\ bag[g] \in Nat /\ Shop(rows, g) \in Nat /\ Sent(parcels, g) \in Nat /\ Stack[g] \in Nat /\ Shop(rows', g) \in Nat
    BY <1>1, UnitsAre
  <2>2. Units(g) <= Stack[g] + (IF r.good = g THEN r.charges ELSE 0)
    BY <1>1, <1>4 DEF NoneTwice, Once
  <2>3. Shop(rows, g) = Shop(rows', g) + (IF r.good = g THEN r.charges ELSE 0) /\ r.charges \in Nat
    <3>1. Shop(rows, g) = Shop(rows \ {r}, g) + (IF r.good = g THEN r.charges ELSE 0)
      BY <1>5, ShopTaken
    <3>2. r.charges \in Nat
      BY <1>5 DEF IsShop, RowType
    <3> QED
      BY <1>5, <3>1, <3>2
  <2> QED
    BY <2>1, <2>2, <2>3
<1>7. PulledThere'
  BY <1>3 DEF PulledThere, In
<1> QED
  BY <1>0, <1>3, <1>6, <1>7, SellerAfter DEF In

\* Steps that begin when no handler runs and end there, with no more units than before.
LEMMA OnceIdle ==
    ASSUME Typed, Typed', \A q \in Players : step[q] = Idle, \A g \in Goods \ twice : Units(g) <= Stack[g],
           step' = step, UNCHANGED <<parcels, twice>>,
           \A g \in Goods : bag'[g] <= bag[g] /\ Shop(rows', g) <= Shop(rows, g)
    PROVE  NoneTwice'
<1>1. step'[Seller].pc = "Idle" /\ \A b \in Buyers : step'[b] = Idle
  BY Constants DEF Idle
<1>2. ASSUME NEW g \in Goods \ twice PROVE Units(g)' <= Stack[g]
  <2>1. /\ Units(g) = bag[g] + Shop(rows, g) + Sent(parcels, g) /\ Units(g)' = bag'[g] + Shop(rows', g) + Sent(parcels, g)
        /\ bag[g] \in Nat /\ Shop(rows, g) \in Nat /\ Sent(parcels, g) \in Nat /\ Stack[g] \in Nat
        /\ bag'[g] \in Nat /\ Shop(rows', g) \in Nat /\ Units(g) <= Stack[g] /\ bag'[g] <= bag[g] /\ Shop(rows', g) <= Shop(rows, g)
    BY UnitsAre, Constants
  <2> QED
    BY <2>1
<1>3. PulledThere'
  BY <1>1 DEF PulledThere, In
<1> QED
  BY <1>1, <1>2, <1>3, SellerAfter DEF In

\* A payment moves no unit into being.
LEMMA OncePay ==
    ASSUME SameZone, Typed, Typed', NoneTwice, PaySeller PROVE NoneTwice'
<1>1. PICK m \in to_zone :
         /\ SetActive(m.id, FALSE)
         /\ \/ UNCHANGED bag
            \/ \E g \in {g \in Goods : bag[g] > 0} :
                  bag' = [bag EXCEPT ![g] = IF @ > m.qty THEN @ - m.qty ELSE 0]
  BY DEF PaySeller
<1>2. UNCHANGED <<parcels, step, twice>> /\ m.qty \in Nat /\ bag \in [Goods -> Nat]
  BY DEF PaySeller, Typed, TypeOK, PurchaseType, history
<1>3. (\A q \in Players : step[q] = Idle) /\ \A g \in Goods \ twice : Units(g) <= Stack[g]
  BY StartAlone, Constants DEF PaySeller
<1>4. \A g \in Goods : Shop(rows', g) <= Shop(rows, g)
  <2>1. SetActive(m.id, FALSE)
    BY <1>1
  <2>2. \A g \in Goods : Shop(rows', g) = Shop(rows, g)
    BY <2>1, MarkedUnits
  <2>3. \A g \in Goods : Shop(rows, g) \in Nat
    BY UnitsAre
  <2> QED
    BY <2>2, <2>3
<1>5. \A g \in Goods : bag'[g] <= bag[g]
  <2>1. ASSUME NEW h \in Goods, bag' = [bag EXCEPT ![h] = IF @ > m.qty THEN @ - m.qty ELSE 0], NEW g \in Goods
        PROVE  bag'[g] <= bag[g]
    <3>1. bag'[g] = IF g = h THEN IF bag[h] > m.qty THEN bag[h] - m.qty ELSE 0 ELSE bag[g]
      BY <1>2, <2>1
    <3>2. bag[g] \in Nat /\ bag[h] \in Nat
      BY <1>2, <2>1
    <3> QED
      BY <1>2, <3>1, <3>2
  <2>2. bag' = bag => \A g \in Goods : bag'[g] <= bag[g]
    BY <1>2
  <2> QED
    BY <1>1, <2>1, <2>2
<1> QED
  BY <1>2, <1>3, <1>4, <1>5, OnceIdle

\* Nor does a seller who moves.
LEMMA OnceMove ==
    ASSUME SameZone, Typed, Typed', NoneTwice, Move PROVE NoneTwice'
<1>1. UNCHANGED <<bag, parcels, step, twice>> /\ rows' = {}
  BY DEF Move, history
<1>2. (\A q \in Players : step[q] = Idle) /\ \A g \in Goods \ twice : Units(g) <= Stack[g]
  BY StartAlone, Constants DEF Move
<1>3. \A g \in Goods : bag'[g] <= bag[g] /\ Shop(rows', g) <= Shop(rows, g)
  BY <1>1, ShopEmpty, UnitsAre
<1> QED
  BY <1>1, <1>2, <1>3, OnceIdle

\* The seller's handlers that move no item.
LEMMA OnceSeller ==
    ASSUME SameZone, Typed, Typed', NoneTwice, LookIntoEscrow \/ ClearEscrow \/ GrantEscrow \/ Arrive
    PROVE  NoneTwice'
<1> USE Constants
<1>0. twice' = twice
  BY DEF LookIntoEscrow, ClearEscrow, GrantEscrow, Arrive, history
<1>1. UNCHANGED <<bag, rows, parcels>>
  BY DEF LookIntoEscrow, ClearEscrow, GrantEscrow, Arrive, items
<1>2. (\A b \in Buyers : step[b] = Idle) /\ step[Seller].pc \notin {"Inserted", "Pulled"}
  <2>1. CASE Arrive
    BY <2>1, StartAlone DEF Arrive, Idle
  <2>2. CASE LookIntoEscrow \/ ClearEscrow \/ GrantEscrow
    <3>1. step[Seller].pc \in {"PayEscrow", "EscrowRead", "EscrowCleared"}
      BY <2>2 DEF LookIntoEscrow, ClearEscrow, GrantEscrow, In
    <3> QED
      BY <3>1, SellerAlone DEF Idle
  <2> QED
    BY <2>1, <2>2
<1>3. (\A b \in Buyers : step'[b] = Idle) /\ step'[Seller].pc \notin {"Inserted", "Pulled"}
  <2>1. CASE Arrive
    <3>1. step' = step \/ Goto(Seller, [pc |-> "PayEscrow"])
      BY <2>1 DEF Arrive
    <3>2. [pc |-> "PayEscrow"].pc = "PayEscrow"
      OBVIOUS
    <3> QED
      BY <1>2, <3>1, <3>2, SellerMoves
  <2>2. CASE LookIntoEscrow
    <3>1. Goto(Seller, Idle) \/ Goto(Seller, [pc |-> "EscrowRead", amount |-> escrow])
      BY <2>2 DEF LookIntoEscrow
    <3> QED
      BY <1>2, <3>1, SellerMoves DEF Idle
  <2>3. CASE GrantEscrow
    BY <1>2, <2>3, SellerMoves DEF GrantEscrow, Idle
  <2>4. CASE ClearEscrow
    <3>1. step[Seller] \in [pc : {"EscrowRead", "EscrowCleared"}, amount : Nat \ {0}]
      BY <2>4, SellerIn DEF Typed, ClearEscrow
    <3> QED
      BY <1>2, <2>4, <3>1 DEF ClearEscrow, Typed, Handlers
  <2> QED
    BY <2>1, <2>2, <2>3, <2>4
<1>4. \A g \in Goods \ twice : Units(g)' <= Stack[g]
  <2>1. \A b \in Buyers : ~In(b, "Delivered")
    BY <1>2 DEF In, Idle
  <2> QED
    BY <1>1, <1>2, <2>1, UnitsAre DEF NoneTwice, Once
<1>5. PulledThere'
  BY <1>3 DEF PulledThere, In
<1> QED
  BY <1>0, <1>3, <1>4, <1>5, SellerAfter DEF In

\* Every step in one process keeps NoneTwice, but the death of the process.
LEMMA OnceStep ==
    ASSUME SameZone, Typed, Typed', Serials, NoneTwice, [Next]_vars, NobodyDies
    PROVE  NoneTwice'
<1>1. CASE \/ RoutePurchase \/ ReadEscrow \/ BankPrice \/ DropPurchase
           \/ Login \/ ZoneOut \/ Disconnect \/ Forget \/ UNCHANGED vars
  <2>1. UNCHANGED <<step, bag, rows, parcels, twice>>
    BY <1>1 DEF RoutePurchase, ReadEscrow, BankPrice, DropPurchase, Login, ZoneOut, Disconnect, Forget, vars, items, history
  <2>2. \A g \in Goods : Units(g)' = Units(g)
    BY <2>1, UnitsAre
  <2>3. OneAtATime'
    BY <2>1 DEF NoneTwice, OneAtATime
  <2>4. Fresh'
    BY <2>1 DEF NoneTwice, Fresh
  <2>5. PulledThere'
    BY <2>1 DEF NoneTwice, PulledThere, In
  <2>6. Once'
    BY <2>1, <2>2 DEF NoneTwice, Once, In
  <2> QED
    BY <2>3, <2>4, <2>5, <2>6 DEF NoneTwice
<1>2. ASSUME NEW b \in Buyers, BuyerStep(b) PROVE NoneTwice'
  BY <1>2, OnceBuy, OnceGoesOn, OnceEnds, OnceSend, OnceTakeOff DEF BuyerStep
<1> QED
  BY <1>1, <1>2, OnceAdd, OnceEscrow, OnceSave, OncePull, OnceDelete, OnceMove, OncePay, OnceSeller
     DEF Next, NobodyDies, BuyerStep

\* In the beginning every unit is in one place.
LEMMA OnceInit == Init => NoneTwice
<1> SUFFICES ASSUME Init PROVE NoneTwice
  OBVIOUS
<1> USE Constants
<1>1. Typed
  BY TypedInit
<1>2. \A q \in Players : step[q] = Idle
  BY DEF Init
<1> DEFINE n == Cardinality(Goods)
<1>3. PICK nth \in Bijection(Goods, 1 .. n) : InitItems(nth)
  BY DEF Init
<1>4. ASSUME NEW g \in Goods PROVE Sent(parcels, g) = 0
  <2> DEFINE f == [b \in Buyers |-> parcels[b][g]]
  <2>1. DOMAIN f = Buyers /\ \A b \in Buyers : f[b] = 0
    BY DEF Init
  <2>2. Sent(parcels, g) = SumFunction(f)
    BY DEF Sent
  <2> HIDE DEF f
  <2>3. SumFunction(f) = 0 * Cardinality(Buyers)
    BY <2>1, SumConstant DEF SumFunction
  <2>4. Cardinality(Buyers) \in Nat
    BY FS_CardinalityType
  <2> QED
    BY <2>2, <2>3, <2>4
<1>5. ASSUME NEW g \in Goods PROVE bag[g] + Shop(rows, g) <= Stack[g]
  <2>1. CASE seller = "Offline"
    <3> DEFINE x == Row(nth[g], nth[g], g, Stack[g])
    <3>1. bag[g] = 0 /\ rows = {Row(nth[h], nth[h], h, Stack[h]) : h \in Goods}
      BY <1>3, <2>1 DEF InitItems
    <3>2. \A h \in Goods : Row(nth[h], nth[h], h, Stack[h]).good = h
      BY DEF Row
    <3>3. {r \in rows : r.good = g} = {r \in {} : r.good = g} \cup {x}
      BY <3>1, <3>2
    <3>4. IsShop(rows) /\ IsShop({}) /\ x.charges = Stack[g] /\ Stack[g] \in Nat
      BY <1>1, UnitsAre DEF Row, IsShop
    <3> HIDE DEF x
    <3>5. Shop(rows, g) <= Shop({}, g) + x.charges
      BY <3>3, <3>4, ShopGains
    <3>6. Shop({}, g) = 0
      BY ShopEmpty
    <3>7. Shop(rows, g) \in Nat
      BY <1>1, UnitsAre
    <3> QED
      BY <3>1, <3>4, <3>5, <3>6, <3>7
  <2>2. CASE seller # "Offline"
    <3>1. bag[g] = Stack[g] /\ Shop(rows, g) = 0
      BY <1>3, <2>2, ShopEmpty DEF InitItems
    <3> QED
      BY <3>1
  <2> QED
    BY <2>1, <2>2
<1>6. ASSUME NEW g \in Goods \ twice PROVE Units(g) <= Stack[g]
  <2>1. /\ Units(g) = bag[g] + Shop(rows, g) + Sent(parcels, g)
        /\ bag[g] \in Nat /\ Shop(rows, g) \in Nat /\ Stack[g] \in Nat
    BY <1>1, UnitsAre
  <2> QED
    BY <1>4, <1>5, <2>1
<1>7. step[Seller].pc = "Idle" /\ \A b \in Buyers : step[b].pc = "Idle"
  BY <1>2 DEF Idle
<1> QED
  BY <1>2, <1>6, <1>7 DEF NoneTwice, OneAtATime, Fresh, PulledThere, Once, In

\* In one zone process no item that no list names twice is ever duplicated between two handlers,
\* whatever is listed, sold, pulled and listed again, as long as the process does not die.
THEOREM NoDupeInOneProcess ==
    ASSUME SameZone
    PROVE  Spec /\ [][NobodyDies]_vars => []NoDupe
<1> DEFINE I == Typed /\ Serials /\ NoneTwice
<1>1. Init => I
  BY TypedInit, SerialsInit, OnceInit
<1>2. I /\ [Next]_vars /\ [NobodyDies]_vars => I'
  <2> SUFFICES ASSUME I, [Next]_vars, [NobodyDies]_vars PROVE I'
    OBVIOUS
  <2>1. Typed'
    BY TypedStep
  <2>2. CASE NobodyDies
    BY <2>1, <2>2, Finishing, SerialsStep, OnceStep
  <2>3. CASE UNCHANGED vars
    <3>1. NobodyDies \/ \E p \in Players : Crash(p)
      BY DEF NobodyDies
    <3>2. ASSUME NEW p \in Players, Crash(p) PROVE FALSE
      <4>1. crashes' = crashes + 1 /\ crashes' = crashes /\ crashes \in Nat
        BY <2>3, <3>2 DEF Crash, vars, Typed, TypeOK
      <4> QED
        BY <4>1
    <3> QED
      BY <2>2, <3>1, <3>2
  <2> QED
    BY <2>2, <2>3
<1>3. I => NoDupe
  BY Constants DEF NoDupe, NoneTwice, Once, In, Idle
<1> HIDE DEF I
<1> QED
  BY <1>1, <1>2, <1>3, PTL DEF Spec

\* ... so nothing is duplicated in one process where none dies.
COROLLARY NoDupeUnlessKilled ==
    ASSUME SameZone, MaxCrashes = 0
    PROVE  Spec => []NoDupe
<1>1. Typed /\ [Next]_vars => [NobodyDies]_vars
  BY NobodyCan
<1>2. Spec => [][NobodyDies]_vars
  BY <1>1, TypedInit, TypedStep, PTL DEF Spec
<1> QED
  BY <1>2, NoDupeInOneProcess, PTL

-------------------------------------------------------------------------------
(* What is sure to stay. *)

Ids == 1 .. MaxListings

\* The charges that the row of an id has, and those that it has had and a purchase still goes by.
RowsOf(R, id)  == {r \in R : r.id = id}
Readers(s, id) == {b \in Buyers : s[b] # Idle /\ s[b].row.id = id}
Seen(R, s, id) == {r.charges : r \in RowsOf(R, id)} \cup {s[b].row.charges : b \in Readers(s, id)}
Least(S)       == CHOOSE n \in S : \A m \in S : n <= m

OnShop(R, g, id) == \E r \in RowsOf(R, id) : r.good = g
Pulling(s, id)   == s[Seller].pc = "Pulled" /\ s[Seller].id = id

\* The units of a row that nothing under way can take off unpaid for: the least of those charges;
\* the row being pulled is in the bags already.
Sure(R, s, g, id) ==
    IF OnShop(R, g, id) /\ ~Pulling(s, id) THEN IF g \in Stackable THEN Least(Seen(R, s, id)) ELSE 1 ELSE 0

\* The units in the bags that are not on the shop too, and those a buyer has got whose row has
\* been taken off.
Held(B, s, g)   == IF s[Seller].pc = "Inserted" /\ g \in s[Seller].slots THEN 0 ELSE B[g]
Got(P, s, b, g) == P[b][g] - (IF s[b].pc = "Delivered" /\ s[b].row.good = g THEN s[b].qty ELSE 0)

Safe(B, R, P, s, g) == Held(B, s, g) + SumFunction([id \in Ids |-> Sure(R, s, g, id)])
                                     + SumFunction([b \in Buyers |-> Got(P, s, b, g)])

\* No unit is lost, even of those that are sure.
Kept == /\ \A b \in Buyers, g \in Goods : Got(parcels, step, b, g) >= 0
        /\ \A g \in Goods : Safe(bag, rows, parcels, step, g) >= Stack[g]

\* The copies of rows that handlers hold are rows.
GoodCopies(s) == \A b \in Buyers : s[b] # Idle => s[b] \in BuyerSteps

\* There are finitely many ids.
LEMMA IdsFinite == IsFiniteSet(Ids)
BY Constants, FS_Interval DEF Ids

\* The least of some numbers.
LEMMA LeastIs ==
    ASSUME NEW S \in SUBSET Nat, IsFiniteSet(S), S # {}
    PROVE  Least(S) \in S /\ \A m \in S : Least(S) <= m
<1> DEFINE G == {T \in SUBSET S : T = {} \/ \E n \in T : \A m \in T : n <= m}
<1>1. {} \in G
  OBVIOUS
<1>2. ASSUME NEW T \in SUBSET S, T # {}, \A x \in T : T \ {x} \in G PROVE T \in G
  <2>1. PICK x \in T : TRUE
    BY <1>2
  <2>2. CASE T \ {x} = {}
    BY <2>1, <2>2
  <2>3. CASE T \ {x} # {}
    <3>1. PICK n \in T \ {x} : \A m \in T \ {x} : n <= m
      BY <1>2, <2>1, <2>3
    <3>2. n \in Nat /\ x \in Nat /\ \A m \in T : m \in Nat
      BY <2>1
    <3>3. CASE n <= x
      BY <3>1, <3>3
    <3>4. CASE ~(n <= x)
      <4>1. \A m \in T : x <= m
        BY <3>1, <3>2, <3>4
      <4> QED
        BY <2>1, <4>1
    <3> QED
      BY <3>3, <3>4
  <2> QED
    BY <2>2, <2>3
<1> HIDE DEF G
<1>3. S \in G
  BY <1>1, <1>2, FiniteInduction
<1> QED
  BY <1>3 DEF G, Least

\* The charges of a listing that the table and the handlers know are positive, and finitely many.
LEMMA SeenTyped ==
    ASSUME NEW R, IsShop(R), NEW s, GoodCopies(s), NEW id
    PROVE  Seen(R, s, id) \in SUBSET (Nat \ {0}) /\ IsFiniteSet(Seen(R, s, id))
<1>1. Seen(R, s, id) \in SUBSET (Nat \ {0})
  BY DEF Seen, RowsOf, Readers, IsShop, GoodCopies, RowType, BuyerSteps
<1>2. IsFiniteSet(RowsOf(R, id)) /\ IsFiniteSet(Readers(s, id))
  BY ShopTyped, Constants, FS_Subset DEF RowsOf, Readers
<1> DEFINE A == RowsOf(R, id)
           B == Readers(s, id)
<1>3. IsFiniteSet({r.charges : r \in A}) /\ IsFiniteSet({s[b].row.charges : b \in B})
  <2> HIDE DEF A, B
  <2>1. IsFiniteSet(A) /\ IsFiniteSet(B)
    BY <1>2 DEF A, B
  <2>2. IsFiniteSet({r.charges : r \in A})
    <3> DEFINE f == [r \in A |-> r.charges]
    <3>1. f \in Surjection(A, {r.charges : r \in A})
      BY DEF Surjection
    <3> QED
      BY <2>1, <3>1, FS_Surjection
  <2>3. IsFiniteSet({s[b].row.charges : b \in B})
    <3> DEFINE f == [b \in B |-> s[b].row.charges]
    <3>1. f \in Surjection(B, {s[b].row.charges : b \in B})
      BY DEF Surjection
    <3> QED
      BY <2>1, <3>1, FS_Surjection
  <2> QED
    BY <2>2, <2>3
<1> QED
  BY <1>1, <1>3, FS_Union DEF Seen

\* What is sure of a listing is a natural, the least of those charges.
LEMMA SureTyped ==
    ASSUME NEW R, IsShop(R), NEW s, GoodCopies(s), NEW g, NEW id
    PROVE  /\ Sure(R, s, g, id) \in Nat
           /\ OnShop(R, g, id) => /\ Least(Seen(R, s, id)) \in Seen(R, s, id) /\ Least(Seen(R, s, id)) \in Nat \ {0}
                                  /\ \A m \in Seen(R, s, id) : m \in Nat /\ Least(Seen(R, s, id)) <= m
<1>1. OnShop(R, g, id) => Seen(R, s, id) # {}
  BY DEF OnShop, Seen
<1>2. Seen(R, s, id) \in SUBSET (Nat \ {0}) /\ IsFiniteSet(Seen(R, s, id))
  BY SeenTyped
<1>3. OnShop(R, g, id) => /\ Least(Seen(R, s, id)) \in Seen(R, s, id)
                          /\ \A m \in Seen(R, s, id) : Least(Seen(R, s, id)) <= m
  BY <1>1, <1>2, LeastIs
<1> QED
  BY <1>2, <1>3 DEF Sure

\* What is sure does not fall as long as the row stays and no other charges are seen.
LEMMA SureUp ==
    ASSUME NEW R, IsShop(R), NEW Q, IsShop(Q), NEW s, GoodCopies(s), NEW t, GoodCopies(t), NEW g, NEW id,
           OnShop(R, g, id) /\ ~Pulling(s, id) =>
               OnShop(Q, g, id) /\ ~Pulling(t, id) /\ Seen(Q, t, id) \subseteq Seen(R, s, id)
    PROVE  Sure(Q, t, g, id) >= Sure(R, s, g, id)
<1>1. Sure(Q, t, g, id) \in Nat /\ Sure(R, s, g, id) \in Nat
  BY SureTyped
<1>2. CASE OnShop(R, g, id) /\ ~Pulling(s, id)
  <2>1. /\ Least(Seen(Q, t, id)) \in Seen(R, s, id) /\ Least(Seen(Q, t, id)) \in Nat
        /\ \A m \in Seen(R, s, id) : Least(Seen(R, s, id)) <= m /\ Least(Seen(R, s, id)) \in Nat
    BY <1>2, SureTyped
  <2>2. Least(Seen(R, s, id)) <= Least(Seen(Q, t, id))
    BY <2>1
  <2> QED
    BY <1>2, <2>1, <2>2 DEF Sure
<1>3. CASE ~(OnShop(R, g, id) /\ ~Pulling(s, id))
  <2>1. Sure(R, s, g, id) = 0
    BY <1>3 DEF Sure
  <2> QED
    BY <1>1, <2>1
<1> QED
  BY <1>2, <1>3

\* Sums over the ids and over the buyers, of which one may differ from the others.
LEMMA SumBut ==
    ASSUME NEW S, IsFiniteSet(S), NEW f \in [S -> Int], NEW h \in [S -> Int], NEW a \in S, NEW k \in Int,
           \A x \in S \ {a} : h[x] >= f[x], h[a] >= f[a] + k
    PROVE  SumFunction(h) >= SumFunction(f) + k
<1> DEFINE e == [f EXCEPT ![a] = f[a] + k]
<1>1. e \in [S -> Int] /\ (\A x \in S : x # a => e[x] = f[x]) /\ e[a] = f[a] + k
  OBVIOUS
<1>2. \A x \in S : e[x] <= h[x]
  <2> SUFFICES ASSUME NEW x \in S PROVE e[x] <= h[x]
    OBVIOUS
  <2>1. f[x] \in Int /\ h[x] \in Int /\ f[a] \in Int
    OBVIOUS
  <2>2. CASE x = a
    BY <1>1, <2>1, <2>2
  <2>3. CASE x # a
    BY <1>1, <2>1, <2>3
  <2> QED
    BY <2>2, <2>3
<1> HIDE DEF e
<1>3. SumFunction(e) = SumFunction(f) - f[a] + e[a]
  BY <1>1, TotalChanged
<1>4. SumFunction(e) <= SumFunction(h)
  BY <1>1, <1>2, TotalBelow
<1>5. SumFunction(f) \in Int /\ SumFunction(h) \in Int /\ f[a] \in Int
  BY TotalInt
<1> QED
  BY <1>1, <1>3, <1>4, <1>5

\* Larger terms make a larger sum.
LEMMA SumMore ==
    ASSUME NEW S, IsFiniteSet(S), NEW f \in [S -> Int], NEW h \in [S -> Int], \A x \in S : h[x] >= f[x]
    PROVE  SumFunction(h) >= SumFunction(f)
<1>1. \A x \in S : f[x] <= h[x]
  OBVIOUS
<1>2. SumFunction(f) <= SumFunction(h)
  BY <1>1, TotalBelow
<1>3. SumFunction(f) \in Int /\ SumFunction(h) \in Int
  BY TotalInt
<1> QED
  BY <1>2, <1>3

\* The balance of an item over a step: what one row loses, k, the bags or one buyer, l, gain.
LEMMA Balance ==
    ASSUME NEW f \in [Ids -> Int], NEW h \in [Ids -> Int], NEW u \in [Buyers -> Int], NEW v \in [Buyers -> Int],
           NEW m \in Int, NEW n \in Int, NEW k \in Int, NEW l \in Int, NEW w \in Int,
           \/ k = 0 /\ \A id \in Ids : h[id] >= f[id]
           \/ \E a \in Ids : h[a] >= f[a] + k /\ \A id \in Ids \ {a} : h[id] >= f[id],
           \/ l = 0 /\ \A b \in Buyers : v[b] >= u[b]
           \/ \E a \in Buyers : v[a] >= u[a] + l /\ \A b \in Buyers \ {a} : v[b] >= u[b],
           n + k + l >= m, m + SumFunction(f) + SumFunction(u) >= w
    PROVE  n + SumFunction(h) + SumFunction(v) >= w
<1>1. IsFiniteSet(Ids) /\ IsFiniteSet(Buyers)
  BY IdsFinite, Constants
<1>2. SumFunction(f) \in Int /\ SumFunction(h) \in Int /\ SumFunction(u) \in Int /\ SumFunction(v) \in Int
  BY <1>1, TotalInt
<1>3. SumFunction(h) >= SumFunction(f) + k
  <2>1. CASE k = 0 /\ \A id \in Ids : h[id] >= f[id]
    <3>1. SumFunction(h) >= SumFunction(f)
      BY <1>1, <2>1, SumMore
    <3> QED
      BY <1>2, <2>1, <3>1
  <2>2. CASE \E a \in Ids : h[a] >= f[a] + k /\ \A id \in Ids \ {a} : h[id] >= f[id]
    BY <1>1, <2>2, SumBut
  <2> QED
    BY <2>1, <2>2
<1>4. SumFunction(v) >= SumFunction(u) + l
  <2>1. CASE l = 0 /\ \A b \in Buyers : v[b] >= u[b]
    <3>1. SumFunction(v) >= SumFunction(u)
      BY <1>1, <2>1, SumMore
    <3> QED
      BY <1>2, <2>1, <3>1
  <2>2. CASE \E a \in Buyers : v[a] >= u[a] + l /\ \A b \in Buyers \ {a} : v[b] >= u[b]
    BY <1>1, <2>2, SumBut
  <2> QED
    BY <2>1, <2>2
<1> QED
  BY <1>2, <1>3, <1>4

\* What a buyer has got is a number.
LEMMA GotTyped ==
    ASSUME NEW P \in [Buyers -> [Goods -> Nat]], NEW s, GoodCopies(s), NEW g \in Goods, NEW b \in Buyers
    PROVE  Got(P, s, b, g) \in Int
<1>1. P[b][g] \in Nat
  OBVIOUS
<1>2. CASE s[b].pc = "Delivered" /\ s[b].row.good = g
  <2>1. s[b] # Idle
    BY <1>2 DEF Idle
  <2>2. s[b].qty \in Nat
    BY <2>1 DEF GoodCopies, BuyerSteps
  <2> QED
    BY <1>1, <2>2 DEF Got
<1>3. CASE ~(s[b].pc = "Delivered" /\ s[b].row.good = g)
  BY <1>1, <1>3 DEF Got
<1> QED
  BY <1>2, <1>3

\* The parts of a balance have their types.
LEMMA SafeTyped ==
    ASSUME NEW B \in [Goods -> Nat], NEW R, IsShop(R), NEW P \in [Buyers -> [Goods -> Nat]],
           NEW s, GoodCopies(s), NEW g \in Goods
    PROVE  /\ Held(B, s, g) \in Nat
           /\ [id \in Ids |-> Sure(R, s, g, id)] \in [Ids -> Nat]
           /\ [id \in Ids |-> Sure(R, s, g, id)] \in [Ids -> Int]
           /\ [b \in Buyers |-> Got(P, s, b, g)] \in [Buyers -> Int]
<1>1. Held(B, s, g) \in Nat
  BY DEF Held
<1>2. \A id : Sure(R, s, g, id) \in Nat
  BY SureTyped
<1>3. ASSUME NEW b \in Buyers PROVE Got(P, s, b, g) \in Int
  BY GotTyped
<1>4. \A id : Sure(R, s, g, id) \in Int
  BY <1>2
<1> QED
  BY <1>1, <1>2, <1>3, <1>4

\* The state before a step, and after it.
LEMMA StateTyped ==
    /\ Typed => IsShop(rows) /\ GoodCopies(step) /\ bag \in [Goods -> Nat] /\ parcels \in [Buyers -> [Goods -> Nat]]
    /\ Typed' => IsShop(rows') /\ GoodCopies(step') /\ bag' \in [Goods -> Nat] /\ parcels' \in [Buyers -> [Goods -> Nat]]
<1>1. ASSUME Typed PROVE IsShop(rows) /\ GoodCopies(step) /\ bag \in [Goods -> Nat] /\ parcels \in [Buyers -> [Goods -> Nat]]
  BY <1>1 DEF Typed, TypeOK, Numbers, Handlers, IsShop, GoodCopies
<1>2. ASSUME Typed' PROVE IsShop(rows') /\ GoodCopies(step') /\ bag' \in [Goods -> Nat] /\ parcels' \in [Buyers -> [Goods -> Nat]]
  BY <1>2 DEF Typed, TypeOK, Numbers, Handlers, IsShop, GoodCopies
<1> QED
  BY <1>1, <1>2

\* The balance of one item over a step.
LEMMA SafeStep ==
    ASSUME Typed, Typed', NEW g \in Goods, NEW k \in Int, NEW l \in Int,
           \/ k = 0 /\ \A id \in Ids : Sure(rows', step', g, id) >= Sure(rows, step, g, id)
           \/ \E a \in Ids : /\ Sure(rows', step', g, a) >= Sure(rows, step, g, a) + k
                             /\ \A id \in Ids \ {a} : Sure(rows', step', g, id) >= Sure(rows, step, g, id),
           \/ l = 0 /\ \A b \in Buyers : Got(parcels', step', b, g) >= Got(parcels, step, b, g)
           \/ \E a \in Buyers : /\ Got(parcels', step', a, g) >= Got(parcels, step, a, g) + l
                                /\ \A b \in Buyers \ {a} : Got(parcels', step', b, g) >= Got(parcels, step, b, g),
           Held(bag', step', g) + k + l >= Held(bag, step, g),
           Safe(bag, rows, parcels, step, g) >= Stack[g]
    PROVE  Safe(bag', rows', parcels', step', g) >= Stack[g]
<1> DEFINE f == [id \in Ids |-> Sure(rows, step, g, id)]
           h == [id \in Ids |-> Sure(rows', step', g, id)]
           u == [b \in Buyers |-> Got(parcels, step, b, g)]
           v == [b \in Buyers |-> Got(parcels', step', b, g)]
           m == Held(bag, step, g)
           n == Held(bag', step', g)
<1>1. m \in Int /\ f \in [Ids -> Int] /\ u \in [Buyers -> Int]
  <2>1. IsShop(rows) /\ GoodCopies(step) /\ bag \in [Goods -> Nat] /\ parcels \in [Buyers -> [Goods -> Nat]]
    BY StateTyped
  <2>2. m \in Nat /\ f \in [Ids -> Int] /\ u \in [Buyers -> Int]
    BY <2>1, SafeTyped
  <2> HIDE DEF m, f, u
  <2> QED
    BY <2>2
<1>2. n \in Int /\ h \in [Ids -> Int] /\ v \in [Buyers -> Int]
  <2>1. IsShop(rows') /\ GoodCopies(step') /\ bag' \in [Goods -> Nat] /\ parcels' \in [Buyers -> [Goods -> Nat]]
    BY StateTyped
  <2>2. n \in Nat /\ h \in [Ids -> Int] /\ v \in [Buyers -> Int]
    BY <2>1, SafeTyped
  <2> HIDE DEF n, h, v
  <2> QED
    BY <2>2
<1>3. \/ k = 0 /\ \A id \in Ids : h[id] >= f[id]
      \/ \E a \in Ids : h[a] >= f[a] + k /\ \A id \in Ids \ {a} : h[id] >= f[id]
  OBVIOUS
<1>4. \/ l = 0 /\ \A b \in Buyers : v[b] >= u[b]
      \/ \E a \in Buyers : v[a] >= u[a] + l /\ \A b \in Buyers \ {a} : v[b] >= u[b]
  OBVIOUS
<1>5. n + k + l >= m /\ m + SumFunction(f) + SumFunction(u) >= Stack[g]
  BY DEF Safe
<1>6. Stack[g] \in Int
  BY Constants
<1> HIDE DEF f, h, u, v, m, n
<1>7. n + SumFunction(h) + SumFunction(v) >= Stack[g]
  BY <1>1, <1>2, <1>3, <1>4, <1>5, <1>6, Balance
<1> QED
  BY <1>7 DEF f, h, u, v, m, n, Safe

\* The same if one listing gains what leaves the bags.
LEMMA SafeGained ==
    ASSUME Typed, Typed', NEW g \in Goods, NEW k \in Int, NEW a \in Ids,
           Sure(rows', step', g, a) >= Sure(rows, step, g, a) + k,
           \A id \in Ids \ {a} : Sure(rows', step', g, id) >= Sure(rows, step, g, id),
           \A b \in Buyers : Got(parcels', step', b, g) >= Got(parcels, step, b, g),
           Held(bag', step', g) + k + 0 >= Held(bag, step, g),
           Safe(bag, rows, parcels, step, g) >= Stack[g]
    PROVE  Safe(bag', rows', parcels', step', g) >= Stack[g]
<1>1. \E i \in Ids : /\ Sure(rows', step', g, i) >= Sure(rows, step, g, i) + k
                    /\ \A id \in Ids \ {i} : Sure(rows', step', g, id) >= Sure(rows, step, g, id)
  OBVIOUS
<1> QED
  BY <1>1, SafeStep

\* A parcel is on its way between two handlers.
LEMMA DeliveredStays ==
    ASSUME Typed, [Next]_vars
    PROVE  /\ parcels' = parcels \/ \E b \in Buyers : SendParcel(b)
           /\ \A b \in Buyers : step'[b].pc = "Delivered" => step'[b] = step[b] \/ SendParcel(b)
<1>1. ASSUME NEW a \in Buyers, BuyerStep(a)
      PROVE  \A b \in Buyers : step'[b].pc = "Delivered" => step'[b] = step[b] \/ SendParcel(b)
  <2>1. \A v : Goto(a, v) => step'[a] = v /\ \A c \in Buyers \ {a} : step'[c] = step[c]
    BY BuyerMoves
  <2>2. ASSUME NEW v, Goto(a, v), v.pc # "Delivered" \/ SendParcel(a)
        PROVE  \A b \in Buyers : step'[b].pc = "Delivered" => step'[b] = step[b] \/ SendParcel(b)
    BY <2>1, <2>2
  <2>3. CASE Buy(a)
    <3>1. PICK v : Goto(a, v) /\ v.pc = "Read"
      BY <2>3 DEF Buy
    <3> QED
      BY <2>2, <3>1
  <2>4. CASE MarkActive(a) \/ TakeMoney(a) \/ TakeOffShop(a)
    <3>1. step[a] \in BuyerSteps
      BY <2>4, BuyerIn DEF MarkActive, TakeMoney, TakeOffShop, In, Typed
    <3>2. \A pc : [step[a] EXCEPT !.pc = pc].pc = pc
      BY <3>1 DEF BuyerSteps
    <3>3. PICK pc \in {"Marked", "Paid", "Taken"} : Goto(a, [step[a] EXCEPT !.pc = pc])
      BY <2>4 DEF MarkActive, TakeMoney, TakeOffShop
    <3> QED
      BY <2>2, <3>2, <3>3
  <2>5. CASE RefuseBuyer(a) \/ LoseParcel(a) \/ TellWorld(a)
    BY <2>2, <2>5 DEF RefuseBuyer, LoseParcel, TellWorld, Idle
  <2>6. CASE SendParcel(a)
    BY <2>2, <2>6 DEF SendParcel
  <2> QED
    BY <1>1, <2>3, <2>4, <2>5, <2>6 DEF BuyerStep
<1>2. ASSUME NEW a \in Buyers, BuyerStep(a) PROVE parcels' = parcels \/ SendParcel(a)
  BY <1>2 DEF BuyerStep, Buy, MarkActive, TakeMoney, RefuseBuyer, LoseParcel, TakeOffShop, TellWorld, items
<1>3. ASSUME NEW p \in Players, Crash(p)
      PROVE  parcels' = parcels /\ \A b \in Buyers : step'[b].pc = "Delivered" => step'[b] = step[b]
  <2>1. \A b \in Buyers : step'[b] = Idle \/ step'[b] = step[b]
    BY <1>3, Constants DEF Crash
  <2> QED
    BY <1>3, <2>1 DEF Idle, Crash, items
<1>4. CASE ~(\E b \in Buyers : BuyerStep(b)) /\ ~(\E p \in Players : Crash(p))
  <2>1. parcels' = parcels
    BY <1>4 DEF Next, BuyerStep, AddItemsToShop, EscrowItem, SaveSerial, PullShopItem, DeletePulled, Move, RoutePurchase,
       ReadEscrow, BankPrice, PaySeller, DropPurchase, LookIntoEscrow, ClearEscrow, GrantEscrow, Login, Arrive, ZoneOut,
       Disconnect, Forget, vars, items
  <2>2. ASSUME NEW b \in Buyers PROVE step'[b] = step[b]
    <3>1. \A v : Goto(Seller, v) => step'[b] = step[b]
      BY SellerMoves
    <3>2. CASE EscrowItem \/ ClearEscrow
      BY <3>2, Constants DEF EscrowItem, ClearEscrow, Typed, Handlers
    <3>3. CASE AddItemsToShop \/ SaveSerial \/ PullShopItem \/ DeletePulled \/ LookIntoEscrow \/ GrantEscrow \/ Arrive
      BY <3>1, <3>3 DEF AddItemsToShop, SaveSerial, PullShopItem, DeletePulled, LookIntoEscrow, GrantEscrow, Arrive
    <3>4. CASE \/ Move \/ RoutePurchase \/ ReadEscrow \/ BankPrice \/ PaySeller \/ DropPurchase \/ Login \/ ZoneOut
               \/ Disconnect \/ Forget \/ UNCHANGED vars
      BY <3>4 DEF Move, RoutePurchase, ReadEscrow, BankPrice, PaySeller, DropPurchase, Login, ZoneOut, Disconnect, Forget, vars
    <3> QED
      BY <1>4, <3>2, <3>3, <3>4 DEF Next, BuyerStep
  <2> QED
    BY <2>1, <2>2
<1> QED
  BY <1>1, <1>2, <1>3, <1>4

\* What a buyer has got does not fall.
LEMMA GotStays ==
    ASSUME Typed, Typed', [Next]_vars, NEW g \in Goods, NEW b \in Buyers
    PROVE  Got(parcels', step', b, g) >= Got(parcels, step, b, g)
<1>1. parcels[b][g] \in Nat /\ parcels'[b][g] \in Nat
  BY StateTyped
<1>2. step[b].pc = "Delivered" => step[b].qty \in Nat
  BY BuyerIn DEF Typed
<1>3. step'[b].pc = "Delivered" => step'[b].qty \in Nat
  BY StateTyped DEF GoodCopies, BuyerSteps, Idle
<1>4. CASE parcels'[b] = parcels[b] /\ (step'[b].pc = "Delivered" => step'[b] = step[b])
  BY <1>1, <1>2, <1>3, <1>4 DEF Got
<1>5. ASSUME NEW a \in Buyers, SendParcel(a) PROVE Got(parcels', step', b, g) >= Got(parcels, step, b, g)
  <2>1. step[a].pc = "Paid" /\ parcels' = [parcels EXCEPT ![a][step[a].row.good] = @ + step[a].qty]
    BY <1>5 DEF SendParcel, In
  <2>2. step[a] \in BuyerSteps /\ step[a].row.good \in Goods /\ step[a].qty \in Nat
    BY <2>1, BuyerIn DEF Typed, RowType
  <2>3. step'[a] = [step[a] EXCEPT !.pc = "Delivered"] /\ \A c \in Buyers \ {a} : step'[c] = step[c]
    BY <1>5, BuyerMoves DEF SendParcel
  <2>4. CASE b # a
    <3>1. parcels'[b] = parcels[b]
      BY <2>1, <2>4, StateTyped
    <3> QED
      BY <1>4, <2>3, <2>4, <3>1
  <2>5. CASE b = a
    <3>1. step'[b].pc = "Delivered" /\ step'[b].row = step[b].row /\ step'[b].qty = step[b].qty
      BY <2>2, <2>3, <2>5 DEF BuyerSteps
    <3>2. parcels'[b][g] = parcels[b][g] + (IF step[b].row.good = g THEN step[b].qty ELSE 0)
      BY <1>1, <2>1, <2>2, <2>5, StateTyped
    <3>3. Got(parcels', step', b, g) = parcels[b][g]
      BY <1>1, <2>2, <2>5, <3>1, <3>2 DEF Got
    <3>4. Got(parcels, step, b, g) = parcels[b][g]
      BY <1>1, <2>1, <2>5 DEF Got
    <3> QED
      BY <1>1, <3>3, <3>4
  <2> QED
    BY <2>4, <2>5
<1>6. CASE ~(\E a \in Buyers : SendParcel(a))
  BY <1>4, <1>6, DeliveredStays
<1> QED
  BY <1>5, <1>6

\* The bags lose nothing but what is listed.
LEMMA HeldStays ==
    ASSUME Typed, Typed', [Next]_vars, ~AddItemsToShop, ~SerialsMeet, NEW g \in Goods
    PROVE  Held(bag', step', g) >= Held(bag, step, g)
<1>1. bag[g] \in Nat /\ bag'[g] \in Nat
  BY StateTyped
<1>2. CASE bag' = bag
  <2>1. step'[Seller].pc = "Inserted" /\ g \in step'[Seller].slots => step[Seller].pc = "Inserted" /\ g \in step[Seller].slots
    BY SellerStays DEF In
  <2> QED
    BY <1>1, <1>2, <2>1 DEF Held
<1>3. CASE EscrowItem
  <2>1. PICK i \in step[Seller].slots : /\ bag' = [bag EXCEPT ![i] = 0]
                                        /\ step' = [step EXCEPT ![Seller].slots = @ \ {i}]
    BY <1>3 DEF EscrowItem
  <2>2. step[Seller].pc = "Inserted" /\ step[Seller] \in [pc : {"Inserted"}, slots : SUBSET Goods, next_sn : 1 .. MaxListings + 1]
    BY <1>3, SellerIn DEF EscrowItem, In, Typed
  <2>3. step'[Seller].pc = "Inserted" /\ step'[Seller].slots = step[Seller].slots \ {i}
    BY <2>1, <2>2, Constants DEF Typed, Handlers
  <2>4. CASE g = i
    BY <1>1, <2>1, <2>2, <2>3, <2>4 DEF Held
  <2>5. CASE g # i
    <3>1. bag'[g] = bag[g]
      BY <2>1, <2>5, StateTyped
    <3> QED
      BY <1>1, <2>2, <2>3, <2>5, <3>1 DEF Held
  <2> QED
    BY <2>4, <2>5
<1>4. CASE PullShopItem
  <2>1. PICK r \in rows : bag' = [bag EXCEPT ![r.good] = @ + r.charges] /\ Goto(Seller, [pc |-> "Pulled", id |-> r.id])
    BY <1>4 DEF PullShopItem
  <2>2. step'[Seller].pc = "Pulled"
    BY <2>1, SellerMoves
  <2>3. r.good \in Goods /\ r.charges \in Nat
    BY DEF Typed, TypeOK, RowType
  <2>4. bag'[g] >= bag[g]
    BY <1>1, <2>1, <2>3, StateTyped
  <2> QED
    BY <1>1, <2>2, <2>4 DEF Held
<1>5. \/ bag' = bag \/ EscrowItem \/ PullShopItem
  BY DEF Next, vars, items, EscrowItem, SaveSerial, PullShopItem, DeletePulled, Move, Buy, MarkActive, TakeMoney, RefuseBuyer,
     SendParcel, LoseParcel, TakeOffShop, TellWorld, RoutePurchase, ReadEscrow, BankPrice, PaySeller, DropPurchase,
     LookIntoEscrow, ClearEscrow, GrantEscrow, Login, Arrive, ZoneOut, Disconnect, Forget, Crash
<1> QED
  BY <1>2, <1>3, <1>4, <1>5

\* Steps that take no row off the shop change marks at most.
LEMMA RowsRemarked ==
    ASSUME Typed, [Next]_vars, ~AddItemsToShop, ~DeletePulled, ~Move, \A b \in Buyers : ~TakeOffShop(b)
    PROVE  Remarked(rows, rows')
<1>1. rows' = rows => Remarked(rows, rows')
  BY DEF Remarked
<1>2. ASSUME NEW id, NEW status \in BOOLEAN, SetActive(id, status) PROVE Remarked(rows, rows')
  BY <1>2, Marking DEF Typed, TypeOK, Numbers
<1>3. ASSUME NEW b \in Buyers, BuyerStep(b) PROVE Remarked(rows, rows')
  <2>1. CASE Buy(b) \/ TakeMoney(b) \/ SendParcel(b) \/ TellWorld(b)
    BY <1>1, <2>1 DEF Buy, TakeMoney, SendParcel, TellWorld, items
  <2>2. CASE MarkActive(b)
    BY <1>2, <2>2 DEF MarkActive
  <2>3. CASE RefuseBuyer(b) \/ LoseParcel(b)
    BY <1>2, <2>3 DEF RefuseBuyer, LoseParcel
  <2> QED
    BY <1>3, <2>1, <2>2, <2>3 DEF BuyerStep
<1>4. CASE PaySeller
  BY <1>2, <1>4 DEF PaySeller
<1>5. ASSUME NEW p \in Players, Crash(p) PROVE rows' = rows
  BY <1>5 DEF Crash, items
<1>6. CASE \/ EscrowItem \/ SaveSerial \/ PullShopItem \/ RoutePurchase \/ ReadEscrow \/ BankPrice \/ DropPurchase
           \/ LookIntoEscrow \/ ClearEscrow \/ GrantEscrow \/ Login \/ Arrive \/ ZoneOut \/ Disconnect \/ Forget
           \/ UNCHANGED vars
  <2>1. rows' = rows
    BY <1>6 DEF EscrowItem, SaveSerial, PullShopItem, RoutePurchase, ReadEscrow, BankPrice, DropPurchase, LookIntoEscrow,
       ClearEscrow, GrantEscrow, Login, Arrive, ZoneOut, Disconnect, Forget, vars, items
  <2> QED
    BY <1>1, <2>1
<1> QED
  BY <1>1, <1>3, <1>4, <1>5, <1>6 DEF Next, BuyerStep

\* No charges are seen that were not seen before, where the rows of an id are.
LEMMA SeenLess ==
    ASSUME Typed, [Next]_vars, NEW id,
           \A q \in RowsOf(rows', id) : \E r \in RowsOf(rows, id) : q.charges = r.charges
    PROVE  Seen(rows', step', id) \subseteq Seen(rows, step, id)
<1> SUFFICES ASSUME NEW n \in Seen(rows', step', id) PROVE n \in Seen(rows, step, id)
  OBVIOUS
<1>1. CASE \E q \in RowsOf(rows', id) : n = q.charges
  BY <1>1 DEF Seen
<1>2. CASE \E b \in Readers(step', id) : n = step'[b].row.charges
  <2>1. PICK b \in Readers(step', id) : n = step'[b].row.charges
    BY <1>2
  <2>2. b \in Buyers /\ step'[b] # Idle /\ step'[b].row.id = id
    BY <2>1 DEF Readers
  <2>3. CASE step[b] # Idle /\ step'[b].row = step[b].row
    BY <2>1, <2>2, <2>3 DEF Readers, Seen
  <2>4. CASE step'[b].row \in rows
    BY <2>1, <2>2, <2>4 DEF RowsOf, Seen
  <2> QED
    BY <2>2, <2>3, <2>4, CopiesKnown DEF Reading
<1> QED
  BY <1>1, <1>2 DEF Seen

\* What is sure of a row stays, where its rows are the same up to marks.
LEMMA SureStays ==
    ASSUME Typed, Typed', [Next]_vars, NEW g, NEW id,
           Pulling(step', id) => Pulling(step, id),
           \A q \in RowsOf(rows', id) : \E r \in RowsOf(rows, id) : q.charges = r.charges,
           \A r \in RowsOf(rows, id) : \E q \in RowsOf(rows', id) : q.good = r.good
    PROVE  Sure(rows', step', g, id) >= Sure(rows, step, g, id)
<1>1. Seen(rows', step', id) \subseteq Seen(rows, step, id)
  BY SeenLess
<1>2. OnShop(rows, g, id) => OnShop(rows', g, id)
  BY DEF OnShop
<1>3. IsShop(rows) /\ IsShop(rows') /\ GoodCopies(step) /\ GoodCopies(step')
  BY StateTyped
<1> QED
  BY <1>1, <1>2, <1>3, SureUp

\* Nobody is pulling another row than before, but for a pull.
LEMMA PullingStays ==
    ASSUME Typed, [Next]_vars, ~PullShopItem, NEW id, Pulling(step', id)
    PROVE  Pulling(step, id)
<1>1. In(Seller, "Pulled")'
  BY DEF Pulling, In
<1>2. step'[Seller] = step[Seller]
  BY <1>1, SellerStays
<1> QED
  BY <1>2 DEF Pulling

\* What a buyer has got of an item is never less than nothing: a parcel not yet taken off the
\* shop counts once it has been.
LEMMA GotKept ==
    ASSUME Typed, Typed', [Next]_vars, Kept
    PROVE  \A b \in Buyers, g \in Goods : Got(parcels', step', b, g) >= 0
<1> SUFFICES ASSUME NEW b \in Buyers, NEW g \in Goods PROVE Got(parcels', step', b, g) >= 0
  OBVIOUS
<1>1. Got(parcels, step, b, g) >= 0 /\ Got(parcels', step', b, g) >= Got(parcels, step, b, g)
  BY GotStays DEF Kept
<1>2. Got(parcels, step, b, g) \in Int /\ Got(parcels', step', b, g) \in Int
  BY StateTyped, GotTyped
<1> QED
  BY <1>1, <1>2

\* A step that lists, pulls or takes off nothing.
LEMMA KeptQuiet ==
    ASSUME Typed, Typed', Kept, [Next]_vars, ~SerialsMeet, ~AddItemsToShop, ~PullShopItem, ~DeletePulled, ~Move,
           \A b \in Buyers : ~TakeOffShop(b)
    PROVE  Kept'
<1>1. Remarked(rows, rows')
  BY RowsRemarked
<1>2. ASSUME NEW g \in Goods, NEW id \in Ids PROVE Sure(rows', step', g, id) >= Sure(rows, step, g, id)
  <2>1. Pulling(step', id) => Pulling(step, id)
    BY PullingStays
  <2>2. /\ \A q \in RowsOf(rows', id) : \E r \in RowsOf(rows, id) : q.charges = r.charges
        /\ \A r \in RowsOf(rows, id) : \E q \in RowsOf(rows', id) : q.good = r.good
    BY <1>1 DEF Remarked, RowsOf
  <2> QED
    BY <2>1, <2>2, SureStays
<1>3. ASSUME NEW g \in Goods PROVE Safe(bag', rows', parcels', step', g) >= Stack[g]
  <2>1. Held(bag', step', g) + 0 + 0 >= Held(bag, step, g)
    <3>1. Held(bag', step', g) >= Held(bag, step, g) /\ Held(bag', step', g) \in Nat
      BY HeldStays, StateTyped, SafeTyped
    <3> QED
      BY <3>1
  <2>2. \A b \in Buyers : Got(parcels', step', b, g) >= Got(parcels, step, b, g)
    BY GotStays
  <2>3. Safe(bag, rows, parcels, step, g) >= Stack[g]
    BY DEF Kept
  <2> QED
    BY <1>2, <2>1, <2>2, <2>3, SafeStep
<1>4. \A b \in Buyers, g \in Goods : Got(parcels', step', b, g) >= 0
  BY GotKept
<1> QED
  BY <1>3, <1>4 DEF Kept

\* What is sure is at most what a row has, or what a purchase under way has read.
LEMMA SureAtMost ==
    ASSUME NEW R, IsShop(R), NEW s, GoodCopies(s), NEW g, NEW id, NEW n \in Seen(R, s, id)
    PROVE  Sure(R, s, g, id) <= n /\ n \in Nat \ {0}
<1>1. n \in Nat \ {0}
  BY SeenTyped
<1>2. CASE OnShop(R, g, id)
  <2>1. Least(Seen(R, s, id)) <= n /\ Least(Seen(R, s, id)) \in Nat
    BY <1>2, SureTyped
  <2>2. Sure(R, s, g, id) \in {0, 1, Least(Seen(R, s, id))}
    BY DEF Sure
  <2> QED
    BY <1>1, <2>1, <2>2
<1>3. CASE ~OnShop(R, g, id)
  BY <1>1, <1>3 DEF Sure
<1> QED
  BY <1>2, <1>3

\* A pull moves what is sure of the row into the bags.
LEMMA KeptPull ==
    ASSUME Typed, Typed', Kept, PullShopItem
    PROVE  Kept'
<1> USE DEF Idle
<1>1. PICK r \in rows : bag' = [bag EXCEPT ![r.good] = @ + r.charges] /\ Goto(Seller, [pc |-> "Pulled", id |-> r.id])
  BY DEF PullShopItem
<1>2. rows' = rows /\ step[Seller] = Idle
  BY Constants DEF PullShopItem, MayStart, Process
<1>3. step'[Seller] = [pc |-> "Pulled", id |-> r.id] /\ \A b \in Buyers : step'[b] = step[b]
  BY <1>1, SellerMoves
<1>4. r.id \in Ids /\ r.good \in Goods /\ r.charges \in Nat \ {0}
  BY DEF Typed, TypeOK, RowType, Ids
<1>5. [Next]_vars
  BY DEF Next
<1>6. IsShop(rows) /\ GoodCopies(step) /\ GoodCopies(step') /\ bag \in [Goods -> Nat]
  BY StateTyped
<1>7. ASSUME NEW g \in Goods PROVE Safe(bag', rows', parcels', step', g) >= Stack[g]
  <2> DEFINE k == 0 - Sure(rows, step, g, r.id)
  <2>1. Sure(rows, step, g, r.id) \in Nat /\ Sure(rows', step', g, r.id) \in Nat
    BY <1>2, <1>6, SureTyped
  <2>2. k \in Int /\ Sure(rows', step', g, r.id) >= Sure(rows, step, g, r.id) + k
    BY <2>1
  <2>3. ASSUME NEW id \in Ids \ {r.id} PROVE Sure(rows', step', g, id) >= Sure(rows, step, g, id)
    <3>1. ~Pulling(step', id)
      BY <1>3 DEF Pulling
    <3>2. Seen(rows', step', id) = Seen(rows, step, id)
      BY <1>2, <1>3 DEF Seen, Readers, RowsOf
    <3> QED
      BY <1>2, <1>6, <3>1, <3>2, SureUp
  <2>4. Held(bag, step, g) = bag[g] /\ Held(bag', step', g) = bag'[g]
    BY <1>2, <1>3 DEF Held
  <2>5. bag'[g] - Sure(rows, step, g, r.id) >= bag[g]
    <3>1. CASE g = r.good
      <4>1. r.charges \in Seen(rows, step, r.id)
        BY DEF Seen, RowsOf
      <4>2. Sure(rows, step, g, r.id) <= r.charges
        BY <1>6, <4>1, SureAtMost
      <4>3. bag'[g] = bag[g] + r.charges /\ bag[g] \in Nat
        BY <1>1, <1>6, <3>1
      <4> QED
        BY <1>4, <2>1, <4>2, <4>3
    <3>2. CASE g # r.good
      <4>1. ~OnShop(rows, g, r.id)
        BY <1>6, <3>2 DEF OnShop, RowsOf, IsShop
      <4>2. Sure(rows, step, g, r.id) = 0
        BY <4>1 DEF Sure
      <4>3. bag'[g] = bag[g] /\ bag[g] \in Nat
        BY <1>1, <1>6, <3>2
      <4> QED
        BY <4>2, <4>3
    <3> QED
      BY <3>1, <3>2
  <2>6. Held(bag', step', g) + k + 0 >= Held(bag, step, g)
    <3>1. bag[g] \in Nat /\ bag'[g] \in Nat
      BY StateTyped
    <3> QED
      BY <2>1, <2>4, <2>5, <3>1
  <2>7. \A b \in Buyers : Got(parcels', step', b, g) >= Got(parcels, step, b, g)
    BY <1>5, GotStays
  <2>8. Safe(bag, rows, parcels, step, g) >= Stack[g]
    BY DEF Kept
  <2> HIDE DEF k
  <2>9. \E a \in Ids : /\ Sure(rows', step', g, a) >= Sure(rows, step, g, a) + k
                       /\ \A id \in Ids \ {a} : Sure(rows', step', g, id) >= Sure(rows, step, g, id)
    BY <1>4, <2>2, <2>3
  <2> QED
    BY <2>2, <2>6, <2>7, <2>8, <2>9, SafeStep
<1> QED
  BY <1>5, <1>7, GotKept DEF Kept

\* ... and then the row, of which nothing is counted, is deleted.
LEMMA KeptDelete ==
    ASSUME Typed, Typed', Kept, DeletePulled, ~SerialsMeet
    PROVE  Kept'
<1>1. /\ step[Seller].pc = "Pulled" /\ rows' = rows \ RowWithId(step[Seller].id)
      /\ step'[Seller] = Idle /\ \A b \in Buyers : step'[b] = step[b]
  BY SellerMoves DEF DeletePulled, In
<1>2. [Next]_vars /\ ~AddItemsToShop
  BY <1>1, Constants DEF Next, AddItemsToShop, MayStart, Process, Idle
<1>3. IsShop(rows) /\ IsShop(rows') /\ GoodCopies(step) /\ GoodCopies(step')
  BY StateTyped
<1>4. ASSUME NEW g \in Goods, NEW id \in Ids PROVE Sure(rows', step', g, id) >= Sure(rows, step, g, id)
  <2>1. Sure(rows', step', g, id) \in Nat
    BY <1>3, SureTyped
  <2>2. CASE id = step[Seller].id
    <3>1. Sure(rows, step, g, id) = 0
      BY <1>1, <2>2 DEF Sure, Pulling
    <3> QED
      BY <2>1, <3>1
  <2>3. CASE id # step[Seller].id
    <3>1. RowsOf(rows', id) = RowsOf(rows, id)
      BY <1>1, <2>3 DEF RowsOf, RowWithId
    <3>2. Seen(rows', step', id) = Seen(rows, step, id)
      BY <1>1, <3>1 DEF Seen, Readers
    <3>3. ~Pulling(step', id)
      BY <1>1 DEF Pulling, Idle
    <3>4. OnShop(rows, g, id) => OnShop(rows', g, id)
      BY <3>1 DEF OnShop
    <3> QED
      BY <1>3, <3>2, <3>3, <3>4, SureUp
  <2> QED
    BY <2>2, <2>3
<1>5. ASSUME NEW g \in Goods PROVE Safe(bag', rows', parcels', step', g) >= Stack[g]
  <2>1. Held(bag', step', g) + 0 + 0 >= Held(bag, step, g)
    <3>1. Held(bag', step', g) >= Held(bag, step, g) /\ Held(bag', step', g) \in Nat
      BY <1>2, HeldStays, StateTyped, SafeTyped
    <3> QED
      BY <3>1
  <2>2. \A b \in Buyers : Got(parcels', step', b, g) >= Got(parcels, step, b, g)
    BY <1>2, GotStays
  <2>3. Safe(bag, rows, parcels, step, g) >= Stack[g]
    BY DEF Kept
  <2> QED
    BY <1>4, <2>1, <2>2, <2>3, SafeStep
<1> QED
  BY <1>2, <1>5, GotKept DEF Kept

\* A purchase whose row is gone takes nothing off the shop.
LEMMA NothingTakenOff ==
    ASSUME Typed, Serials, NEW b \in Buyers, TakeOffShop(b), \A r \in rows : r.id # step[b].row.id
    PROVE  rows' = rows
<1> DEFINE row == step[b].row
<1>1. step[b].pc = "Delivered"
  BY DEF TakeOffShop, In
<1>2. row \in Known /\ rows \subseteq Known
  BY <1>1, BuyerIn DEF Typed, Known, Reading
<1>3. RowWithId(row.id) = {} /\ RowWithSn(row.sn) = {}
  BY <1>2 DEF RowWithId, RowWithSn, Serials
<1>4. Cardinality({}) = 0
  BY FS_EmptySet
<1> QED
  BY <1>3, <1>4 DEF TakeOffShop

\* What a row is sure of falls by what is taken off it, at most.
LEMMA SureTakenOff ==
    ASSUME Typed, Typed', Serials, NEW b \in Buyers, TakeOffShop(b), NEW r \in rows, r.id = step[b].row.id, NEW g \in Goods
    PROVE  Sure(rows', step', g, r.id) >= Sure(rows, step, g, r.id) - (IF g = r.good THEN step[b].qty ELSE 0)
<1> DEFINE row == step[b].row
           qty == step[b].qty
           y == [r EXCEPT !.charges = row.charges - qty]
           id == r.id
<1>1. step[b].pc = "Delivered" /\ step[b] # Idle /\ qty \in Nat \ {0} /\ row \in RowType /\ row.good = r.good
  BY BuyerIn, RowBySerial DEF TakeOffShop, In, Typed
<1>2. IsShop(rows) /\ IsShop(rows') /\ GoodCopies(step) /\ GoodCopies(step')
  BY StateTyped
<1>3. Sure(rows, step, g, id) \in Nat /\ Sure(rows', step', g, id) \in Nat
  BY <1>2, SureTyped
<1>4. row.charges \in Seen(rows, step, id) /\ r.charges \in Seen(rows, step, id)
  BY <1>1 DEF Seen, Readers, RowsOf
<1>5. CASE g # r.good \/ Pulling(step, id)
  <2>1. Sure(rows, step, g, id) = 0
    BY <1>2, <1>5 DEF Sure, OnShop, RowsOf, IsShop
  <2> QED
    BY <1>1, <1>3, <2>1
<1>6. CASE row.charges <= qty \/ row.good \notin Stackable
  <2>1. Sure(rows, step, g, id) <= row.charges
    BY <1>2, <1>4, SureAtMost
  <2>2. g = r.good => Sure(rows, step, g, id) <= qty
    <3>1. CASE row.charges <= qty
      BY <1>1, <1>3, <2>1, <3>1 DEF RowType
    <3>2. CASE row.good \notin Stackable /\ g = r.good
      <4>1. Sure(rows, step, g, id) \in {0, 1}
        BY <1>1, <3>2 DEF Sure
      <4> QED
        BY <1>1, <4>1
    <3> QED
      BY <1>6, <3>1, <3>2
  <2> QED
    BY <1>1, <1>3, <1>5, <2>2
<1>7. CASE ~(row.charges <= qty \/ row.good \notin Stackable) /\ g = r.good /\ ~Pulling(step, id)
  <2>1. rows' = (rows \ {r}) \cup {y} /\ y \in RowType
    BY <1>7, TakenOffRow
  <2>2. y.id = id /\ y.good = g /\ y.charges = row.charges - qty
    BY <1>7 DEF Typed, TypeOK, RowType
  <2>3. RowsOf(rows', id) = {y} /\ RowsOf(rows, id) = {r}
    BY <1>2, <2>1, <2>2 DEF RowsOf, IsShop
  <2> HIDE DEF y
  <2>4. step'[b] = [step[b] EXCEPT !.pc = "Taken"] /\ (\A c \in Buyers \ {b} : step'[c] = step[c]) /\ step'[Seller] = step[Seller]
    BY BuyerMoves DEF TakeOffShop
  <2>5. \A c \in Readers(step', id) : step'[c].row = step[c].row /\ c \in Readers(step, id)
    <3>1. step'[b].row = step[b].row
      BY <1>1, <1>2, <2>4 DEF GoodCopies, BuyerSteps
    <3> QED
      BY <1>1, <2>4, <3>1 DEF Readers
  <2>6. \A n \in Seen(rows', step', id) : n = row.charges - qty \/ n \in Seen(rows, step, id)
    BY <2>2, <2>3, <2>5 DEF Seen
  <2>7. OnShop(rows, g, id) /\ OnShop(rows', g, id) /\ ~Pulling(step', id) /\ g \in Stackable
    BY <1>1, <1>7, <2>2, <2>3, <2>4 DEF OnShop, Pulling
  <2>8. Sure(rows, step, g, id) = Least(Seen(rows, step, id)) /\ Sure(rows', step', g, id) = Least(Seen(rows', step', id))
    BY <1>7, <2>7 DEF Sure
  <2>9. Least(Seen(rows', step', id)) \in Seen(rows', step', id)
    BY <1>2, <2>7, SureTyped
  <2>10. CASE Least(Seen(rows', step', id)) = row.charges - qty
    <3>1. Sure(rows, step, g, id) <= row.charges
      BY <1>2, <1>4, SureAtMost
    <3>2. row.charges \in Nat
      BY <1>1 DEF RowType
    <3> QED
      BY <1>1, <1>3, <1>7, <2>8, <2>10, <3>1, <3>2
  <2>11. CASE Least(Seen(rows', step', id)) \in Seen(rows, step, id)
    <3>1. Sure(rows, step, g, id) <= Sure(rows', step', g, id)
      BY <1>2, <2>8, <2>11, SureAtMost
    <3> QED
      BY <1>1, <1>3, <1>7, <3>1
  <2> QED
    BY <2>6, <2>9, <2>10, <2>11
<1> QED
  BY <1>5, <1>6, <1>7

\* A purchase takes units off a row that the buyer has got.
LEMMA KeptTakeOff ==
    ASSUME Typed, Typed', Serials, Kept, NEW b \in Buyers, TakeOffShop(b), ~SerialsMeet
    PROVE  Kept'
<1> DEFINE row == step[b].row
           qty == step[b].qty
<1>1. step[b].pc = "Delivered" /\ step[b] \in BuyerSteps /\ qty \in Nat \ {0} /\ row \in RowType
  BY BuyerIn DEF TakeOffShop, In, Typed
<1>2. step'[b] = [step[b] EXCEPT !.pc = "Taken"] /\ (\A c \in Buyers \ {b} : step'[c] = step[c]) /\ step'[Seller] = step[Seller]
  BY BuyerMoves DEF TakeOffShop
<1>3. [Next]_vars /\ UNCHANGED <<bag, parcels>>
  BY DEF Next, TakeOffShop
<1>4. ASSUME NEW id \in Ids PROVE Pulling(step', id) => Pulling(step, id)
  BY <1>2 DEF Pulling
<1>5. ASSUME NEW g \in Goods
      PROVE  Held(bag', step', g) = Held(bag, step, g) /\ Held(bag, step, g) \in Nat
  <2>1. Held(bag', step', g) = Held(bag, step, g)
    BY <1>2, <1>3 DEF Held
  <2> QED
    BY <2>1, StateTyped, SafeTyped
<1>6. ASSUME NEW g \in Goods PROVE Safe(bag', rows', parcels', step', g) >= Stack[g]
  <2>1. \A c \in Buyers : Got(parcels', step', c, g) >= Got(parcels, step, c, g)
    BY <1>3, GotStays
  <2>2. Safe(bag, rows, parcels, step, g) >= Stack[g]
    BY DEF Kept
  <2>3. CASE \A r \in rows : r.id # row.id
    <3>1. rows' = rows
      BY <2>3, NothingTakenOff
    <3>2. \A id \in Ids : Sure(rows', step', g, id) >= Sure(rows, step, g, id)
      BY <1>3, <1>4, <3>1, SureStays
    <3>3. Held(bag', step', g) + 0 + 0 >= Held(bag, step, g)
      BY <1>5
    <3> QED
      BY <2>1, <2>2, <3>2, <3>3, SafeStep
  <2>4. ASSUME NEW r \in rows, r.id = row.id PROVE Safe(bag', rows', parcels', step', g) >= Stack[g]
    <3> DEFINE l == IF g = r.good THEN qty ELSE 0
               k == 0 - l
    <3>1. l \in Int /\ k \in Int /\ k + l = 0
      BY <1>1
    <3>2. r.id \in Ids /\ row.good = r.good
      BY <1>1, <2>4, RowBySerial DEF Typed, TypeOK, RowType, Ids
    <3>3. Sure(rows', step', g, r.id) >= Sure(rows, step, g, r.id) + k
      <4>1. Sure(rows', step', g, r.id) >= Sure(rows, step, g, r.id) - l
        BY <2>4, SureTakenOff
      <4>2. Sure(rows', step', g, r.id) \in Nat /\ Sure(rows, step, g, r.id) \in Nat
        BY StateTyped, SureTyped
      <4> HIDE DEF l
      <4> QED
        BY <3>1, <4>1, <4>2
    <3>4. ASSUME NEW id \in Ids \ {r.id} PROVE Sure(rows', step', g, id) >= Sure(rows, step, g, id)
      <4>1. RowsOf(rows', id) = RowsOf(rows, id)
        <5> DEFINE y == [r EXCEPT !.charges = row.charges - qty]
        <5>1. y.id = r.id
          BY DEF Typed, TypeOK, RowType
        <5> HIDE DEF y
        <5>2. rows' = rows \ {r} \/ rows' = (rows \ {r}) \cup {y}
          BY <2>4, TakenOffRow DEF y
        <5> QED
          BY <5>1, <5>2 DEF RowsOf
      <4> QED
        BY <1>3, <1>4, <4>1, SureStays
    <3>5. Got(parcels', step', b, g) >= Got(parcels, step, b, g) + l
      <4>1. parcels[b][g] \in Nat
        BY StateTyped
      <4>2. step'[b].pc = "Taken"
        BY <1>1, <1>2 DEF BuyerSteps
      <4>3. Got(parcels', step', b, g) = parcels[b][g]
        BY <1>3, <4>1, <4>2 DEF Got
      <4>4. Got(parcels, step, b, g) = parcels[b][g] - l
        BY <1>1, <3>2, <4>1 DEF Got
      <4> QED
        BY <3>1, <4>1, <4>3, <4>4
    <3> HIDE DEF k, l
    <3>6. Held(bag', step', g) + k + l >= Held(bag, step, g)
      BY <1>5, <3>1
    <3>7. \E a \in Ids : /\ Sure(rows', step', g, a) >= Sure(rows, step, g, a) + k
                         /\ \A id \in Ids \ {a} : Sure(rows', step', g, id) >= Sure(rows, step, g, id)
      BY <3>2, <3>3, <3>4
    <3>8. \E a \in Buyers : /\ Got(parcels', step', a, g) >= Got(parcels, step, a, g) + l
                            /\ \A c \in Buyers \ {a} : Got(parcels', step', c, g) >= Got(parcels, step, c, g)
      BY <2>1, <3>5
    <3> QED
      BY <2>2, <3>1, <3>6, <3>7, <3>8, SafeStep
  <2> QED
    BY <2>3, <2>4
<1> QED
  BY <1>3, <1>6, GotKept DEF Kept

\* The least of one number.
LEMMA LeastOfOne ==
    ASSUME NEW n \in Nat PROVE Least({n}) = n
<1>1. IsFiniteSet({n}) /\ {n} \in SUBSET Nat /\ {n} # {}
  BY FS_Singleton
<1>2. Least({n}) \in {n}
  BY <1>1, LeastIs
<1> QED
  BY <1>2

\* A row of an item alone with its id is sure.
LEMMA SureAlone ==
    ASSUME NEW R, IsShop(R), NEW x \in R, NEW s, ~Pulling(s, x.id), Readers(s, x.id) = {}
    PROVE  Sure(R, s, x.good, x.id) = IF x.good \in Stackable THEN x.charges ELSE 1
<1>1. RowsOf(R, x.id) = {x}
  BY DEF RowsOf, IsShop
<1>2. Seen(R, s, x.id) = {x.charges} /\ OnShop(R, x.good, x.id)
  BY <1>1 DEF Seen, OnShop
<1>3. Least({x.charges}) = x.charges
  BY LeastOfOne DEF IsShop, RowType
<1> QED
  BY <1>2, <1>3 DEF Sure

\* Where one row of an item has all its units, none is lost.
LEMMA KeptThere ==
    ASSUME NEW B \in [Goods -> Nat], NEW R, IsShop(R), NEW P \in [Buyers -> [Goods -> Nat]], NEW s, GoodCopies(s),
           NEW g \in Goods, \A b \in Buyers : Got(P, s, b, g) >= 0,
           NEW id \in Ids, Sure(R, s, g, id) >= Stack[g]
    PROVE  Safe(B, R, P, s, g) >= Stack[g]
<1> DEFINE f == [i \in Ids |-> Sure(R, s, g, i)]
           u == [b \in Buyers |-> Got(P, s, b, g)]
<1>1. Held(B, s, g) \in Nat /\ f \in [Ids -> Nat] /\ u \in [Buyers -> Int] /\ f[id] = Sure(R, s, g, id)
  BY SafeTyped
<1>2. \A b \in Buyers : u[b] >= 0
  OBVIOUS
<1>3. Safe(B, R, P, s, g) = Held(B, s, g) + SumFunction(f) + SumFunction(u)
  BY DEF Safe
<1>4. Stack[g] \in Nat
  BY Constants
<1> HIDE DEF f, u
<1>5. u \in [Buyers -> Nat]
  BY <1>1, <1>2
<1>6. SumFunction(f) >= f[id] /\ SumFunction(f) \in Nat /\ SumFunction(u) \in Nat /\ f[id] \in Nat
  BY <1>1, <1>5, IdsFinite, Constants, Total, TotalAtLeast
<1> QED
  BY <1>1, <1>3, <1>4, <1>6

\* Listing moves items from the bags to rows of their own.
LEMMA KeptAdd ==
    ASSUME Typed, Typed', Kept, AddItemsToShop
    PROVE  Kept'
<1>1. PICK n \in Nat \ {0} : \E list \in [1 .. n -> Goods] : Lists(n, list)
  BY Listing
<1>2. PICK list \in [1 .. n -> Goods] : Lists(n, list)
  BY <1>1
<1> DEFINE New(i) == Row(last_id + i, shopsn + i - 1, list[i], bag[list[i]])
<1>3. last_id + n <= MaxListings /\ rows' = rows \cup {New(i) : i \in 1 .. n}
  BY <1>2 DEF Lists
<1>4. \A i \in 1 .. n : New(i).id = last_id + i /\ New(i).good = list[i] /\ New(i).charges = bag[list[i]]
  BY DEF Row
<1> HIDE DEF New
<1>5. step[Seller] = Idle /\ UNCHANGED <<bag, parcels>> /\ [Next]_vars
  BY Constants DEF AddItemsToShop, MayStart, Process, Next
<1>6. step'[Seller].pc = "Inserted" /\ step'[Seller].slots = Range(list) /\ \A b \in Buyers : step'[b] = step[b]
  BY <1>2, SellerMoves DEF Lists
<1>7. last_id \in Nat /\ MaxListings \in Nat
  BY Constants DEF Typed, TypeOK
<1>8. IsShop(rows) /\ IsShop(rows') /\ GoodCopies(step) /\ GoodCopies(step') /\ bag \in [Goods -> Nat] /\ bag' \in [Goods -> Nat]
      /\ parcels' \in [Buyers -> [Goods -> Nat]]
  BY StateTyped
<1>9. \A id : ~Pulling(step', id) /\ ~Pulling(step, id) /\ Readers(step', id) = Readers(step, id)
  BY <1>5, <1>6 DEF Pulling, Readers, Idle
<1>10. \A id \in Ids : id > last_id => Readers(step, id) = {} /\ RowsOf(rows, id) = {}
  <2> SUFFICES ASSUME NEW id \in Ids, id > last_id PROVE Readers(step, id) = {} /\ RowsOf(rows, id) = {}
    OBVIOUS
  <2>1. ~(id <= last_id)
    BY <1>7 DEF Ids
  <2> QED
    BY <2>1 DEF Readers, RowsOf, Typed, Numbers
<1>11. \A id \in Ids : id <= last_id => RowsOf(rows', id) = RowsOf(rows, id)
  <2> SUFFICES ASSUME NEW id \in Ids, id <= last_id PROVE RowsOf(rows', id) = RowsOf(rows, id)
    OBVIOUS
  <2>1. \A i \in 1 .. n : last_id + i # id
    BY <1>7 DEF Ids
  <2> QED
    BY <1>3, <1>4, <2>1 DEF RowsOf
<1>12. ASSUME NEW g \in Goods, NEW id \in Ids PROVE Sure(rows', step', g, id) >= Sure(rows, step, g, id)
  <2>1. Sure(rows', step', g, id) \in Nat
    BY <1>8, SureTyped
  <2>2. CASE id > last_id
    <3>1. Sure(rows, step, g, id) = 0
      BY <1>10, <2>2 DEF Sure, OnShop
    <3> QED
      BY <2>1, <3>1
  <2>3. CASE id <= last_id
    <3>1. RowsOf(rows', id) = RowsOf(rows, id)
      BY <1>11, <2>3
    <3> QED
      BY <1>5, <1>9, <3>1, SureStays
  <2> QED
    BY <1>7, <2>2, <2>3 DEF Ids
<1>13. ASSUME NEW i \in 1 .. n
       PROVE  /\ last_id + i \in Ids
              /\ Sure(rows', step', list[i], last_id + i) = (IF list[i] \in Stackable THEN bag[list[i]] ELSE 1)
              /\ Sure(rows, step, list[i], last_id + i) = 0
  <2> DEFINE id == last_id + i
             x == New(i)
  <2>1. id \in Ids /\ id > last_id
    BY <1>3, <1>7 DEF Ids
  <2>2. x \in rows' /\ x.id = id /\ x.good = list[i] /\ x.charges = bag[list[i]]
    BY <1>3, <1>4
  <2> HIDE DEF x
  <2>3. Readers(step', id) = {} /\ ~Pulling(step', id)
    BY <1>9, <1>10, <2>1
  <2> HIDE DEF id
  <2>4. Sure(rows', step', list[i], id) = (IF list[i] \in Stackable THEN bag[list[i]] ELSE 1)
    BY <1>8, <2>2, <2>3, SureAlone
  <2>5. Sure(rows, step, list[i], id) = 0
    BY <1>10, <2>1 DEF Sure, OnShop
  <2> QED
    BY <2>1, <2>4, <2>5 DEF id
<1>14. \A b \in Buyers, g \in Goods : Got(parcels', step', b, g) >= 0
  BY <1>5, GotKept
<1>15. ASSUME NEW g \in Goods PROVE Safe(bag', rows', parcels', step', g) >= Stack[g]
  <2>1. \A b \in Buyers : Got(parcels', step', b, g) >= Got(parcels, step, b, g)
    BY <1>5, GotStays
  <2>2. Safe(bag, rows, parcels, step, g) >= Stack[g]
    BY DEF Kept
  <2>3. Held(bag, step, g) = bag[g] /\ Held(bag', step', g) = (IF g \in Range(list) THEN 0 ELSE bag[g]) /\ bag[g] \in Nat
    BY <1>5, <1>6, <1>8 DEF Held, Idle
  <2>4. CASE g \notin Range(list)
    <3>1. Held(bag', step', g) + 0 + 0 >= Held(bag, step, g)
      BY <2>3, <2>4
    <3> QED
      BY <1>12, <2>1, <2>2, <3>1, SafeStep
  <2>5. CASE g \in Range(list) /\ g \in Stackable
    <3>0. PICK j \in 1 .. n : list[j] = g
      BY <2>5 DEF Range
    <3> DEFINE a == last_id + j
               k == bag[g]
    <3>1. a \in Ids /\ Sure(rows', step', g, a) = k /\ Sure(rows, step, g, a) = 0
      BY <1>13, <2>5, <3>0
    <3> HIDE DEF a
    <3>2. Sure(rows', step', g, a) >= Sure(rows, step, g, a) + k /\ k \in Int
      BY <2>3, <3>1
    <3>3. Held(bag', step', g) + k + 0 >= Held(bag, step, g)
      BY <2>3, <2>5
    <3> HIDE DEF k
    <3>4. \A id \in Ids \ {a} : Sure(rows', step', g, id) >= Sure(rows, step, g, id)
      BY <1>12
    <3> QED
      BY <2>1, <2>2, <3>1, <3>2, <3>3, <3>4, SafeGained
  <2>6. CASE g \in Range(list) /\ g \notin Stackable
    <3>0. PICK j \in 1 .. n : list[j] = g
      BY <2>6 DEF Range
    <3>1. Stack[g] = 1
      BY <2>6, ShopAssumption
    <3>2. last_id + j \in Ids /\ Sure(rows', step', g, last_id + j) = 1
      BY <1>13, <2>6, <3>0
    <3>3. Sure(rows', step', g, last_id + j) >= Stack[g]
      BY <3>1, <3>2
    <3> QED
      BY <1>8, <1>14, <3>2, <3>3, KeptThere
  <2> QED
    BY <2>4, <2>5, <2>6
<1> QED
  BY <1>14, <1>15 DEF Kept

\* Every step keeps every unit, even those that are sure.
LEMMA KeptStep ==
    ASSUME Typed, Typed', Serials, Kept, [Next]_vars, ~MayMove, ~SerialsMeet
    PROVE  Kept'
<1>1. CASE AddItemsToShop
  BY <1>1, KeptAdd
<1>2. CASE PullShopItem
  BY <1>2, KeptPull
<1>3. CASE DeletePulled
  BY <1>3, KeptDelete
<1>4. ASSUME NEW b \in Buyers, TakeOffShop(b) PROVE Kept'
  BY <1>4, KeptTakeOff
<1>5. ~Move
  BY DEF Move
<1> QED
  BY <1>1, <1>2, <1>3, <1>4, <1>5, KeptQuiet

\* In the beginning all units are in the bags or on the shop.
LEMMA KeptInit == Init => Kept
<1> SUFFICES ASSUME Init PROVE Kept
  OBVIOUS
<1>1. Typed
  BY TypedInit
<1>2. PICK nth \in Bijection(Goods, 1 .. Cardinality(Goods)) : InitItems(nth)
  BY DEF Init
<1>3. Cardinality(Goods) \in Nat
  BY Constants, FS_CardinalityType
<1>4. /\ step = [p \in Players |-> Idle] /\ parcels = [b \in Buyers |-> [g \in Goods |-> 0]]
      /\ seller \in SellerStart
  BY DEF Init
<1>5. step[Seller] = Idle /\ \A b \in Buyers : step[b] = Idle
  BY <1>4, Constants
<1>6. /\ \A b \in Buyers, g \in Goods : Got(parcels, step, b, g) = 0
      /\ \A id : Readers(step, id) = {} /\ ~Pulling(step, id)
  BY <1>4, <1>5 DEF Got, Readers, Pulling, Idle
<1>7. IsShop(rows) /\ GoodCopies(step) /\ bag \in [Goods -> Nat] /\ parcels \in [Buyers -> [Goods -> Nat]]
  BY <1>1, StateTyped
<1>8. ASSUME NEW g \in Goods PROVE Safe(bag, rows, parcels, step, g) >= Stack[g]
  <2>1. CASE seller = "Offline"
    <3> DEFINE x == Row(nth[g], nth[g], g, Stack[g])
    <3>1. nth[g] \in 1 .. Cardinality(Goods) /\ Cardinality(Goods) <= MaxListings
      BY <1>2, <1>4, <2>1, ShopAssumption DEF Bijection, Injection
    <3>2. nth[g] \in Ids
      BY <1>3, <3>1, Constants DEF Ids
    <3>3. x \in rows /\ x.id = nth[g] /\ x.good = g /\ x.charges = Stack[g]
      BY <1>2, <2>1 DEF InitItems, Row
    <3> HIDE DEF x
    <3>4. Sure(rows, step, g, nth[g]) = IF g \in Stackable THEN Stack[g] ELSE 1
      BY <1>6, <1>7, <3>3, SureAlone
    <3>5. Sure(rows, step, g, nth[g]) >= Stack[g]
      BY <3>4, ShopAssumption
    <3>6. \A b \in Buyers : Got(parcels, step, b, g) >= 0
      BY <1>6
    <3> QED
      BY <1>7, <3>2, <3>5, <3>6, KeptThere
  <2>2. CASE seller # "Offline"
    <3> DEFINE f == [id \in Ids |-> Sure(rows, step, g, id)]
               u == [b \in Buyers |-> Got(parcels, step, b, g)]
    <3>1. Held(bag, step, g) = Stack[g] /\ Stack[g] \in Nat
      BY <1>2, <1>5, <2>2, Constants DEF InitItems, Held, Idle
    <3>2. f \in [Ids -> Nat]
      BY <1>7, SureTyped
    <3>3. u \in [Buyers -> Nat]
      BY <1>6
    <3>4. Safe(bag, rows, parcels, step, g) = Held(bag, step, g) + SumFunction(f) + SumFunction(u)
      BY DEF Safe
    <3> HIDE DEF f, u
    <3>5. SumFunction(f) \in Nat /\ SumFunction(u) \in Nat
      BY <3>2, <3>3, IdsFinite, Constants, Total
    <3> QED
      BY <3>1, <3>4, <3>5
  <2> QED
    BY <2>1, <2>2
<1> QED
  BY <1>6, <1>8 DEF Kept

\* What is sure is on the shop.
LEMMA SureShop ==
    ASSUME NEW R, IsShop(R), NEW s, GoodCopies(s), NEW g
    PROVE  SumFunction([id \in Ids |-> Sure(R, s, g, id)]) <= Shop(R, g)
<1> DEFINE h(T) == [id \in Ids |-> IF \E r \in T : r.id = id THEN Sure(R, s, g, id) ELSE 0]
           G == {T \in SUBSET R : SumFunction(h(T)) <= Shop(T, g)}
<1>1. IsFiniteSet(R) /\ IsFiniteSet(Ids)
  BY ShopTyped, IdsFinite
<1>2. \A id : Sure(R, s, g, id) \in Nat
  BY SureTyped
<1>3. \A T : h(T) \in [Ids -> Nat] /\ h(T) \in [Ids -> Int]
  BY <1>2
<1>4. {} \in G
  <2> DEFINE z == h({})
  <2>1. z \in [Ids -> Nat] /\ \A id \in Ids : z[id] = 0
    BY <1>3
  <2>2. DOMAIN z = Ids
    OBVIOUS
  <2> HIDE DEF z
  <2>3. SumFunction(z) = 0 * Cardinality(Ids)
    BY <1>1, <2>1, <2>2, SumConstant DEF SumFunction
  <2>4. Cardinality(Ids) \in Nat
    BY <1>1, FS_CardinalityType
  <2>5. SumFunction(z) = 0
    BY <2>3, <2>4
  <2> QED
    BY <2>5, ShopEmpty DEF z
<1>5. ASSUME NEW T \in SUBSET R, T # {}, \A x \in T : T \ {x} \in G PROVE T \in G
  <2>1. PICK x \in T : TRUE
    BY <1>5
  <2> DEFINE U == T \ {x}
             u == h(U)
             v == h(T)
  <2>2. IsShop(T) /\ x \in RowType /\ x.id \in Ids
    BY DEF IsShop, RowType, Ids
  <2>3. /\ u[x.id] = 0 /\ v[x.id] = Sure(R, s, g, x.id)
        /\ \A id \in Ids : id # x.id => v[id] = u[id]
    <3>1. \A r \in U : r.id # x.id
      BY DEF IsShop
    <3> QED
      BY <2>1, <2>2, <3>1
  <2>4. u \in [Ids -> Int] /\ v \in [Ids -> Int]
    BY <1>3
  <2>5. SumFunction(u) <= Shop(U, g)
    BY <1>5, <2>1
  <2>6. Shop(T, g) = Shop(U, g) + (IF x.good = g THEN x.charges ELSE 0)
    BY <2>1, <2>2, ShopLess
  <2>7. Sure(R, s, g, x.id) <= (IF x.good = g THEN x.charges ELSE 0)
    <3>1. CASE x.good = g
      <4>1. x.charges \in Seen(R, s, x.id)
        BY <2>1 DEF Seen, RowsOf
      <4> QED
        BY <3>1, <4>1, SureAtMost
    <3>2. CASE x.good # g
      <4>1. ~OnShop(R, g, x.id)
        BY <2>1, <3>2 DEF OnShop, RowsOf, IsShop
      <4> QED
        BY <3>2, <4>1 DEF Sure
    <3> QED
      BY <3>1, <3>2
  <2>8. IsShop(U) /\ x.charges \in Nat
    BY <2>2 DEF IsShop, RowType
  <2>9. Shop(U, g) \in Nat /\ Shop(T, g) \in Nat
    BY <2>2, <2>8, ShopTyped
  <2> HIDE DEF h, U, u, v
  <2>10. SumFunction(v) = SumFunction(u) - u[x.id] + v[x.id]
    BY <1>1, <2>2, <2>3, <2>4, TotalChanged
  <2>11. SumFunction(u) \in Int /\ SumFunction(v) \in Int
    BY <1>1, <2>4, TotalInt
  <2>12. SumFunction(v) <= Shop(T, g)
    BY <1>2, <2>3, <2>5, <2>6, <2>7, <2>8, <2>9, <2>10, <2>11
  <2> QED
    BY <2>12 DEF v
<1> HIDE DEF G
<1>6. R \in G
  BY <1>1, <1>4, <1>5, FiniteInduction
<1>7. h(R) = [id \in Ids |-> Sure(R, s, g, id)]
  <2>1. \A id : ~(\E r \in R : r.id = id) => Sure(R, s, g, id) = 0
    BY DEF Sure, OnShop, RowsOf
  <2> QED
    BY <2>1
<1> QED
  BY <1>6, <1>7 DEF G

\* Units that are sure are somewhere.
LEMMA KeptUnits == Typed /\ Kept => NoItemLost
<1> SUFFICES ASSUME Typed, Kept, NEW g \in Goods PROVE Units(g) >= Stack[g]
  BY DEF NoItemLost
<1> DEFINE f == [id \in Ids |-> Sure(rows, step, g, id)]
           u == [b \in Buyers |-> Got(parcels, step, b, g)]
           v == [b \in Buyers |-> parcels[b][g]]
<1>1. IsShop(rows) /\ GoodCopies(step) /\ bag \in [Goods -> Nat] /\ parcels \in [Buyers -> [Goods -> Nat]]
  BY StateTyped
<1>2. Held(bag, step, g) <= bag[g] /\ bag[g] \in Nat /\ Held(bag, step, g) \in Nat
  BY <1>1 DEF Held
<1>3. SumFunction(f) <= Shop(rows, g) /\ Shop(rows, g) \in Nat
  BY <1>1, SureShop, ShopTyped
<1>4. ASSUME NEW b \in Buyers PROVE u[b] <= v[b] /\ u[b] \in Int /\ v[b] \in Int
  <2>1. step[b].pc = "Delivered" => step[b].qty \in Nat
    BY BuyerIn DEF Typed
  <2> QED
    BY <1>1, <2>1 DEF Got
<1>5. u \in [Buyers -> Int] /\ v \in [Buyers -> Int]
  BY <1>4
<1>6. f \in [Ids -> Nat]
  BY <1>1, SureTyped
<1>7. Safe(bag, rows, parcels, step, g) = Held(bag, step, g) + SumFunction(f) + SumFunction(u)
  BY DEF Safe
<1>8. Sent(parcels, g) = SumFunction(v)
  BY DEF Sent
<1>9. Units(g) = bag[g] + Shop(rows, g) + Sent(parcels, g)
  BY UnitsAre
<1>10. Safe(bag, rows, parcels, step, g) >= Stack[g] /\ Stack[g] \in Nat
  BY Constants DEF Kept
<1> HIDE DEF f, u, v
<1>11. SumFunction(u) <= SumFunction(v)
  BY <1>4, <1>5, Constants, TotalBelow
<1>12. SumFunction(f) \in Nat /\ SumFunction(u) \in Int /\ SumFunction(v) \in Int
  BY <1>5, <1>6, IdsFinite, Constants, Total, TotalInt
<1> QED
  BY <1>2, <1>3, <1>7, <1>8, <1>9, <1>10, <1>11, <1>12

\* No item is lost, whatever step a process dies at, and however purchases, pulls and listings
\* interleave, until a process dies between the insertion of rows and the saving of the counter,
\* where the seller does not move while trading and no item's serial is a listing's.
THEOREM ItemsNotLost ==
    ASSUME ~MayMove, ~SerialsMeet
    PROVE  Spec => []NoItemLost
<1> DEFINE Unbroken == ~interrupted => Serials /\ Kept
<1>1. Init => Typed /\ Unbroken
  BY TypedInit, SerialsInit, KeptInit
<1>2. Typed /\ Unbroken /\ [Next]_vars => (Typed /\ Unbroken)'
  BY TypedStep, Finishes, SerialsStep, KeptStep
<1>3. Typed /\ Unbroken => NoItemLost
  BY KeptUnits DEF NoItemLost
<1> HIDE DEF Unbroken
<1> QED
  BY <1>1, <1>2, <1>3, PTL DEF Spec

============================================================================
