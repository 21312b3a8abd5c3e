-------------------------- MODULE BackOffice_proofs --------------------------
(***************************************************************************)
(* Theorems about the rules of BackOffice, for sheets of any length, rows  *)
(* and policies of any amounts, dates, rates and limits.                   *)
(***************************************************************************)
EXTENDS BackOffice, FiniteSetTheorems, WellFoundedInduction, TLAPS

-----------------------------------------------------------------------------
(* Induction over the numbers and over the parts of a finite set.          *)
Less == {pair \in Nat \X Nat : pair[1] < pair[2]}

LEMMA LessWellFounded == IsWellFoundedOn(Less, Nat)
BY NatLessThanWellFounded, Zenon DEF OpToRel, Less

(* What holds at 0 and is handed on holds up to n.                         *)
LEMMA AllReached ==
    ASSUME NEW n \in Nat, NEW Good, 0 \in Good,
           \A k \in 1 .. n : k - 1 \in Good => k \in Good
    PROVE  \A k \in 0 .. n : k \in Good
<1> DEFINE Bad == {k \in 0 .. n : k \notin Good}
<1>1. SUFFICES ASSUME Bad # {} PROVE FALSE
    OBVIOUS
<1>2. PICK k \in Bad : \A j \in Bad : ~(<<j, k>> \in Less)
    <2>1. Bad \in SUBSET Nat
        OBVIOUS
    <2> HIDE DEF Bad
    <2> QED BY <1>1, <2>1, LessWellFounded, WFMin
<1>3. k \in 1 .. n /\ k \notin Good /\ k - 1 \in 0 .. n
    OBVIOUS
<1>4. k - 1 \notin Bad
    <2>1. <<k - 1, k>> \in Less
        BY <1>3 DEF Less
    <2> HIDE DEF Bad
    <2> QED BY <1>2, <2>1
<1> QED BY <1>3, <1>4

(* What holds of no element and is handed on to one more.                  *)
LEMMA AllParts ==
    ASSUME NEW S, IsFiniteSet(S), NEW Good, {} \in Good,
           \A T \in SUBSET S : \A x \in S \ T : T \in Good => T \cup {x} \in Good
    PROVE  \A T \in SUBSET S : T \in Good
<1> DEFINE n == Cardinality(S)
           Sized(k) == {T \in SUBSET S : Cardinality(T) = k}
           Fine == {k \in 0 .. n : \A T \in Sized(k) : T \in Good}
<1>1. n \in Nat /\ 0 \in 0 .. n
    BY FS_CardinalityType
<1>2. \A T \in SUBSET S : IsFiniteSet(T) /\ Cardinality(T) \in 0 .. n
    BY <1>1, FS_Subset, FS_CardinalityType
<1>3. 0 \in Fine
    <2>1. \A T \in Sized(0) : T = {}
        BY <1>2, FS_EmptySet
    <2> QED BY <1>1, <2>1
<1>4. ASSUME NEW k \in 1 .. n, k - 1 \in Fine PROVE k \in Fine
    <2>1. ASSUME NEW T \in Sized(k) PROVE T \in Good
        <3>1. T # {} /\ IsFiniteSet(T)
            BY <1>2, FS_EmptySet
        <3>2. PICK x : x \in T
            BY <3>1
        <3>3. Cardinality(T \ {x}) = k - 1
            BY <3>1, <3>2, FS_RemoveElement
        <3>4. T \ {x} \in Sized(k - 1)
            BY <3>3
        <3>5. T \ {x} \in Good
            BY <1>4, <3>4
        <3>6. x \in S \ (T \ {x}) /\ (T \ {x}) \cup {x} = T /\ T \ {x} \in SUBSET S
            BY <3>2
        <3> QED BY <3>5, <3>6
    <2>2. k \in 0 .. n
        BY <1>1
    <2> QED BY <2>1, <2>2
<1>5. \A k \in 0 .. n : k \in Fine
    <2>1. \A k \in 1 .. n : k - 1 \in Fine => k \in Fine
        BY <1>4
    <2> HIDE DEF Fine
    <2> QED BY <1>1, <1>3, <2>1, AllReached
<1> QED BY <1>2, <1>5

-----------------------------------------------------------------------------
(* A sum is that of the function CHOSEN by the fold: PickOf says in which  *)
(* order the elements are taken.                                           *)
PickOf(T) == CHOOSE x \in T : TRUE

Adds(g, f, S) ==
    g = [T \in SUBSET S |-> IF T = {} THEN 0 ELSE f[PickOf(T)] + g[T \ {PickOf(T)}]]

LEMMA SumIs ==
    ASSUME NEW f, NEW S
    PROVE  SumFunctionOnSet(f, S) = (CHOOSE g : Adds(g, f, S))[S]
BY DEF SumFunctionOnSet, FoldFunctionOnSet, MapThenFoldSet, Adds, PickOf

LEMMA Picked == \A T : T # {} => PickOf(T) \in T
BY DEF PickOf

(* A sum of whole numbers over a finite set is a function of the set.      *)
LEMMA SumsExist ==
    ASSUME NEW f, NEW S, IsFiniteSet(S), \A x \in S : f[x] \in Int
    PROVE  \E g \in [SUBSET S -> Int] : Adds(g, f, S)
<1> DEFINE Next(g, T) == IF T = {} THEN 0 ELSE f[PickOf(T)] + g[T \ {PickOf(T)}]
           n == Cardinality(S)
           Upto(k) == {g \in [SUBSET S -> Int] :
                          \A T \in SUBSET S : Cardinality(T) <= k => g[T] = Next(g, T)}
           Fine == {k \in 0 .. n : Upto(k) # {}}
<1>1. n \in Nat /\ 0 \in 0 .. n
    BY FS_CardinalityType
<1>2. \A T \in SUBSET S : IsFiniteSet(T) /\ Cardinality(T) \in 0 .. n
    BY <1>1, FS_Subset, FS_CardinalityType
<1>3. ASSUME NEW T \in SUBSET S, T # {}
      PROVE  /\ PickOf(T) \in T /\ T \ {PickOf(T)} \in SUBSET S
             /\ Cardinality(T \ {PickOf(T)}) = Cardinality(T) - 1
    <2>1. PickOf(T) \in T
        BY <1>3, Picked
    <2> QED BY <1>2, <2>1, FS_RemoveElement
<1>4. 0 \in Fine
    <2> DEFINE zero == [T \in SUBSET S |-> 0]
    <2>1. zero \in [SUBSET S -> Int]
        OBVIOUS
    <2>2. ASSUME NEW T \in SUBSET S, Cardinality(T) <= 0 PROVE zero[T] = Next(zero, T)
        <3>1. T = {}
            BY <1>2, <2>2, FS_EmptySet
        <3> QED BY <3>1
    <2> HIDE DEF zero, Next
    <2>3. zero \in Upto(0)
        BY <2>1, <2>2
    <2> QED BY <1>1, <2>3
<1>5. ASSUME NEW k \in 1 .. n, k - 1 \in Fine PROVE k \in Fine
    <2>1. PICK g : g \in Upto(k - 1)
        BY <1>5
    <2>2. g \in [SUBSET S -> Int]
          /\ \A T \in SUBSET S : Cardinality(T) <= k - 1 => g[T] = Next(g, T)
        BY <2>1
    <2>3. \A T \in SUBSET S : Next(g, T) \in Int
        BY <1>3, <2>2
    <2> DEFINE h == [T \in SUBSET S |-> Next(g, T)]
    <2>4. h \in [SUBSET S -> Int]
        <3> HIDE DEF Next
        <3> QED BY <2>3
    <2>5. ASSUME NEW T \in SUBSET S, Cardinality(T) <= k PROVE h[T] = Next(h, T)
        <3>1. CASE T = {}
            BY <3>1
        <3>2. CASE T # {}
            <4> DEFINE U == T \ {PickOf(T)}
            <4>1. U \in SUBSET S /\ Cardinality(U) <= k - 1
                <5>1. Cardinality(T) \in Int /\ k \in Int
                    BY <1>2
                <5> QED BY <1>3, <2>5, <3>2, <5>1
            <4>2. g[U] = h[U]
                <5> HIDE DEF Next, U
                <5> QED BY <2>2, <4>1
            <4>3. h[T] = Next(g, T)
                OBVIOUS
            <4> HIDE DEF h
            <4> QED BY <3>2, <4>2, <4>3
        <3> QED BY <3>1, <3>2
    <2> HIDE DEF h, Next
    <2>6. h \in Upto(k)
        BY <2>4, <2>5
    <2>7. k \in 0 .. n
        BY <1>1
    <2> QED BY <2>6, <2>7
<1>6. n \in Fine
    <2>1. \A k \in 1 .. n : k - 1 \in Fine => k \in Fine
        BY <1>5
    <2>2. n \in 0 .. n
        BY <1>1
    <2> HIDE DEF Fine, n
    <2>3. \A k \in 0 .. n : k \in Fine
        BY <1>1, <1>4, <2>1, AllReached
    <2> QED BY <2>2, <2>3
<1>7. PICK g : g \in Upto(n)
    BY <1>6
<1>8. \A T \in SUBSET S : g[T] = Next(g, T)
    <2>1. \A T \in SUBSET S : Cardinality(T) <= n
        BY <1>1, <1>2
    <2> HIDE DEF Next, n
    <2> QED BY <1>7, <2>1
<1>9. g \in [SUBSET S -> Int]
    BY <1>7
<1>10. g = [T \in SUBSET S |-> Next(g, T)]
    <2> HIDE DEF Next
    <2> QED BY <1>8, <1>9
<1> QED BY <1>9, <1>10 DEF Adds

(* Whichever element is taken first.                                       *)
Totals(g, f, S) ==
    /\ g[{}] = 0
    /\ \A T \in SUBSET S : g[T] \in Int
    /\ \A T \in SUBSET S : \A x \in T : g[T] = f[x] + g[T \ {x}]

LEMMA AnyFirst ==
    ASSUME NEW f, NEW S, IsFiniteSet(S), \A x \in S : f[x] \in Int,
           NEW g, Adds(g, f, S)
    PROVE  Totals(g, f, S)
<1> DEFINE n == Cardinality(S)
           OK(U) == g[U] \in Int /\ \A x \in U : g[U] = f[x] + g[U \ {x}]
           Fine == {k \in 0 .. n : \A U \in SUBSET S : Cardinality(U) <= k => OK(U)}
<1>1. n \in Nat /\ 0 \in 0 .. n
    BY FS_CardinalityType
<1>2. \A T \in SUBSET S : IsFiniteSet(T) /\ Cardinality(T) \in 0 .. n
    BY <1>1, FS_Subset, FS_CardinalityType
<1>3. \A T \in SUBSET S : g[T] = IF T = {} THEN 0 ELSE f[PickOf(T)] + g[T \ {PickOf(T)}]
    BY DEF Adds
<1>4. g[{}] = 0
    BY <1>3
<1>5. 0 \in Fine
    <2>1. ASSUME NEW U \in SUBSET S, Cardinality(U) <= 0 PROVE OK(U)
        <3>1. U = {}
            BY <1>2, <2>1, FS_EmptySet
        <3> QED BY <1>4, <3>1
    <2> QED BY <1>1, <2>1
<1>6. ASSUME NEW k \in 1 .. n, k - 1 \in Fine PROVE k \in Fine
    <2>1. \A U \in SUBSET S : Cardinality(U) <= k - 1 => OK(U)
        BY <1>6
    <2>2. ASSUME NEW U \in SUBSET S, Cardinality(U) <= k PROVE OK(U)
        <3>1. CASE U = {}
            BY <1>4, <3>1
        <3>2. CASE U # {}
            <4> DEFINE p == PickOf(U)
                       V == U \ {p}
            <4>1. p \in U /\ g[U] = f[p] + g[V]
                BY <1>3, <3>2, Picked
            <4> HIDE DEF p
            <4>2. ASSUME NEW T \in SUBSET S, T \subseteq U, NEW y \in T
                  PROVE  T \ {y} \in SUBSET S /\ Cardinality(T \ {y}) = Cardinality(T) - 1
                BY <1>2, FS_RemoveElement
            <4>3. V \in SUBSET S /\ Cardinality(V) <= k - 1
                <5>1. Cardinality(V) = Cardinality(U) - 1 /\ Cardinality(U) \in Int
                    BY <1>2, <4>1, <4>2
                <5> QED BY <2>2, <5>1
            <4>4. OK(V)
                BY <2>1, <4>3
            <4>5. g[U] \in Int /\ f[p] \in Int
                BY <4>1, <4>4
            <4>6. ASSUME NEW x \in U, x # p PROVE g[U] = f[x] + g[U \ {x}]
                <5> DEFINE W == U \ {x}
                <5>1. x \in V /\ V \ {x} = W \ {p} /\ p \in W
                    BY <4>1, <4>6
                <5>2. W \in SUBSET S /\ Cardinality(W) <= k - 1
                    <6>1. Cardinality(W) = Cardinality(U) - 1 /\ Cardinality(U) \in Int
                        BY <1>2, <4>2
                    <6> QED BY <2>2, <6>1
                <5>3. OK(W)
                    BY <2>1, <5>2
                <5>4. V \ {x} \in SUBSET S /\ Cardinality(V \ {x}) <= k - 1
                    <6>1. Cardinality(V \ {x}) = Cardinality(V) - 1 /\ Cardinality(V) \in Int
                        BY <1>2, <4>2, <4>3, <5>1
                    <6> QED BY <4>3, <6>1
                <5>5. OK(V \ {x})
                    BY <2>1, <5>4
                <5>6. g[V] = f[x] + g[V \ {x}]
                    BY <4>4, <5>1
                <5>7. g[W] = f[p] + g[V \ {x}]
                    BY <5>1, <5>3
                <5>8. f[x] \in Int
                    OBVIOUS
                <5> HIDE DEF V
                <5> QED BY <4>1, <4>5, <5>5, <5>6, <5>7, <5>8
            <4> QED BY <4>1, <4>5, <4>6
        <3> QED BY <3>1, <3>2
    <2>3. k \in 0 .. n
        BY <1>1
    <2> HIDE DEF OK
    <2> QED BY <2>2, <2>3
<1>7. n \in Fine
    <2>1. \A k \in 1 .. n : k - 1 \in Fine => k \in Fine
        BY <1>6
    <2>2. n \in 0 .. n
        BY <1>1
    <2> HIDE DEF Fine, n
    <2>3. \A k \in 0 .. n : k \in Fine
        BY <1>1, <1>5, <2>1, AllReached
    <2> QED BY <2>2, <2>3
<1>8. \A T \in SUBSET S : OK(T)
    <2>1. \A T \in SUBSET S : Cardinality(T) <= n
        BY <1>1, <1>2
    <2> HIDE DEF OK, n
    <2> QED BY <1>7, <2>1
<1> QED BY <1>4, <1>8 DEF Totals

LEMMA PartOfSum ==
    ASSUME NEW f, NEW S, IsFiniteSet(S), \A x \in S : f[x] \in Int,
           NEW T \in SUBSET S, NEW g, Adds(g, f, S)
    PROVE  g[T] = SumFunctionOnSet(f, T)
<1> DEFINE h == CHOOSE e : Adds(e, f, T)
           Good == {U \in SUBSET T : g[U] = h[U]}
<1>1. IsFiniteSet(T) /\ \A x \in T : f[x] \in Int
    BY FS_Subset
<1>2. Adds(h, f, T)
    <2>1. \E e : Adds(e, f, T)
        BY <1>1, SumsExist
    <2> QED BY <2>1
<1>3. SumFunctionOnSet(f, T) = h[T]
    BY SumIs
<1> HIDE DEF h
<1>4. Totals(h, f, T) /\ Totals(g, f, S)
    BY <1>1, <1>2, AnyFirst
<1>5. /\ h[{}] = 0 /\ \A U \in SUBSET T : \A x \in U : h[U] = f[x] + h[U \ {x}]
      /\ g[{}] = 0 /\ \A U \in SUBSET S : \A x \in U : g[U] = f[x] + g[U \ {x}]
    BY <1>4 DEF Totals
<1>6. {} \in Good
    BY <1>5
<1>7. ASSUME NEW U \in SUBSET T, NEW x \in T \ U, U \in Good PROVE U \cup {x} \in Good
    <2>1. (U \cup {x}) \ {x} = U /\ U \cup {x} \in SUBSET T /\ U \cup {x} \in SUBSET S
        OBVIOUS
    <2>2. g[U] = h[U] /\ g[U \cup {x}] = f[x] + g[U] /\ h[U \cup {x}] = f[x] + h[U]
        <3>1. x \in U \cup {x}
            OBVIOUS
        <3> HIDE DEF Good
        <3>2. g[U \cup {x}] = f[x] + g[(U \cup {x}) \ {x}]
            BY <1>5, <2>1, <3>1, Zenon
        <3>3. h[U \cup {x}] = f[x] + h[(U \cup {x}) \ {x}]
            BY <1>5, <2>1, <3>1, Zenon
        <3>4. g[U] = h[U]
            BY <1>7 DEF Good
        <3> QED BY <2>1, <3>2, <3>3, <3>4, Zenon
    <2> QED BY <2>1, <2>2
<1>8. \A U \in SUBSET T : U \in Good
    <2> HIDE DEF Good
    <2> QED BY <1>1, <1>6, <1>7, AllParts
<1> QED BY <1>3, <1>8

(* The sum over no element, and over a set with a given element.           *)
LEMMA SumOfNone ==
    ASSUME NEW f
    PROVE  SumFunctionOnSet(f, {}) = 0
<1>1. IsFiniteSet({}) /\ \A x \in {} : f[x] \in Int
    BY FS_EmptySet
<1>2. PICK g : Adds(g, f, {})
    BY <1>1, SumsExist
<1>3. g[{}] = 0
    BY <1>1, <1>2, AnyFirst DEF Totals
<1>4. g[{}] = SumFunctionOnSet(f, {})
    BY <1>1, <1>2, PartOfSum
<1> QED BY <1>3, <1>4

LEMMA SumOfMore ==
    ASSUME NEW f, NEW S, IsFiniteSet(S), \A x \in S : f[x] \in Int
    PROVE  /\ SumFunctionOnSet(f, S) \in Int
           /\ \A x \in S : SumFunctionOnSet(f, S) = f[x] + SumFunctionOnSet(f, S \ {x})
<1>1. PICK g : Adds(g, f, S)
    BY SumsExist
<1>2. Totals(g, f, S)
    BY <1>1, AnyFirst
<1>3. \A T \in SUBSET S : g[T] = SumFunctionOnSet(f, T)
    BY <1>1, PartOfSum
<1>4. S \in SUBSET S /\ \A x \in S : S \ {x} \in SUBSET S
    OBVIOUS
<1> QED BY <1>2, <1>3, <1>4 DEF Totals

LEMMA SumWith ==
    ASSUME NEW f, NEW S, IsFiniteSet(S), \A x \in S : f[x] \in Int,
           NEW T \in SUBSET S, NEW x \in S \ T
    PROVE  /\ SumFunctionOnSet(f, T \cup {x}) = f[x] + SumFunctionOnSet(f, T)
           /\ SumFunctionOnSet(f, T) \in Int
<1>1. IsFiniteSet(T \cup {x}) /\ IsFiniteSet(T)
    <2>1. T \cup {x} \in SUBSET S
        OBVIOUS
    <2> QED BY <2>1, FS_Subset
<1>2. /\ \A y \in T \cup {x} : f[y] \in Int
      /\ x \in T \cup {x} /\ (T \cup {x}) \ {x} = T /\ \A y \in T : f[y] \in Int
    OBVIOUS
<1> QED BY <1>1, <1>2, SumOfMore

(* Functions that agree on a set have the same sum over it.                *)
LEMMA SumsAgree ==
    ASSUME NEW S, IsFiniteSet(S), NEW f, NEW h,
           \A x \in S : f[x] \in Int, \A x \in S : f[x] = h[x]
    PROVE  SumFunctionOnSet(f, S) = SumFunctionOnSet(h, S)
<1> DEFINE Good == {T \in SUBSET S : SumFunctionOnSet(f, T) = SumFunctionOnSet(h, T)}
<1>1. {} \in Good
    BY SumOfNone
<1>2. ASSUME NEW T \in SUBSET S, NEW x \in S \ T, T \in Good PROVE T \cup {x} \in Good
    <2>1. \A y \in S : h[y] \in Int
        OBVIOUS
    <2>2. SumFunctionOnSet(f, T \cup {x}) = f[x] + SumFunctionOnSet(f, T)
        BY <2>1, SumWith
    <2>3. SumFunctionOnSet(h, T \cup {x}) = h[x] + SumFunctionOnSet(h, T)
        BY <2>1, SumWith
    <2> QED BY <1>2, <2>2, <2>3
<1>3. \A T \in SUBSET S : T \in Good
    <2> HIDE DEF Good
    <2> QED BY <1>1, <1>2, AllParts
<1> QED BY <1>3

(* The sum of the sums of two functions is the sum of theirs.              *)
LEMMA SumsAdd ==
    ASSUME NEW S, IsFiniteSet(S), NEW f, NEW h, NEW t, \A x \in S : f[x] \in Int,
           \A x \in S : h[x] \in Int, \A x \in S : t[x] = f[x] + h[x]
    PROVE  SumFunctionOnSet(t, S) = SumFunctionOnSet(f, S) + SumFunctionOnSet(h, S)
<1> DEFINE Good == {T \in SUBSET S : SumFunctionOnSet(t, T)
                                       = SumFunctionOnSet(f, T) + SumFunctionOnSet(h, T)}
<1>1. {} \in Good
    BY SumOfNone
<1>2. ASSUME NEW T \in SUBSET S, NEW x \in S \ T, T \in Good PROVE T \cup {x} \in Good
    <2>1. \A y \in S : t[y] \in Int
        OBVIOUS
    <2>2. /\ SumFunctionOnSet(f, T \cup {x}) = f[x] + SumFunctionOnSet(f, T)
          /\ SumFunctionOnSet(f, T) \in Int /\ f[x] \in Int
        BY <2>1, SumWith
    <2>3. /\ SumFunctionOnSet(h, T \cup {x}) = h[x] + SumFunctionOnSet(h, T)
          /\ SumFunctionOnSet(h, T) \in Int /\ h[x] \in Int
        BY <2>1, SumWith
    <2>4. SumFunctionOnSet(t, T \cup {x}) = t[x] + SumFunctionOnSet(t, T)
        BY <2>1, SumWith
    <2>5. T \cup {x} \in SUBSET S /\ t[x] = f[x] + h[x]
        OBVIOUS
    <2> QED BY <1>2, <2>2, <2>3, <2>4, <2>5
<1>3. \A T \in SUBSET S : T \in Good
    <2> HIDE DEF Good
    <2> QED BY <1>1, <1>2, AllParts
<1> QED BY <1>3

(* The sum of ones counts.                                                 *)
LEMMA SumOfOnes ==
    ASSUME NEW f, NEW S, IsFiniteSet(S), \A x \in S : f[x] \in Int,
           \A x \in S : f[x] = 1
    PROVE  SumFunctionOnSet(f, S) = Cardinality(S)
<1> DEFINE Good == {T \in SUBSET S : SumFunctionOnSet(f, T) = Cardinality(T)}
<1>1. {} \in Good
    BY SumOfNone, FS_EmptySet
<1>2. ASSUME NEW T \in SUBSET S, NEW x \in S \ T, T \in Good PROVE T \cup {x} \in Good
    <2>1. SumFunctionOnSet(f, T \cup {x}) = f[x] + SumFunctionOnSet(f, T)
        BY SumWith
    <2>2. IsFiniteSet(T) /\ Cardinality(T) \in Int
        BY FS_Subset, FS_CardinalityType
    <2>3. Cardinality(T \cup {x}) = Cardinality(T) + 1
        BY <2>2, FS_AddElement
    <2> QED BY <1>2, <2>1, <2>2, <2>3
<1>3. \A T \in SUBSET S : T \in Good
    <2> HIDE DEF Good
    <2> QED BY <1>1, <1>2, AllParts
<1> QED BY <1>3

LEMMA SumOfZeros ==
    ASSUME NEW f, NEW S, IsFiniteSet(S), \A x \in S : f[x] \in Int,
           \A x \in S : f[x] = 0
    PROVE  SumFunctionOnSet(f, S) = 0
<1> DEFINE Good == {T \in SUBSET S : SumFunctionOnSet(f, T) = 0}
<1>1. {} \in Good
    BY SumOfNone
<1>2. ASSUME NEW T \in SUBSET S, NEW x \in S \ T, T \in Good PROVE T \cup {x} \in Good
    BY <1>2, SumWith
<1>3. \A T \in SUBSET S : T \in Good
    <2> HIDE DEF Good
    <2> QED BY <1>1, <1>2, AllParts
<1> QED BY <1>3

(* The sum over two sets that have no element in common.                   *)
LEMMA SumOfBoth ==
    ASSUME NEW f, NEW S, IsFiniteSet(S), \A x \in S : f[x] \in Int,
           NEW T, IsFiniteSet(T), \A x \in T : f[x] \in Int, S \cap T = {}
    PROVE  SumFunctionOnSet(f, S \cup T) = SumFunctionOnSet(f, S) + SumFunctionOnSet(f, T)
<1> DEFINE Good == {U \in SUBSET T : SumFunctionOnSet(f, S \cup U)
                                       = SumFunctionOnSet(f, S) + SumFunctionOnSet(f, U)}
<1>1. SumFunctionOnSet(f, S) \in Int
    BY SumOfMore
<1>2. {} \in Good
    <2>1. S \cup {} = S /\ SumFunctionOnSet(f, {}) = 0
        BY SumOfNone
    <2> QED BY <1>1, <2>1
<1>3. ASSUME NEW U \in SUBSET T, NEW x \in T \ U, U \in Good PROVE U \cup {x} \in Good
    <2>1. SumFunctionOnSet(f, U \cup {x}) = f[x] + SumFunctionOnSet(f, U)
          /\ SumFunctionOnSet(f, U) \in Int /\ f[x] \in Int
        BY SumWith
    <2>2. /\ IsFiniteSet(S \cup T) /\ (\A y \in S \cup T : f[y] \in Int)
          /\ S \cup U \in SUBSET (S \cup T)
          /\ x \in (S \cup T) \ (S \cup U)
        BY FS_Union
    <2> DEFINE All == S \cup T
               Some == S \cup U
    <2> HIDE DEF All, Some
    <2>3. SumFunctionOnSet(f, Some \cup {x}) = f[x] + SumFunctionOnSet(f, Some)
        <3>1. /\ IsFiniteSet(All) /\ (\A y \in All : f[y] \in Int)
              /\ Some \in SUBSET All /\ x \in All \ Some
            BY <2>2 DEF All, Some
        <3> QED BY <3>1, SumWith
    <2>4. Some \cup {x} = S \cup (U \cup {x}) /\ U \cup {x} \in SUBSET T
        BY DEF Some
    <2>5. SumFunctionOnSet(f, Some) = SumFunctionOnSet(f, S) + SumFunctionOnSet(f, U)
        BY <1>3 DEF Some
    <2>6. SumFunctionOnSet(f, S \cup (U \cup {x}))
            = SumFunctionOnSet(f, S) + SumFunctionOnSet(f, U \cup {x})
        <3> HIDE DEF Good
        <3>1. SumFunctionOnSet(f, Some \cup {x})
                = SumFunctionOnSet(f, S) + (f[x] + SumFunctionOnSet(f, U))
            BY <1>1, <2>1, <2>3, <2>5
        <3>2. SumFunctionOnSet(f, S \cup (U \cup {x}))
                = SumFunctionOnSet(f, S) + (f[x] + SumFunctionOnSet(f, U))
            BY <2>4, <3>1, Zenon
        <3> QED BY <2>1, <3>2
    <2> QED BY <2>4, <2>6
<1>4. \A U \in SUBSET T : U \in Good
    <2> HIDE DEF Good
    <2> QED BY <1>2, <1>3, AllParts
<1> QED BY <1>4

(* Summed under other names.                                               *)
LEMMA SumRenamed ==
    ASSUME NEW S, IsFiniteSet(S), NEW f, \A x \in S : f[x] \in Int,
           NEW T, NEW h, NEW name \in [S -> T],
           \A x, y \in S : name[x] = name[y] => x = y,
           \A y \in T : \E x \in S : name[x] = y,
           \A x \in S : f[x] = h[name[x]]
    PROVE  SumFunctionOnSet(f, S) = SumFunctionOnSet(h, T)
<1> DEFINE Named(U) == {name[x] : x \in U}
           Good == {U \in SUBSET S : SumFunctionOnSet(f, U) = SumFunctionOnSet(h, Named(U))}
<1>1. Named(S) = T
    OBVIOUS
<1>2. IsFiniteSet(T)
    <2>1. name \in Surjection(S, T)
        BY DEF Surjection
    <2> QED BY <2>1, FS_Surjection
<1>3. {} \in Good
    <2>1. Named({}) = {}
        OBVIOUS
    <2>2. SumFunctionOnSet(f, {}) = 0 /\ SumFunctionOnSet(h, {}) = 0
        BY SumOfNone
    <2> HIDE DEF Named
    <2> QED BY <2>1, <2>2
<1>4. ASSUME NEW U \in SUBSET S, NEW x \in S \ U, U \in Good PROVE U \cup {x} \in Good
    <2>1. SumFunctionOnSet(f, U \cup {x}) = f[x] + SumFunctionOnSet(f, U)
        BY SumWith
    <2>2. Named(U) \in SUBSET T /\ name[x] \in T \ Named(U)
        OBVIOUS
    <2>3. Named(U \cup {x}) = Named(U) \cup {name[x]}
        OBVIOUS
    <2>4. SumFunctionOnSet(h, Named(U) \cup {name[x]})
            = h[name[x]] + SumFunctionOnSet(h, Named(U))
        <3> HIDE DEF Named
        <3> QED BY <1>2, <2>2, SumWith
    <2>5. SumFunctionOnSet(f, U) = SumFunctionOnSet(h, Named(U)) /\ f[x] = h[name[x]]
        BY <1>4
    <2>6. SumFunctionOnSet(f, U \cup {x}) = SumFunctionOnSet(h, Named(U \cup {x}))
        <3> HIDE DEF Named
        <3> QED BY <2>1, <2>3, <2>4, <2>5
    <2> QED BY <2>6
<1>5. \A U \in SUBSET S : U \in Good
    <2> HIDE DEF Good
    <2> QED BY <1>3, <1>4, AllParts
<1>6. SumFunctionOnSet(f, S) = SumFunctionOnSet(h, Named(S))
    BY <1>5
<1> HIDE DEF Named
<1> QED BY <1>1, <1>6

(* Summed by groups.                                                       *)
LEMMA SumGrouped ==
    ASSUME NEW S, IsFiniteSet(S), NEW f, \A x \in S : f[x] \in Int,
           NEW K, IsFiniteSet(K), NEW h, NEW part \in [K -> SUBSET S],
           \A k, l \in K : part[k] \cap part[l] # {} => k = l,
           \A x \in S : \E k \in K : x \in part[k],
           \A k \in K : h[k] = SumFunctionOnSet(f, part[k])
    PROVE  SumFunctionOnSet(h, K) = SumFunctionOnSet(f, S)
<1> DEFINE In(L) == UNION {part[k] : k \in L}
           Good == {L \in SUBSET K : SumFunctionOnSet(h, L) = SumFunctionOnSet(f, In(L))}
<1>1. In(K) = S /\ \A k \in K : h[k] \in Int
    <2>1. ASSUME NEW k \in K PROVE h[k] \in Int
        <3>1. IsFiniteSet(part[k]) /\ (\A x \in part[k] : f[x] \in Int)
              /\ h[k] = SumFunctionOnSet(f, part[k])
            BY FS_Subset
        <3> QED BY <3>1, SumOfMore
    <2> QED BY <2>1
<1>2. {} \in Good
    <2>1. In({}) = {}
        OBVIOUS
    <2>2. SumFunctionOnSet(f, {}) = 0 /\ SumFunctionOnSet(h, {}) = 0
        BY SumOfNone
    <2> HIDE DEF In
    <2> QED BY <2>1, <2>2
<1>3. ASSUME NEW L \in SUBSET K, NEW k \in K \ L, L \in Good PROVE L \cup {k} \in Good
    <2>1. SumFunctionOnSet(h, L \cup {k}) = h[k] + SumFunctionOnSet(h, L)
        BY <1>1, SumWith
    <2>2. In(L \cup {k}) = In(L) \cup part[k]
        OBVIOUS
    <2>3. In(L) \cap part[k] = {} /\ In(L) \in SUBSET S /\ part[k] \in SUBSET S
        OBVIOUS
    <2>4. /\ SumFunctionOnSet(f, In(L) \cup part[k])
               = SumFunctionOnSet(f, In(L)) + SumFunctionOnSet(f, part[k])
          /\ SumFunctionOnSet(f, In(L)) \in Int /\ SumFunctionOnSet(f, part[k]) \in Int
        <3> HIDE DEF In
        <3>1. IsFiniteSet(In(L)) /\ IsFiniteSet(part[k])
            BY <2>3, FS_Subset
        <3> QED BY <2>3, <3>1, SumOfBoth, SumOfMore
    <2>5. SumFunctionOnSet(h, L) = SumFunctionOnSet(f, In(L))
        BY <1>3
    <2>6. SumFunctionOnSet(h, L \cup {k}) = SumFunctionOnSet(f, In(L \cup {k}))
        <3> HIDE DEF In
        <3>1. h[k] = SumFunctionOnSet(f, part[k])
            OBVIOUS
        <3>2. SumFunctionOnSet(h, L \cup {k})
                = SumFunctionOnSet(f, part[k]) + SumFunctionOnSet(f, In(L))
            BY <2>1, <2>5, <3>1
        <3>3. SumFunctionOnSet(f, In(L \cup {k}))
                = SumFunctionOnSet(f, In(L)) + SumFunctionOnSet(f, part[k])
            BY <2>2, <2>4
        <3> HIDE DEF Good
        <3> QED BY <2>4, <3>2, <3>3
    <2> QED BY <2>6
<1>4. \A L \in SUBSET K : L \in Good
    <2> HIDE DEF Good
    <2> QED BY <1>2, <1>3, AllParts
<1>5. SumFunctionOnSet(h, K) = SumFunctionOnSet(f, In(K))
    BY <1>4
<1> HIDE DEF In
<1> QED BY <1>1, <1>5

(* Counted by groups.                                                      *)
LEMMA CountGrouped ==
    ASSUME NEW S, IsFiniteSet(S), NEW K, IsFiniteSet(K), NEW h,
           NEW part \in [K -> SUBSET S],
           \A k, l \in K : part[k] \cap part[l] # {} => k = l,
           \A x \in S : \E k \in K : x \in part[k],
           \A k \in K : h[k] = Cardinality(part[k])
    PROVE  SumFunctionOnSet(h, K) = Cardinality(S)
<1> DEFINE one == [x \in S |-> 1]
<1>1. one \in [S -> Int] /\ \A x \in S : one[x] = 1
    OBVIOUS
<1> HIDE DEF one
<1>2. SumFunctionOnSet(one, S) = Cardinality(S)
    BY <1>1, SumOfOnes
<1>3. ASSUME NEW k \in K PROVE h[k] = SumFunctionOnSet(one, part[k])
    <2>1. part[k] \in SUBSET S /\ IsFiniteSet(part[k])
        BY FS_Subset
    <2> QED BY <1>1, <2>1, SumOfOnes
<1>4. SumFunctionOnSet(h, K) = SumFunctionOnSet(one, S)
    BY <1>1, <1>3, SumGrouped
<1> QED BY <1>2, <1>4

-----------------------------------------------------------------------------
USE AbsentAssumption

LEMMA TypesInit == BackInit => TypeOK
<1> SUFFICES ASSUME BackInit PROVE TypeOK
    OBVIOUS
<1>1. \A sheet \in DOMAIN sheets : sheets[sheet] = << >>
    BY DEF BackInit
<1>2. \A S : << >> \in Seq(S)
    OBVIOUS
<1> QED BY <1>1, <1>2 DEF BackInit, TypeOK

LEMMA TypesStep == TypeOK /\ [BackNext]_backVars => TypeOK'
<1> SUFFICES ASSUME TypeOK, [BackNext]_backVars PROVE TypeOK'
    OBVIOUS
<1>1. ASSUME NEW sheet \in DOMAIN sheets, NEW row \in Sheets[agent][sheet], AddRow(sheet, row)
      PROVE  TypeOK'
    <2>1. sheets[sheet] \in Seq(Sheets[agent][sheet])
        BY DEF TypeOK
    <2>2. Append(sheets[sheet], row) \in Seq(Sheets[agent][sheet])
        BY <2>1
    <2> QED BY <1>1, <2>2 DEF TypeOK, AddRow
<1> QED BY <1>1 DEF BackNext, TypeOK, backVars

(* However the sheets of whichever agent grow, they are sequences of its   *)
(* rows, and the policy is one of its own and stays.                       *)
THEOREM TypeCorrect == BackSpec => []TypeOK
<1> QED BY TypesInit, TypesStep, PTL DEF BackSpec

-----------------------------------------------------------------------------
(* ar_collections: what is chased stays so under a policy as strict and    *)
(* with more rows below, since a customer's overdue invoices only grow.    *)
Stricter(p, q) ==
    /\ p.min_days_overdue <= q.min_days_overdue
    /\ p.min_amount \in {None, q.min_amount}
    /\ q.flag_repeat_customers =>
          /\ p.flag_repeat_customers
          /\ p.repeat_customer_min_overdue_invoices <= q.repeat_customer_min_overdue_invoices

OverdueOf(rows, customer) ==
    {i \in DOMAIN rows : rows[i].customer = customer /\ AsOf - rows[i].due_date >= 1}

Prolongs(more, rows) ==
    DOMAIN rows \subseteq DOMAIN more /\ \A i \in DOMAIN rows : more[i] = rows[i]

LEMMA SameCount == \A S : AR!Cardinality(S) = Cardinality(S)
BY DEF AR!Cardinality, Cardinality

LEMMA ChasedStays ==
    ASSUME NEW rows \in Seq(Sheets["ar_collections"]["invoices"]),
           NEW more \in Seq(Sheets["ar_collections"]["invoices"]), Prolongs(more, rows),
           NEW p \in Policies["ar_collections"], NEW q \in Policies["ar_collections"],
           Stricter(p, q), NEW i \in DOMAIN rows, AR!compute_aging(rows, AsOf, q)[i].flagged
    PROVE  AR!compute_aging(more, AsOf, p)[i].flagged
<1> DEFINE inv == rows[i]
           late == AsOf - inv.due_date
           few == Cardinality(OverdueOf(rows, inv.customer))
           many == Cardinality(OverdueOf(more, inv.customer))
<1>1. /\ more[i] = inv /\ i \in DOMAIN more
      /\ late \in Int /\ inv.amount \in Int
    BY SheetsAssumption DEF Prolongs
<1>2. few \in Nat /\ many \in Nat /\ few <= many
    <2>1. IsFiniteSet(DOMAIN more)
        <3>1. \A S : \A s \in Seq(S) : DOMAIN s = 1 .. Len(s) /\ Len(s) \in Int
            OBVIOUS
        <3>2. DOMAIN more = 1 .. Len(more) /\ Len(more) \in Int
            BY <3>1
        <3>3. IsFiniteSet(1 .. Len(more))
            BY <3>2, FS_Interval
        <3> QED BY <3>2, <3>3
    <2>2. OverdueOf(rows, inv.customer) \subseteq OverdueOf(more, inv.customer)
        BY DEF OverdueOf, Prolongs
    <2>3. OverdueOf(more, inv.customer) \subseteq DOMAIN more
        BY DEF OverdueOf
    <2>4. IsFiniteSet(OverdueOf(more, inv.customer))
        BY <2>1, <2>3, FS_Subset
    <2> QED BY <2>2, <2>4, FS_Subset, FS_CardinalityType
<1>3. AR!compute_aging(rows, AsOf, q)[i].flagged = (AR!flag_reasons(inv, late, few, q) # {})
    BY SameCount DEF AR!compute_aging, AR!InvoiceAging, OverdueOf
<1>4. AR!compute_aging(more, AsOf, p)[i].flagged = (AR!flag_reasons(inv, late, many, p) # {})
    BY <1>1, SameCount DEF AR!compute_aging, AR!InvoiceAging, OverdueOf
<1>5. /\ {p.min_days_overdue, p.repeat_customer_min_overdue_invoices} \subseteq Int
      /\ {q.min_days_overdue, q.repeat_customer_min_overdue_invoices} \subseteq Int
    BY PoliciesAssumption
<1> HIDE DEF inv, late, few, many
<1>6. AR!flag_reasons(inv, late, few, q) # {}
    BY <1>3
<1>7. ~(p.min_amount # None /\ AR!Abs(inv.amount) < p.min_amount)
    BY <1>6 DEF AR!flag_reasons, Stricter
<1>8. PICK reason \in {"age", "repeat"} : reason \in AR!flag_reasons(inv, late, few, q)
    BY <1>6 DEF AR!flag_reasons
<1>9. reason \in AR!flag_reasons(inv, late, many, p)
    BY <1>1, <1>2, <1>5, <1>7, <1>8 DEF AR!flag_reasons, Stricter
<1> QED BY <1>4, <1>9

-----------------------------------------------------------------------------
(* controls_sox: what an entry is accused of under the laxer policy.       *)
LEMMA AccusedStays ==
    ASSUME NEW entry, entry.amount \in Int, NEW p, NEW q,
           {p.dual_approval_threshold, q.dual_approval_threshold} \subseteq Int,
           p.dual_approval_threshold <= q.dual_approval_threshold,
           q.require_distinct_approvers => p.require_distinct_approvers
    PROVE  Sox!violations(entry, q) \subseteq Sox!violations(entry, p)
<1>1. Sox!dual_required(entry, q) => Sox!dual_required(entry, p)
    BY DEF Sox!dual_required, Sox!Abs
<1> QED BY <1>1 DEF Sox!violations

(* expense: what a receipt is accused of under the laxer policy.           *)
LEMMA ReceiptStays ==
    ASSUME NEW receipt \in Sheets["expense"]["receipts"],
           NEW p \in Policies["expense"], NEW q \in Policies["expense"],
           DOMAIN p.category_limits = DOMAIN q.category_limits,
           \A c \in DOMAIN p.category_limits : p.category_limits[c] <= q.category_limits[c],
           q.default_limit # None =>
              p.default_limit # None /\ p.default_limit <= q.default_limit,
           q.max_receipt_age_days # None =>
              /\ p.max_receipt_age_days # None
              /\ p.max_receipt_age_days <= q.max_receipt_age_days,
           q.required_fields \subseteq p.required_fields
    PROVE  Expense!violations(receipt, q, AsOf) \subseteq Expense!violations(receipt, p, AsOf)
<1> DEFINE day == Expense!parse_receipt_date(receipt.date)
           low == Expense!limit_for_category(receipt, p)
           high == Expense!limit_for_category(receipt, q)
<1>1. receipt.amount \in Int /\ receipt.date \in Int \cup {Blank, Unreadable}
    BY SheetsAssumption
<1>2. day \in Int \cup {None}
    BY <1>1 DEF Expense!parse_receipt_date
<1>3. /\ \A c \in DOMAIN p.category_limits : p.category_limits[c] \in Int
      /\ \A c \in DOMAIN q.category_limits : q.category_limits[c] \in Int
      /\ {p.default_limit, p.max_receipt_age_days} \subseteq Int \cup {None}
      /\ {q.default_limit, q.max_receipt_age_days} \subseteq Int \cup {None}
    BY PoliciesAssumption
<1>4. high # None => low # None /\ low \in Int /\ high \in Int /\ low <= high
    BY <1>3 DEF Expense!limit_for_category
<1>5. Expense!missing_required_fields(receipt, q.required_fields)
        \subseteq Expense!missing_required_fields(receipt, p.required_fields)
    BY DEF Expense!missing_required_fields
<1> HIDE DEF day, low, high
<1>6. day # None /\ q.max_receipt_age_days # None
        /\ AsOf - day > q.max_receipt_age_days
        => /\ p.max_receipt_age_days # None
           /\ AsOf - day > p.max_receipt_age_days
    BY <1>2, <1>3
<1>7. high # None /\ receipt.amount > high => low # None /\ receipt.amount > low
    BY <1>1, <1>4
<1> QED BY <1>5, <1>6, <1>7 DEF Expense!violations, day, low, high

-----------------------------------------------------------------------------
(* Rounding: the quotient is a whole number; if it is below a bound, so is *)
(* what was divided.                                                       *)
LEMMA Division ==
    ASSUME NEW n \in Nat, NEW d \in Nat \ {0}
    PROVE  /\ n \div d \in Nat
           /\ d * (n \div d) <= n
           /\ n < d * (n \div d) + d
OBVIOUS

LEMMA RoundedIsWhole ==
    ASSUME NEW n \in Int, NEW d \in Int \ {0}
    PROVE  RoundHalfUp(n, d) \in Int
<1>1. 2 * Abs(n) + Abs(d) \in Nat /\ 2 * Abs(d) \in Nat \ {0}
    BY DEF Abs
<1>2. (2 * Abs(n) + Abs(d)) \div (2 * Abs(d)) \in Nat
    BY <1>1, Division
<1> QED BY <1>2 DEF RoundHalfUp

LEMMA RoundedBelow ==
    ASSUME NEW n \in Int, NEW d \in Int \ {0}, NEW bound \in Int,
           Abs(RoundHalfUp(n, d)) < bound
    PROVE  2 * Abs(n) < (2 * bound - 1) * Abs(d)
<1> DEFINE top == 2 * Abs(n) + Abs(d)
           below == 2 * Abs(d)
           magnitude == top \div below
<1>1. top \in Nat /\ below \in Nat \ {0}
    BY DEF Abs
<1>2. magnitude \in Nat /\ top < below * magnitude + below
    BY <1>1, Division
<1>3. Abs(RoundHalfUp(n, d)) = magnitude
    BY <1>2 DEF RoundHalfUp, Abs
<1>4. magnitude + 1 <= bound
    BY <1>2, <1>3
<1>5. below * magnitude + below <= below * bound
    <2>1. \A a \in Nat, b, c \in Int : b <= c => a * b <= a * c
        OBVIOUS
    <2>2. below * (magnitude + 1) <= below * bound
        BY <1>1, <1>2, <1>4, <2>1
    <2>3. below * (magnitude + 1) = below * magnitude + below
        BY <1>1, <1>2
    <2> QED BY <2>2, <2>3
<1>6. top < below * bound
    <2>1. below * magnitude \in Int /\ below * bound \in Int
        BY <1>1, <1>2
    <2> QED BY <1>1, <1>2, <1>5, <2>1
<1>7. (2 * bound - 1) * Abs(d) = below * bound - Abs(d)
    BY DEF Abs
<1>8. Abs(n) \in Int /\ Abs(d) \in Int /\ below * bound \in Int
    BY <1>1 DEF Abs
<1> QED BY <1>6, <1>7, <1>8

-----------------------------------------------------------------------------
(* max(): there is one, whatever the rows are.                             *)
LEMMA Highest ==
    ASSUME NEW n \in Nat \ {0}, NEW f \in [1 .. n -> Int]
    PROVE  \E m \in 1 .. n : \A j \in 1 .. n : f[j] <= f[m]
<1> DEFINE Tops(k) == {m \in 1 .. k : \A j \in 1 .. k : f[j] <= f[m]}
           Bad == {k \in 1 .. n : Tops(k) = {}}
<1>1. SUFFICES ASSUME Bad # {} PROVE FALSE
    <2>1. n \in 1 .. n
        OBVIOUS
    <2> QED BY <1>1, <2>1
<1>2. PICK k \in Bad : \A j \in Bad : ~(<<j, k>> \in Less)
    <2>1. Bad \in SUBSET Nat
        OBVIOUS
    <2> HIDE DEF Bad
    <2> QED BY <1>1, <2>1, LessWellFounded, WFMin
<1>3. k \in 1 .. n /\ Tops(k) = {}
    OBVIOUS
<1>4. k # 1
    <2>1. k = 1 => 1 \in Tops(k)
        BY <1>3
    <2> QED BY <1>3, <2>1
<1>5. k - 1 \in 1 .. n /\ k - 1 \notin Bad
    <2>1. k - 1 \in 1 .. n /\ k - 1 < k /\ k \in Nat
        BY <1>3, <1>4
    <2>2. <<k - 1, k>> \in Less
        BY <2>1 DEF Less
    <2> HIDE DEF Bad
    <2> QED BY <1>2, <2>1, <2>2
<1>6. PICK m \in 1 .. k - 1 : \A j \in 1 .. k - 1 : f[j] <= f[m]
    BY <1>5
<1>7. f[k] \in Int /\ \A j \in 1 .. k : j = k \/ j \in 1 .. k - 1
    BY <1>3
<1>8. CASE f[k] <= f[m]
    <2>1. m \in Tops(k)
        BY <1>3, <1>6, <1>7, <1>8
    <2> QED BY <1>3, <2>1
<1>9. CASE ~(f[k] <= f[m])
    <2>1. \A j \in 1 .. k : f[j] <= f[k]
        BY <1>3, <1>6, <1>7, <1>9
    <2>2. k \in Tops(k)
        BY <1>3, <2>1
    <2> QED BY <1>3, <2>2
<1> QED BY <1>8, <1>9

-----------------------------------------------------------------------------
(* close: amounts are numbers, those of a line that is not there too.      *)
LEMMA CloseDecimals ==
    /\ \A n : Close!Abs(n) = Abs(n)
    /\ \A n, d : Close!RoundHalfUp(n, d) = RoundHalfUp(n, d)
    /\ Close!PctScale = PctScale
BY DEF Close!Abs, Abs, Close!RoundHalfUp, RoundHalfUp, Close!PctScale, PctScale

LEMMA AmountIsWhole ==
    ASSUME NEW S, \A line \in S : line.amount \in Int, NEW rows \in Seq(S), NEW key
    PROVE  Close!AmountOf(rows, key) \in Int
<1> DEFINE T == {i \in DOMAIN rows : rows[i].key = key}
           f == [i \in 1 .. Len(rows) |-> IF i \in T THEN i ELSE 0]
<1>1. DOMAIN rows = 1 .. Len(rows) /\ Len(rows) \in Nat
    OBVIOUS
<1>2. CASE key \in Close!Keys(rows)
    <2>1. PICK i \in DOMAIN rows : rows[i].key = key
        BY <1>2 DEF Close!Keys
    <2>2. i \in T /\ Len(rows) \in Nat \ {0} /\ f \in [1 .. Len(rows) -> Int]
        BY <1>1, <2>1
    <2>3. PICK m \in 1 .. Len(rows) : \A j \in 1 .. Len(rows) : f[j] <= f[m]
        <3> HIDE DEF f
        <3> QED BY <2>2, Highest
    <2>4. m \in T
        <3>1. f[i] = i /\ f[i] <= f[m] /\ i > 0
            BY <1>1, <2>1, <2>3
        <3>2. m \notin T => f[m] = 0
            OBVIOUS
        <3> QED BY <1>1, <2>1, <3>1, <3>2
    <2>5. \A j \in T : m >= j
        BY <1>1, <2>3, <2>4
    <2>6. Close!Max(T) \in T
        <3> HIDE DEF T
        <3> QED BY <2>4, <2>5 DEF Close!Max
    <2>7. Close!RowOf(rows, key) \in DOMAIN rows
        BY <2>6 DEF Close!RowOf
    <2> QED BY <1>2, <2>7 DEF Close!AmountOf
<1>3. CASE key \notin Close!Keys(rows)
    BY <1>3 DEF Close!AmountOf
<1> QED BY <1>2, <1>3

(* The share a line is off by is a number or, with nothing budgeted, none. *)
LEMMA ShareIsWhole ==
    ASSUME NEW budget \in Int, NEW variance \in Int
    PROVE  (IF budget = 0 THEN None
            ELSE Close!RoundHalfUp(variance * Close!PctScale, budget)) \in Int \cup {None}
<1>1. variance * PctScale \in Int
    BY DEF PctScale
<1> QED BY <1>1, RoundedIsWhole, CloseDecimals

LEMMA VarianceReasonsStay ==
    ASSUME NEW p \in Policies["close"], NEW q \in Policies["close"],
           q.combine = "any" => p.combine = "any",
           q.pct # None => p.pct # None /\ p.pct <= q.pct,
           q.amount # None => p.amount # None /\ p.amount <= q.amount,
           q.flag_unbudgeted => p.flag_unbudgeted,
           q.flag_missing_actual => p.flag_missing_actual,
           NEW actual, NEW variance \in Int, NEW share \in Int \cup {None}, NEW presence,
           Close!flag_reasons(actual, variance, share, presence, q) # {}
    PROVE  Close!flag_reasons(actual, variance, share, presence, p) # {}
<1> DEFINE Pct(thresholds) == /\ thresholds.pct # None
                              /\ share # None
                              /\ Close!Abs(share) >= thresholds.pct
           Amount(thresholds) == /\ thresholds.amount # None
                                 /\ Close!Abs(variance) >= thresholds.amount
           Numeric(thresholds) == (IF Pct(thresholds) THEN {"pct"} ELSE {})
                                  \cup (IF Amount(thresholds) THEN {"amount"} ELSE {})
           Breached(thresholds) ==
              thresholds.combine = "all" => Numeric(thresholds) = {"pct", "amount"}
<1>1. /\ {p.pct, p.amount, q.pct, q.amount} \subseteq Int \cup {None}
      /\ p.combine \in {"any", "all"} /\ q.combine \in {"any", "all"}
    BY PoliciesAssumption
<1>2. (Pct(q) => Pct(p)) /\ (Amount(q) => Amount(p))
    BY <1>1 DEF Close!Abs
<1>3. ASSUME NEW thresholds
      PROVE  Close!flag_reasons(actual, variance, share, presence, thresholds)
               = {reason \in Numeric(thresholds) : Breached(thresholds)}
                 \cup {reason \in {"unbudgeted"} : /\ thresholds.flag_unbudgeted
                                                   /\ presence = "actual_only"
                                                   /\ actual # 0}
                 \cup {reason \in {"missing_actual"} : /\ thresholds.flag_missing_actual
                                                       /\ presence = "budget_only"}
    BY DEF Close!flag_reasons
<1> HIDE DEF Pct, Amount
<1>4. Numeric(q) \subseteq Numeric(p) /\ Numeric(p) \subseteq {"pct", "amount"}
    BY <1>2
<1>5. Numeric(q) # {} /\ Breached(q) => Breached(p)
    BY <1>1, <1>4
<1> HIDE DEF Numeric, Breached
<1> QED BY <1>3, <1>4, <1>5

LEMMA VarianceStays ==
    ASSUME NEW budget \in Seq(Sheets["close"]["budget"]),
           NEW actuals \in Seq(Sheets["close"]["actuals"]),
           NEW p \in Policies["close"], NEW q \in Policies["close"],
           q.combine = "any" => p.combine = "any",
           q.pct # None => p.pct # None /\ p.pct <= q.pct,
           q.amount # None => p.amount # None /\ p.amount <= q.amount,
           q.flag_unbudgeted => p.flag_unbudgeted,
           q.flag_missing_actual => p.flag_missing_actual,
           NEW key, Close!LineVariance(budget, actuals, key, q).flagged
    PROVE  Close!LineVariance(budget, actuals, key, p).flagged
<1> PICK planned : planned = Close!AmountOf(budget, key)
    OBVIOUS
<1> PICK actual : actual = Close!AmountOf(actuals, key)
    OBVIOUS
<1> PICK share : share = IF planned = 0 THEN None
                         ELSE Close!RoundHalfUp((actual - planned) * Close!PctScale, planned)
    OBVIOUS
<1> PICK presence : presence = Close!Presence(budget, actuals, key)
    OBVIOUS
<1>1. planned \in Int /\ actual \in Int
    <2>1. /\ \A line \in Sheets["close"]["budget"] : line.amount \in Int
          /\ \A line \in Sheets["close"]["actuals"] : line.amount \in Int
        BY SheetsAssumption
    <2> QED BY <2>1, AmountIsWhole
<1>2. share \in Int \cup {None} /\ actual - planned \in Int
    BY <1>1, ShareIsWhole
<1>3. ASSUME NEW thresholds
      PROVE  Close!LineVariance(budget, actuals, key, thresholds).flagged
               = (Close!flag_reasons(actual, actual - planned, share, presence, thresholds) # {})
    BY DEF Close!LineVariance
<1>4. Close!flag_reasons(actual, actual - planned, share, presence, q) # {}
    BY <1>3
<1>5. Close!flag_reasons(actual, actual - planned, share, presence, p) # {}
    BY <1>2, <1>4, VarianceReasonsStay
<1> QED BY <1>3, <1>5

-----------------------------------------------------------------------------
(* fpa: a line that is flagged under the laxer policy.                     *)
LEMMA ProjectionStays ==
    ASSUME NEW p \in Policies["fpa"], NEW q \in Policies["fpa"],
           p.max_pop_change_pct <= q.max_pop_change_pct,
           q.flag_negative => p.flag_negative,
           p.category_growth = q.category_growth, p.default_growth = q.default_growth,
           NEW rows, NEW key, NEW k, NEW newest,
           Fpa!ProjectedLine(rows, key, k, newest, q).flagged
    PROVE  Fpa!ProjectedLine(rows, key, k, newest, p).flagged
<1> PICK base : base = rows[Fpa!BaseRow(rows, key)]
    OBVIOUS
<1> PICK rate : rate = Fpa!Rate(Fpa!Category(rows, key), q)
    OBVIOUS
<1> PICK projected : projected = Fpa!RoundHalfUp(base.amount * Fpa!Power(Fpa!RateScale + rate, k),
                                                 Fpa!Power(Fpa!RateScale, k))
    OBVIOUS
<1> DEFINE stale == base.period # newest
<1>1. /\ p.max_pop_change_pct \in Int /\ q.max_pop_change_pct \in Int
      /\ q.default_growth \in Int
      /\ \A c \in DOMAIN q.category_growth : q.category_growth[c] \in Int
    BY PoliciesAssumption
<1>2. rate \in Int
    BY <1>1 DEF Fpa!Rate
<1>3. rate = Fpa!Rate(Fpa!Category(rows, key), p)
    BY DEF Fpa!Rate
<1>4. Fpa!ProjectedLine(rows, key, k, newest, q).flagged
        = (Fpa!flag_reasons(rate, projected, stale, q) # {})
    BY DEF Fpa!ProjectedLine
<1>5. Fpa!ProjectedLine(rows, key, k, newest, p).flagged
        = (Fpa!flag_reasons(rate, projected, stale, p) # {})
    BY <1>3 DEF Fpa!ProjectedLine
<1> HIDE DEF stale
<1>6. Fpa!flag_reasons(rate, projected, stale, q)
        \subseteq Fpa!flag_reasons(rate, projected, stale, p)
    BY <1>1, <1>2 DEF Fpa!flag_reasons, Fpa!Abs
<1> QED BY <1>4, <1>5, <1>6

-----------------------------------------------------------------------------
(* One agent at a time.                                                    *)
LEMMA StricterAging ==
    ASSUME TypeOK, agent = "ar_collections", NEW other \in Policies[agent],
           AtLeastAsStrict(other, policy)
    PROVE  FlaggedItems(policy) \subseteq FlaggedItems(other)
<1>1. Stricter(other, policy)
    BY DEF AtLeastAsStrict, Stricter
<1>2. /\ sheets.invoices \in Seq(Sheets["ar_collections"]["invoices"])
      /\ policy \in Policies["ar_collections"]
      /\ Prolongs(sheets.invoices, sheets.invoices)
    BY SheetsAssumption DEF TypeOK, Prolongs
<1>3. ASSUME NEW p
      PROVE  FlaggedItems(p) = {i \in DOMAIN sheets.invoices :
                                  AR!compute_aging(sheets.invoices, AsOf, p)[i].flagged}
    <2>1. FlaggedItems(p) = {i \in DOMAIN Agings(p, sheets) : Agings(p, sheets)[i].flagged}
        BY DEF FlaggedItems
    <2>2. DOMAIN Agings(p, sheets) = DOMAIN sheets.invoices
        BY DEF Agings, AR!compute_aging
    <2> QED BY <2>1, <2>2 DEF Agings
<1>4. \A i \in DOMAIN sheets.invoices :
          AR!compute_aging(sheets.invoices, AsOf, policy)[i].flagged
            => AR!compute_aging(sheets.invoices, AsOf, other)[i].flagged
    BY <1>1, <1>2, ChasedStays
<1> QED BY <1>3, <1>4

LEMMA StricterControls ==
    ASSUME TypeOK, agent = "controls_sox", NEW other \in Policies[agent],
           AtLeastAsStrict(other, policy)
    PROVE  FlaggedItems(policy) \subseteq FlaggedItems(other)
<1>1. /\ sheets.entries \in Seq(Sheets["controls_sox"]["entries"])
      /\ policy \in Policies["controls_sox"] /\ other \in Policies["controls_sox"]
    BY SheetsAssumption DEF TypeOK
<1>2. {other.dual_approval_threshold, policy.dual_approval_threshold} \subseteq Int
    BY <1>1, PoliciesAssumption
<1>3. /\ other.dual_approval_threshold <= policy.dual_approval_threshold
      /\ policy.require_distinct_approvers => other.require_distinct_approvers
    BY DEF AtLeastAsStrict
<1>4. \A i \in DOMAIN sheets.entries : sheets.entries[i].amount \in Int
    BY <1>1, SheetsAssumption
<1>5. \A i \in DOMAIN sheets.entries :
          Sox!violations(sheets.entries[i], policy)
            \subseteq Sox!violations(sheets.entries[i], other)
    BY <1>2, <1>3, <1>4, AccusedStays
<1>6. ASSUME NEW p
      PROVE  FlaggedItems(p) = {i \in DOMAIN sheets.entries :
                                  Sox!violations(sheets.entries[i], p) # {}}
    <2>1. FlaggedItems(p) = {i \in DOMAIN Tests(p, sheets) : ~Tests(p, sheets)[i].passed}
        BY DEF FlaggedItems
    <2>2. /\ DOMAIN Tests(p, sheets) = DOMAIN sheets.entries
          /\ \A i \in DOMAIN sheets.entries :
                Tests(p, sheets)[i].passed = (Sox!violations(sheets.entries[i], p) = {})
        BY DEF Tests, Sox!check_segregation_of_duties, Sox!ControlTestResult
    <2> QED BY <2>1, <2>2
<1> QED BY <1>5, <1>6

LEMMA StricterReceipts ==
    ASSUME TypeOK, agent = "expense", NEW other \in Policies[agent],
           AtLeastAsStrict(other, policy)
    PROVE  FlaggedItems(policy) \subseteq FlaggedItems(other)
<1>1. /\ sheets.receipts \in Seq(Sheets["expense"]["receipts"])
      /\ policy \in Policies["expense"] /\ other \in Policies["expense"]
    BY SheetsAssumption DEF TypeOK
<1>2. \A i \in DOMAIN sheets.receipts :
          Expense!violations(sheets.receipts[i], policy, AsOf)
            \subseteq Expense!violations(sheets.receipts[i], other, AsOf)
    BY <1>1, ReceiptStays DEF AtLeastAsStrict
<1>3. ASSUME NEW p
      PROVE  FlaggedItems(p) = {i \in DOMAIN sheets.receipts :
                                  Expense!violations(sheets.receipts[i], p, AsOf) # {}}
    BY DEF FlaggedItems, Check, Expense!check_compliance
<1> QED BY <1>2, <1>3

LEMMA StricterVariances ==
    ASSUME TypeOK, agent = "close", NEW other \in Policies[agent],
           AtLeastAsStrict(other, policy)
    PROVE  FlaggedItems(policy) \subseteq FlaggedItems(other)
<1>1. /\ sheets.budget \in Seq(Sheets["close"]["budget"])
      /\ sheets.actuals \in Seq(Sheets["close"]["actuals"])
      /\ policy \in Policies["close"] /\ other \in Policies["close"]
    BY SheetsAssumption DEF TypeOK
<1> DEFINE Line(key, p) == Close!LineVariance(sheets.budget, sheets.actuals, key, p)
           All == Close!Keys(sheets.budget) \cup Close!Keys(sheets.actuals)
<1>2. \A key : Line(key, policy).flagged => Line(key, other).flagged
    BY <1>1, VarianceStays DEF AtLeastAsStrict
<1>3. ASSUME NEW p
      PROVE  FlaggedItems(p) = {key \in All : Line(key, p).flagged}
    <2>1. FlaggedItems(p) = {lv.key : lv \in {l \in Variances(p, sheets) : l.flagged}}
        BY DEF FlaggedItems
    <2>2. Variances(p, sheets) = {Line(key, p) : key \in All}
        BY DEF Variances, Close!compute_variances
    <2>3. \A key : Line(key, p).key = key
        BY DEF Close!LineVariance
    <2> HIDE DEF Line, All
    <2> QED BY <2>1, <2>2, <2>3
<1> HIDE DEF Line, All
<1> QED BY <1>2, <1>3

LEMMA StricterProjection ==
    ASSUME TypeOK, agent = "fpa", NEW other \in Policies[agent],
           AtLeastAsStrict(other, policy)
    PROVE  FlaggedItems(policy) \subseteq FlaggedItems(other)
<1>1. policy \in Policies["fpa"] /\ other \in Policies["fpa"]
    BY DEF TypeOK
<1>2. /\ other.max_pop_change_pct <= policy.max_pop_change_pct
      /\ policy.flag_negative => other.flag_negative
      /\ other.horizon = policy.horizon
      /\ other.category_growth = policy.category_growth
      /\ other.default_growth = policy.default_growth
    BY DEF AtLeastAsStrict
<1> PICK newest : newest = Fpa!Max(Fpa!Periods(sheets.history))
    OBVIOUS
<1> DEFINE Line(key, k, p) == Fpa!ProjectedLine(sheets.history, key, k, newest, p)
           Cells == Fpa!Keys(sheets.history) \X (1 .. policy.horizon)
<1>3. \A key, k : Line(key, k, policy).flagged => Line(key, k, other).flagged
    BY <1>1, <1>2, ProjectionStays
<1>4. \A key, k, p : Line(key, k, p).key = key /\ Line(key, k, p).period = newest + k
    BY DEF Fpa!ProjectedLine
<1>5. Fpa!Refused(sheets.history, other) = Fpa!Refused(sheets.history, policy)
    BY <1>2 DEF Fpa!Refused
<1>6. CASE Fpa!Refused(sheets.history, policy)
    BY <1>6 DEF FlaggedItems
<1>7. CASE ~Fpa!Refused(sheets.history, policy)
    <2>1. ASSUME NEW p, p.horizon = policy.horizon, ~Fpa!Refused(sheets.history, p)
          PROVE  Projection(p, sheets) = {Line(cell[1], cell[2], p) : cell \in Cells}
        <3>1. Projection(p, sheets)
                = {Line(key, k, p) : key \in Fpa!Keys(sheets.history), k \in 1 .. policy.horizon}
            BY <2>1 DEF Projection, Fpa!project_forecast
        <3>2. \A cell \in Cells : cell[1] \in Fpa!Keys(sheets.history)
                                  /\ cell[2] \in 1 .. policy.horizon
            OBVIOUS
        <3>3. \A key \in Fpa!Keys(sheets.history), k \in 1 .. policy.horizon :
                  /\ <<key, k>> \in Cells
                  /\ Line(<<key, k>>[1], <<key, k>>[2], p) = Line(key, k, p)
            OBVIOUS
        <3> HIDE DEF Line, Cells
        <3>4. \A pl \in Projection(p, sheets) : \E cell \in Cells : pl = Line(cell[1], cell[2], p)
            <4> SUFFICES ASSUME NEW key \in Fpa!Keys(sheets.history), NEW k \in 1 .. policy.horizon
                         PROVE  \E cell \in Cells : Line(key, k, p) = Line(cell[1], cell[2], p)
                BY <3>1
            <4> QED BY <3>3
        <3>5. \A cell \in Cells : Line(cell[1], cell[2], p) \in Projection(p, sheets)
            BY <3>1, <3>2
        <3> QED BY <3>4, <3>5
    <2>2. ASSUME NEW p, p.horizon = policy.horizon, ~Fpa!Refused(sheets.history, p)
          PROVE  FlaggedItems(p) = {<<cell[1], newest + cell[2]>> :
                                        cell \in {c \in Cells : Line(c[1], c[2], p).flagged}}
        <3>1. FlaggedItems(p) = {<<pl.key, pl.period>> :
                                    pl \in {l \in Projection(p, sheets) : l.flagged}}
            BY <2>2 DEF FlaggedItems
        <3> HIDE DEF Line, Cells
        <3> QED BY <1>4, <2>1, <2>2, <3>1
    <2>3. /\ ~Fpa!Refused(sheets.history, other)
          /\ other.horizon = policy.horizon
        BY <1>2, <1>5, <1>7
    <2> HIDE DEF Line, Cells
    <2> QED BY <1>3, <1>7, <2>2, <2>3
<1> QED BY <1>6, <1>7

(* A finance team that tightens a policy (a lower threshold, limit or age, *)
(* a rule more) and runs it on the same sheets is told of everything it    *)
(* was told of before: _flag_reasons() and _evaluate() of the five agents  *)
(* that flag are monotone in their policies, rounding included.            *)
THEOREM StricterFlagsMore == BackSpec => []StricterPolicyFlagsMore
<1>1. TypeOK => StricterPolicyFlagsMore
    <2> SUFFICES ASSUME TypeOK, NEW other \in Policies[agent], AtLeastAsStrict(other, policy)
                 PROVE  FlaggedItems(policy) \subseteq FlaggedItems(other)
        BY DEF StricterPolicyFlagsMore
    <2>1. agent \in {"ar_collections", "close", "controls_sox", "expense", "fpa"}
        BY DEF AtLeastAsStrict
    <2> QED BY <2>1, StricterAging, StricterVariances, StricterControls, StricterReceipts,
               StricterProjection
<1> QED BY <1>1, TypeCorrect, PTL

-----------------------------------------------------------------------------
(* What passes: a journal entry.                                           *)
LEMMA SoxCount == \A S : Sox!Cardinality(S) = Cardinality(S)
BY DEF Sox!Cardinality, Cardinality

LEMMA CountOfTwo ==
    ASSUME NEW a, NEW b
    PROVE  /\ Cardinality({a}) = 1
           /\ a # b => Cardinality({a, b}) = 2
           /\ Cardinality({a, b}) >= 1
<1>1. \A x : IsFiniteSet({x}) /\ Cardinality({x}) = 1
    BY FS_Singleton
<1>2. a # b => Cardinality({a, b}) = 2
    <2>1. {b} \cup {a} = {a, b}
        OBVIOUS
    <2>2. ASSUME a # b PROVE Cardinality({b} \cup {a}) = Cardinality({b}) + 1
        <3>1. a \notin {b} /\ IsFiniteSet({b})
            BY <1>1, <2>2
        <3> QED BY <3>1, FS_AddElement
    <2>3. a # b => Cardinality({b} \cup {a}) = 2
        <3>1. Cardinality({b}) = 1
            BY <1>1
        <3> QED BY <2>2, <3>1
    <2> QED BY <2>1, <2>3, Zenon
<1>3. a = b => Cardinality({a, b}) = 1
    <2>1. a = b => {a, b} = {a}
        OBVIOUS
    <2>2. Cardinality({a}) = 1
        BY <1>1
    <2> QED BY <2>1, <2>2
<1>4. Cardinality({a}) = 1
    BY <1>1
<1>5. Cardinality({a, b}) \in {1, 2}
    BY <1>2, <1>3
<1>6. Cardinality({a, b}) >= 1
    <2> DEFINE c == Cardinality({a, b})
    <2>1. c \in {1, 2}
        BY <1>5
    <2> HIDE DEF c
    <2>2. c >= 1
        BY <2>1
    <2> QED BY <2>2 DEF c
<1> QED BY <1>2, <1>4, <1>6

LEMMA PassedEntry ==
    ASSUME NEW entry, NEW p, Sox!violations(entry, p) = {}
    PROVE  LET n1 == Sox!normalize(entry.approver_1)
               n2 == Sox!normalize(entry.approver_2)
           IN  /\ n1 # None \/ n2 # None
               /\ \A n \in {n1, n2} \ {None} : n # Sox!normalize(entry.preparer)
               /\ p.require_distinct_approvers /\ n1 # None => n1 # n2
               /\ Sox!dual_required(entry, p) => n1 # None /\ n2 # None
<1> PICK n1 : n1 = Sox!normalize(entry.approver_1)
    OBVIOUS
<1> PICK n2 : n2 = Sox!normalize(entry.approver_2)
    OBVIOUS
<1> PICK pn : pn = Sox!normalize(entry.preparer)
    OBVIOUS
<1> DEFINE named == {slot \in {1, 2} : (IF slot = 1 THEN n1 ELSE n2) # None}
           self_slots == {slot \in named : (IF slot = 1 THEN n1 ELSE n2) = pn}
<1>1. /\ named # {}
      /\ self_slots = {}
      /\ ~(p.require_distinct_approvers /\ named = {1, 2} /\ n1 = n2)
      /\ ~(Sox!dual_required(entry, p) /\ Cardinality(named) = 1)
    BY SoxCount DEF Sox!violations, Sox!VIOLATION_CODES
<1>2. n1 # None \/ n2 # None
    BY <1>1
<1>3. \A n \in {n1, n2} \ {None} : n # pn
    BY <1>1
<1>4. p.require_distinct_approvers /\ n1 # None => n1 # n2
    BY <1>1
<1>5. named \in {{1}, {2}} => Cardinality(named) = 1
    BY CountOfTwo
<1>6. Sox!dual_required(entry, p) => n1 # None /\ n2 # None
    BY <1>1, <1>5
<1> QED BY <1>2, <1>3, <1>4, <1>6

LEMMA EntriesPass == TypeOK => EntriesInOrder
<1> SUFFICES ASSUME TypeOK, agent = "controls_sox", NEW i \in DOMAIN sheets.entries,
                    Tests(policy, sheets)[i].passed
             PROVE  EntryInOrder(sheets.entries[i])
    BY DEF EntriesInOrder, Is
<1> PICK entry : entry = sheets.entries[i]
    OBVIOUS
<1>1. sheets.entries \in Seq(Sheets["controls_sox"]["entries"])
    BY SheetsAssumption DEF TypeOK
<1>2. \A name \in {entry.preparer, entry.approver_1, entry.approver_2} :
          name = None \/ name.who # None
    BY <1>1, SheetsAssumption
<1>3. Sox!violations(entry, policy) = {}
    BY DEF Tests, Sox!check_segregation_of_duties, Sox!ControlTestResult
<1> PICK n1 : n1 = Sox!normalize(entry.approver_1)
    OBVIOUS
<1> PICK n2 : n2 = Sox!normalize(entry.approver_2)
    OBVIOUS
<1>4. /\ n1 # None \/ n2 # None
      /\ \A n \in {n1, n2} \ {None} : n # Sox!normalize(entry.preparer)
      /\ policy.require_distinct_approvers /\ n1 # None => n1 # n2
      /\ Sox!dual_required(entry, policy) => n1 # None /\ n2 # None
    BY <1>3, PassedEntry
<1> DEFINE approvers == Who({entry.approver_1, entry.approver_2})
<1>5. approvers = {n1, n2} \ {None}
    <2>1. (entry.approver_1 = None) = (n1 = None) /\ (n1 # None => n1 = entry.approver_1.who)
        BY <1>2 DEF Sox!normalize
    <2>2. (entry.approver_2 = None) = (n2 = None) /\ (n2 # None => n2 = entry.approver_2.who)
        BY <1>2 DEF Sox!normalize
    <2> QED BY <2>1, <2>2 DEF Who
<1>6. Who({entry.preparer}) \subseteq {Sox!normalize(entry.preparer)}
    BY <1>2 DEF Who, Sox!normalize
<1>7. approvers \ Who({entry.preparer}) = approvers
    BY <1>4, <1>5, <1>6
<1>8. Cardinality(approvers) >= 1
    <2>1. approvers = {n1} \/ approvers = {n2} \/ approvers = {n1, n2}
        BY <1>4, <1>5
    <2>2. Cardinality({n1}) = 1 /\ Cardinality({n2}) = 1 /\ Cardinality({n1, n2}) >= 1
        BY CountOfTwo
    <2>3. 1 >= 1
        OBVIOUS
    <2> HIDE DEF approvers
    <2> QED BY <2>1, <2>2, <2>3, Zenon
<1>9. policy.require_distinct_approvers /\ Sox!dual_required(entry, policy)
        => Cardinality(approvers) >= 2
    <2> SUFFICES ASSUME policy.require_distinct_approvers, Sox!dual_required(entry, policy)
                 PROVE  Cardinality(approvers) >= 2
        OBVIOUS
    <2>1. n1 # n2 /\ approvers = {n1, n2}
        BY <1>4, <1>5
    <2>2. Cardinality({n1, n2}) = 2
        BY <2>1, CountOfTwo
    <2>3. 2 >= 2
        OBVIOUS
    <2> HIDE DEF approvers
    <2> QED BY <2>1, <2>2, <2>3, Zenon
<1>10. (Abs(entry.amount) >= policy.dual_approval_threshold) = Sox!dual_required(entry, policy)
    BY DEF Sox!dual_required, Sox!Abs, Abs
<1> HIDE DEF approvers
<1>11. Cardinality(approvers) >=
          IF /\ policy.require_distinct_approvers
             /\ Abs(entry.amount) >= policy.dual_approval_threshold
            THEN 2 ELSE 1
    BY <1>8, <1>9, <1>10
<1> QED BY <1>7, <1>11 DEF EntryInOrder, approvers

(* A receipt.                                                              *)
LEMMA ReceiptsPass == TypeOK => ReceiptsInOrder
<1> SUFFICES ASSUME TypeOK, agent = "expense", NEW i \in DOMAIN sheets.receipts,
                    Check(policy, sheets, i).passed
             PROVE  ReceiptInOrder(sheets.receipts[i])
    BY DEF ReceiptsInOrder, Is
<1> PICK receipt : receipt = sheets.receipts[i]
    OBVIOUS
<1>1. receipt \in Sheets["expense"]["receipts"] /\ policy \in Policies["expense"]
    BY SheetsAssumption DEF TypeOK
<1>2. receipt.amount \in Int /\ receipt.date \in Int \cup {Blank, Unreadable}
    BY <1>1, SheetsAssumption
<1>3. /\ \A c \in DOMAIN policy.category_limits : policy.category_limits[c] \in Int
      /\ {policy.default_limit, policy.max_receipt_age_days} \subseteq Int \cup {None}
    BY <1>1, PoliciesAssumption
<1>4. Expense!violations(receipt, policy, AsOf) = {}
    BY DEF Check, Expense!check_compliance
<1> DEFINE day == Expense!parse_receipt_date(receipt.date)
           limit == Expense!limit_for_category(receipt, policy)
<1>5. /\ Expense!missing_required_fields(receipt, policy.required_fields) = {}
      /\ ~(receipt.date # Blank /\ day = None)
      /\ ~(/\ day # None
           /\ policy.max_receipt_age_days # None
           /\ AsOf - day > policy.max_receipt_age_days)
      /\ ~(limit # None /\ receipt.amount > limit)
    <2> HIDE DEF day, limit
    <2>1. Expense!violations(receipt, policy, AsOf)
            = ({"missing_required_field"}
                  \X Expense!missing_required_fields(receipt, policy.required_fields))
              \cup {v \in {<<"date_unparseable", "date">>} : receipt.date # Blank /\ day = None}
              \cup {v \in {<<"receipt_too_old", "date">>} :
                      /\ day # None
                      /\ policy.max_receipt_age_days # None
                      /\ AsOf - day > policy.max_receipt_age_days}
              \cup {v \in {<<"category_over_limit", "amount">>} :
                      limit # None /\ receipt.amount > limit}
        BY DEF Expense!violations, day, limit
    <2>2. \A f : f \notin Expense!missing_required_fields(receipt, policy.required_fields)
        <3> SUFFICES ASSUME NEW f \in Expense!missing_required_fields(
                                         receipt, policy.required_fields)
                     PROVE  <<"missing_required_field", f>>
                              \in Expense!violations(receipt, policy, AsOf)
            BY <1>4
        <3> QED BY <2>1
    <2>3. ~(receipt.date # Blank /\ day = None)
        BY <1>4, <2>1
    <2>4. ~(/\ day # None
            /\ policy.max_receipt_age_days # None
            /\ AsOf - day > policy.max_receipt_age_days)
        BY <1>4, <2>1
    <2>5. ~(limit # None /\ receipt.amount > limit)
        BY <1>4, <2>1
    <2> QED BY <2>2, <2>3, <2>4, <2>5
<1>6. /\ \A f \in policy.required_fields \ {"amount"} : receipt[f] # Blank
      /\ "amount" \in policy.required_fields => receipt.amount > 0
    BY <1>2, <1>5 DEF Expense!missing_required_fields
<1>7. receipt.date # Unreadable
    BY <1>5 DEF Expense!parse_receipt_date
<1>8. policy.max_receipt_age_days # None /\ receipt.date # Blank =>
          AsOf <= receipt.date + policy.max_receipt_age_days
    BY <1>2, <1>3, <1>5, <1>7 DEF Expense!parse_receipt_date
<1>9. receipt.expense_category # Blank =>
          LET label == receipt.expense_category.label
              top == IF label \in DOMAIN policy.category_limits
                         THEN policy.category_limits[label] ELSE policy.default_limit
          IN  top # None => receipt.amount <= top
    BY <1>2, <1>3, <1>5 DEF Expense!limit_for_category
<1> QED BY <1>6, <1>7, <1>8, <1>9 DEF ReceiptInOrder

(* A line of the budget.                                                   *)
LEMMA LinesPass == TypeOK => LinesInOrder
<1> SUFFICES ASSUME TypeOK, agent = "close", policy.combine = "any",
                    NEW lv \in Variances(policy, sheets), ~lv.flagged
             PROVE  LineInOrder(lv)
    BY DEF LinesInOrder, Is
<1>1. /\ sheets.budget \in Seq(Sheets["close"]["budget"])
      /\ sheets.actuals \in Seq(Sheets["close"]["actuals"])
      /\ policy \in Policies["close"]
    BY SheetsAssumption DEF TypeOK
<1>2. {policy.pct, policy.amount} \subseteq Int \cup {None}
    BY <1>1, PoliciesAssumption
<1>3. PICK key : lv = Close!LineVariance(sheets.budget, sheets.actuals, key, policy)
    BY DEF Variances, Close!compute_variances
<1> PICK planned : planned = Close!AmountOf(sheets.budget, key)
    OBVIOUS
<1> PICK actual : actual = Close!AmountOf(sheets.actuals, key)
    OBVIOUS
<1> PICK variance : variance = actual - planned
    OBVIOUS
<1> PICK share : share = IF planned = 0 THEN None
                         ELSE Close!RoundHalfUp(variance * Close!PctScale, planned)
    OBVIOUS
<1> PICK presence : presence = Close!Presence(sheets.budget, sheets.actuals, key)
    OBVIOUS
<1>4. planned \in Int /\ actual \in Int
    <2>1. /\ \A line \in Sheets["close"]["budget"] : line.amount \in Int
          /\ \A line \in Sheets["close"]["actuals"] : line.amount \in Int
        BY SheetsAssumption
    <2> QED BY <1>1, <2>1, AmountIsWhole
<1>5. variance \in Int /\ share \in Int \cup {None}
    BY <1>4, ShareIsWhole
<1>6. /\ lv.variance = variance /\ lv.budget_amount = planned
      /\ lv.flagged = (Close!flag_reasons(actual, variance, share, presence, policy) # {})
    BY <1>3 DEF Close!LineVariance
<1>7. /\ ~(policy.pct # None /\ share # None /\ Close!Abs(share) >= policy.pct)
      /\ ~(policy.amount # None /\ Close!Abs(variance) >= policy.amount)
    BY <1>6 DEF Close!flag_reasons
<1>8. policy.amount # None => Abs(variance) < policy.amount
    BY <1>2, <1>5, <1>7, CloseDecimals DEF Abs
<1>9. ASSUME policy.pct # None, planned # 0
      PROVE  2 * PctScale * Abs(variance) < (2 * policy.pct - 1) * Abs(planned)
    <2>1. share = RoundHalfUp(variance * PctScale, planned)
        BY <1>9, CloseDecimals
    <2>2. variance * PctScale \in Int /\ planned \in Int \ {0} /\ policy.pct \in Int
        BY <1>2, <1>4, <1>5, <1>9 DEF PctScale
    <2>3. share \in Int
        BY <2>1, <2>2, RoundedIsWhole
    <2>4. Abs(RoundHalfUp(variance * PctScale, planned)) < policy.pct
        BY <1>7, <1>9, <2>1, <2>2, <2>3, CloseDecimals DEF Abs
    <2>5. 2 * Abs(variance * PctScale) < (2 * policy.pct - 1) * Abs(planned)
        BY <2>2, <2>4, RoundedBelow
    <2>6. Abs(variance * PctScale) = PctScale * Abs(variance)
        BY <1>5 DEF Abs, PctScale
    <2>7. 2 * (PctScale * Abs(variance)) = 2 * PctScale * Abs(variance)
        BY <1>5 DEF Abs, PctScale
    <2> QED BY <2>5, <2>6, <2>7
<1> QED BY <1>6, <1>8, <1>9 DEF LineInOrder

(* A line of the forecast.                                                 *)
LEMMA NewestIsHighest ==
    ASSUME NEW rows, DOMAIN rows = 1 .. Len(rows), Len(rows) \in Nat \ {0},
           \A i \in DOMAIN rows : rows[i].period \in Int, NEW i \in DOMAIN rows
    PROVE  rows[i].period <= Fpa!Max(Fpa!Periods(rows))
<1> DEFINE f == [j \in 1 .. Len(rows) |-> rows[j].period]
           P == Fpa!Periods(rows)
<1>1. f \in [1 .. Len(rows) -> Int]
    OBVIOUS
<1>2. PICK m \in 1 .. Len(rows) : \A j \in 1 .. Len(rows) : f[j] <= f[m]
    <2> HIDE DEF f
    <2> QED BY <1>1, Highest
<1>3. \A x \in P : f[m] >= x
    BY <1>1, <1>2 DEF Fpa!Periods
<1>4. f[m] \in P /\ rows[i].period \in P /\ P \subseteq Int
    BY DEF Fpa!Periods
<1> HIDE DEF P, f
<1>5. Fpa!Max(P) \in P /\ \A x \in P : Fpa!Max(P) >= x
    BY <1>3, <1>4 DEF Fpa!Max
<1> PICK top : top = Fpa!Max(P)
    OBVIOUS
<1>6. top \in Int /\ rows[i].period \in Int /\ top >= rows[i].period
    BY <1>4, <1>5
<1>7. rows[i].period <= top
    BY <1>6
<1> QED BY <1>7 DEF P

LEMMA ProjectionsPass == TypeOK => ProjectionsInOrder
<1> SUFFICES ASSUME TypeOK, agent = "fpa", Projection(policy, sheets) # ValueError,
                    NEW pl \in Projection(policy, sheets), ~pl.flagged,
                    NEW i \in DOMAIN sheets.history
             PROVE  sheets.history[i].period <= pl.base_period
    BY DEF ProjectionsInOrder, Is
<1> PICK newest : newest = Fpa!Max(Fpa!Periods(sheets.history))
    OBVIOUS
<1>1. ~Fpa!Refused(sheets.history, policy)
    BY DEF Projection, Fpa!project_forecast
<1>2. PICK key, k : pl = Fpa!ProjectedLine(sheets.history, key, k, newest, policy)
    <2>1. Projection(policy, sheets)
            = {Fpa!ProjectedLine(sheets.history, key, k, newest, policy) :
                  key \in Fpa!Keys(sheets.history), k \in 1 .. policy.horizon}
        BY <1>1 DEF Projection, Fpa!project_forecast
    <2> QED BY <2>1
<1>3. pl.base_period = newest
    <2>1. ASSUME NEW rate, NEW projected, NEW stale,
                 Fpa!flag_reasons(rate, projected, stale, policy) = {}
          PROVE  ~stale
        BY <2>1 DEF Fpa!flag_reasons
    <2>2. PICK base : base = sheets.history[Fpa!BaseRow(sheets.history, key)]
        OBVIOUS
    <2>3. PICK rate, projected :
              pl.flagged = (Fpa!flag_reasons(rate, projected, base.period # newest, policy) # {})
        BY <1>2, <2>2 DEF Fpa!ProjectedLine
    <2>4. ~(base.period # newest)
        BY <2>1, <2>3
    <2> QED BY <1>2, <2>2, <2>4 DEF Fpa!ProjectedLine
<1>4. sheets.history \in Seq(Sheets["fpa"]["history"])
    BY SheetsAssumption DEF TypeOK
<1>5. /\ \A j \in DOMAIN sheets.history : sheets.history[j].period \in Int
      /\ DOMAIN sheets.history = 1 .. Len(sheets.history)
      /\ Len(sheets.history) \in Nat \ {0}
    <2>1. \A j \in DOMAIN sheets.history : sheets.history[j].period \in Int \cup {Unreadable}
        BY <1>4, SheetsAssumption
    <2>2. \A j \in DOMAIN sheets.history : sheets.history[j].period # Unreadable
        BY <1>1 DEF Fpa!Refused, Fpa!Periods
    <2> QED BY <1>4, <2>1, <2>2
<1>6. sheets.history[i].period <= newest
    BY <1>5, NewestIsHighest
<1> QED BY <1>3, <1>6

(* What the rules let pass is in order, for sheets of any length: names    *)
(* are compared as people (_normalize()), an amount or date that could not *)
(* be read is never taken for one that is fine, and rounding a variance    *)
(* before it is compared hides none above the threshold.                   *)
THEOREM WhatPassesIsInOrder == BackSpec => []PassedIsInOrder
<1>1. TypeOK => PassedIsInOrder
    BY EntriesPass, ReceiptsPass, LinesPass, ProjectionsPass DEF PassedIsInOrder
<1> QED BY <1>1, TypeCorrect, PTL

-----------------------------------------------------------------------------
(* A new row.                                                              *)
LEMMA SheetsGrow ==
    ASSUME TypeOK, [BackNext]_backVars, NEW sheet \in DOMAIN sheets
    PROVE  /\ agent' = agent /\ policy' = policy
           /\ DOMAIN sheets[sheet] \subseteq DOMAIN sheets'[sheet]
           /\ \A i \in DOMAIN sheets[sheet] : sheets'[sheet][i] = sheets[sheet][i]
<1>1. ASSUME NEW grown \in DOMAIN sheets, NEW row, AddRow(grown, row)
      PROVE  /\ agent' = agent /\ policy' = policy
             /\ DOMAIN sheets[sheet] \subseteq DOMAIN sheets'[sheet]
             /\ \A i \in DOMAIN sheets[sheet] : sheets'[sheet][i] = sheets[sheet][i]
    <2>1. sheets[sheet] \in Seq(Sheets[agent][sheet])
        BY DEF TypeOK
    <2>2. sheets'[sheet] \in {sheets[sheet], Append(sheets[sheet], row)}
        BY <1>1 DEF AddRow
    <2>3. /\ DOMAIN sheets[sheet] \subseteq DOMAIN Append(sheets[sheet], row)
          /\ \A i \in DOMAIN sheets[sheet] : Append(sheets[sheet], row)[i] = sheets[sheet][i]
        BY <2>1
    <2> QED BY <1>1, <2>2, <2>3 DEF AddRow
<1> QED BY <1>1 DEF BackNext, backVars

LEMMA ChasedOnlyGrow ==
    ASSUME TypeOK, TypeOK', [BackNext]_backVars, agent = "ar_collections"
    PROVE  FlaggedItems(policy) \subseteq FlaggedItems(policy)'
<1>1. "invoices" \in DOMAIN sheets
    BY SheetsAssumption DEF TypeOK
<1>2. agent' = agent /\ policy' = policy
    BY <1>1, SheetsGrow
<1> PICK rows, more, p : rows = sheets.invoices /\ more = sheets'.invoices /\ p = policy
    OBVIOUS
<1>3. Prolongs(more, rows)
    BY <1>1, SheetsGrow DEF Prolongs
<1>4. /\ rows \in Seq(Sheets["ar_collections"]["invoices"])
      /\ more \in Seq(Sheets["ar_collections"]["invoices"])
      /\ p \in Policies["ar_collections"]
    BY <1>2, SheetsAssumption DEF TypeOK
<1>5. Stricter(p, p)
    BY <1>4, PoliciesAssumption DEF Stricter
<1>6. \A i \in DOMAIN rows : AR!compute_aging(rows, AsOf, p)[i].flagged
                                => AR!compute_aging(more, AsOf, p)[i].flagged
    BY <1>3, <1>4, <1>5, ChasedStays
<1>7. \A book : DOMAIN AR!compute_aging(book, AsOf, p) = DOMAIN book
    BY DEF AR!compute_aging
<1>8. FlaggedItems(policy) = {i \in DOMAIN rows : AR!compute_aging(rows, AsOf, p)[i].flagged}
    <2>1. FlaggedItems(policy) = {i \in DOMAIN Agings(policy, sheets) :
                                    Agings(policy, sheets)[i].flagged}
        BY DEF FlaggedItems
    <2> QED BY <1>7, <2>1 DEF Agings
<1>9. FlaggedItems(policy)' = {i \in DOMAIN more : AR!compute_aging(more, AsOf, p)[i].flagged}
    <2>1. FlaggedItems(policy)' = {i \in DOMAIN Agings(policy, sheets)' :
                                    Agings(policy, sheets)'[i].flagged}
        BY <1>2 DEF FlaggedItems
    <2> QED BY <1>2, <1>7, <2>1 DEF Agings
<1> QED BY <1>3, <1>6, <1>8, <1>9 DEF Prolongs

LEMMA AccusedOnlyGrow ==
    ASSUME TypeOK, TypeOK', [BackNext]_backVars, agent = "controls_sox"
    PROVE  FlaggedItems(policy) \subseteq FlaggedItems(policy)'
<1>1. "entries" \in DOMAIN sheets
    BY SheetsAssumption DEF TypeOK
<1>2. agent' = agent /\ policy' = policy
    BY <1>1, SheetsGrow
<1> PICK rows, more, p : rows = sheets.entries /\ more = sheets'.entries /\ p = policy
    OBVIOUS
<1>3. DOMAIN rows \subseteq DOMAIN more /\ \A i \in DOMAIN rows : more[i] = rows[i]
    BY <1>1, SheetsGrow
<1>4. \A book : /\ DOMAIN Sox!check_segregation_of_duties(book, p) = DOMAIN book
                /\ \A i \in DOMAIN book :
                      Sox!check_segregation_of_duties(book, p)[i]
                        = Sox!ControlTestResult(book[i], p)
    BY DEF Sox!check_segregation_of_duties
<1>5. FlaggedItems(policy) = {i \in DOMAIN rows : ~Sox!ControlTestResult(rows[i], p).passed}
    <2>1. FlaggedItems(policy) = {i \in DOMAIN Tests(policy, sheets) :
                                    ~Tests(policy, sheets)[i].passed}
        BY DEF FlaggedItems
    <2> QED BY <1>4, <2>1 DEF Tests
<1>6. FlaggedItems(policy)' = {i \in DOMAIN more : ~Sox!ControlTestResult(more[i], p).passed}
    <2>1. FlaggedItems(policy)' = {i \in DOMAIN Tests(policy, sheets)' :
                                    ~Tests(policy, sheets)'[i].passed}
        BY <1>2 DEF FlaggedItems
    <2> QED BY <1>2, <1>4, <2>1 DEF Tests
<1> QED BY <1>3, <1>5, <1>6

LEMMA AnomaliesOnlyGrow ==
    ASSUME TypeOK, TypeOK', [BackNext]_backVars, agent = "tax_compliance"
    PROVE  Standing \subseteq Standing'
<1>1. "transactions" \in DOMAIN sheets
    BY SheetsAssumption DEF TypeOK
<1>2. agent' = agent /\ policy' = policy
    BY <1>1, SheetsGrow
<1> PICK rows, more, p : rows = sheets.transactions /\ more = sheets'.transactions /\ p = policy
    OBVIOUS
<1>3. DOMAIN rows \subseteq DOMAIN more /\ \A i \in DOMAIN rows : more[i] = rows[i]
    BY <1>1, SheetsGrow
<1> DEFINE Of(book, i) == {i} \X Tax!anomalies(Tax!ComputedTransaction(book[i]), p)
<1>4. ASSUME NEW book
      PROVE  {a \in Tax!compute_provision(book, p).anomalies : a[1] # None}
               = {a \in UNION {Of(book, i) : i \in DOMAIN book} : a[1] # None}
    <2> DEFINE computed == [i \in DOMAIN book |-> Tax!ComputedTransaction(book[i])]
               net == Tax!VatTotal(computed, "output") - Tax!VatTotal(computed, "input")
               Period == {a \in {<<None, "net_refundable_position">>} :
                            p.flag_refundable /\ net < 0}
               All == UNION {{i} \X Tax!anomalies(computed[i], p) : i \in DOMAIN computed}
    <2>1. Tax!compute_provision(book, p).anomalies = All \cup Period
        BY Zenon DEF Tax!compute_provision
    <2>2. DOMAIN computed = DOMAIN book
          /\ \A i \in DOMAIN book : computed[i] = Tax!ComputedTransaction(book[i])
        OBVIOUS
    <2>3. \A a \in Period : a[1] = None
        OBVIOUS
    <2> HIDE DEF computed, Period
    <2>4. \A i \in DOMAIN book : {i} \X Tax!anomalies(computed[i], p) = Of(book, i)
        BY <2>2
    <2> HIDE DEF Of
    <2>5. All = UNION {Of(book, i) : i \in DOMAIN book}
        BY <2>2, <2>4
    <2> HIDE DEF All
    <2> QED BY <2>1, <2>3, <2>5
<1>5. Standing = {a \in UNION {Of(rows, i) : i \in DOMAIN rows} : a[1] # None}
    BY <1>4 DEF Standing, Provision
<1>6. Standing' = {a \in UNION {Of(more, i) : i \in DOMAIN more} : a[1] # None}
    BY <1>2, <1>4 DEF Standing, Provision
<1>7. \A i \in DOMAIN rows : Of(rows, i) = Of(more, i)
    BY <1>3
<1> HIDE DEF Of
<1> QED BY <1>3, <1>5, <1>6, <1>7

LEMMA FlagsStand ==
    ASSUME TypeOK, TypeOK', [BackNext]_backVars
    PROVE  Standing \subseteq Standing'
<1>1. agent' = agent
    BY DEF BackNext, AddRow, backVars
<1>2. CASE agent = "tax_compliance"
    BY <1>2, AnomaliesOnlyGrow
<1>3. CASE agent \in {"ar_collections", "controls_sox"}
    BY <1>1, <1>3, ChasedOnlyGrow, AccusedOnlyGrow DEF Standing
<1>4. CASE agent \notin {"tax_compliance", "ar_collections", "controls_sox"}
    BY <1>4 DEF Standing
<1> QED BY <1>2, <1>3, <1>4

-----------------------------------------------------------------------------
(* A function that is defined from its value one before: there is one.     *)
StepsIn(step, n, X) == step \in [1 .. n -> [X -> X]]

Follows(g, step, n, X, start) ==
    g \in [0 .. n -> X] /\ g[0] = start /\ \A k \in 1 .. n : g[k] = step[k][g[k - 1]]

LEMMA Unfolds ==
    ASSUME NEW n \in Nat, NEW X, NEW start \in X, NEW step, StepsIn(step, n, X)
    PROVE  \E g : Follows(g, step, n, X, start)
<1> USE DEF StepsIn, Follows
<1> DEFINE Upto(k) == {g \in [0 .. n -> X] :
                          g[0] = start /\ \A j \in 1 .. k : g[j] = step[j][g[j - 1]]}
           Good == {k \in 0 .. n : Upto(k) # {}}
<1>1. 0 \in Good
    <2>1. [k \in 0 .. n |-> start] \in Upto(0)
        OBVIOUS
    <2>2. 0 \in 0 .. n
        OBVIOUS
    <2> HIDE DEF Upto
    <2> QED BY <2>1, <2>2
<1>2. ASSUME NEW k \in 1 .. n, k - 1 \in Good PROVE k \in Good
    <2>1. PICK g : g \in Upto(k - 1)
        BY <1>2
    <2> DEFINE h == [g EXCEPT ![k] = step[k][g[k - 1]]]
    <2>2. /\ k - 1 \in 0 .. n /\ k \in 0 .. n /\ 0 \in 0 .. n /\ k # 0 /\ k - 1 # k
          /\ g \in [0 .. n -> X] /\ g[k - 1] \in X /\ step[k][g[k - 1]] \in X
        <3>1. k - 1 \in 0 .. n /\ k \in 0 .. n /\ 0 \in 0 .. n /\ k # 0 /\ k - 1 # k
            OBVIOUS
        <3>2. g \in [0 .. n -> X] /\ g[k - 1] \in X
            BY <2>1, <3>1
        <3>3. step[k] \in [X -> X]
            OBVIOUS
        <3> HIDE DEF Upto, Good
        <3> QED BY <3>1, <3>2, <3>3
    <2>3. h \in [0 .. n -> X]
        BY <2>1, <2>2
    <2>4. h[0] = start /\ h[k] = step[k][h[k - 1]]
        BY <2>1, <2>2
    <2>5. ASSUME NEW j \in 1 .. k PROVE h[j] = step[j][h[j - 1]]
        <3>1. CASE j = k
            BY <2>4, <3>1
        <3>2. CASE j # k
            <4>1. j \in 1 .. k - 1 /\ j - 1 \in 0 .. n /\ j - 1 # k /\ j \in 0 .. n
                BY <3>2
            <4>2. h[j] = g[j] /\ h[j - 1] = g[j - 1]
                BY <2>1, <3>2, <4>1
            <4> QED BY <2>1, <4>1, <4>2
        <3> QED BY <3>1, <3>2
    <2>6. h \in Upto(k)
        BY <2>3, <2>4, <2>5
    <2> QED BY <2>2, <2>6
<1>3. n \in Good
    <2>1. n \in 0 .. n
        OBVIOUS
    <2>2. \A k \in 1 .. n : k - 1 \in Good => k \in Good
        BY <1>2
    <2> HIDE DEF Good
    <2>3. \A k \in 0 .. n : k \in Good
        BY <1>1, <2>2, AllReached
    <2> QED BY <2>1, <2>3
<1>4. PICK g : g \in Upto(n)
    BY <1>3
<1> QED BY <1>4

(* A whole number for each of some places: one of them is the lowest.      *)
LEMMA LowestOf ==
    ASSUME NEW n \in Nat, NEW T \in SUBSET (1 .. n), T # {}, NEW f \in [T -> Int]
    PROVE  \E m \in T : \A j \in T : f[m] <= f[j]
<1> DEFINE Below(k) == {m \in T : m <= k}
           Lows(k) == {m \in Below(k) : \A j \in Below(k) : f[m] <= f[j]}
           Good == {k \in 0 .. n : Below(k) = {} \/ Lows(k) # {}}
<1>1. 0 \in Good
    OBVIOUS
<1>2. ASSUME NEW k \in 1 .. n, k - 1 \in Good PROVE k \in Good
    <2>1. k - 1 \in 0 .. n /\ k \in 0 .. n
        OBVIOUS
    <2>2. \A j \in Below(k) : j \in Below(k - 1) \/ j = k
        OBVIOUS
    <2>3. Below(k - 1) \subseteq Below(k) /\ Below(k) \subseteq T
        <3>1. \A m \in T : m \in Int /\ (m <= k - 1 => m <= k)
            OBVIOUS
        <3> QED BY <3>1
    <2>4. k \in Below(k) => k \in T
        OBVIOUS
    <2>5. CASE k \notin Below(k)
        <3>1. Below(k) = Below(k - 1)
            BY <2>2, <2>3, <2>5
        <3> QED BY <1>2, <2>1, <3>1
    <2>6. CASE k \in Below(k) /\ Below(k - 1) = {}
        <3>1. k \in Lows(k)
            BY <2>2, <2>4, <2>6
        <3> QED BY <2>1, <3>1
    <2>7. CASE k \in Below(k) /\ Below(k - 1) # {}
        <3>1. PICK m \in Below(k - 1) : \A j \in Below(k - 1) : f[m] <= f[j]
            BY <1>2, <2>7
        <3>2. f[m] \in Int /\ f[k] \in Int /\ \A j \in Below(k) : f[j] \in Int
            BY <2>3, <2>4, <2>7
        <3>3. CASE f[m] <= f[k]
            <4>1. m \in Lows(k)
                BY <2>2, <2>3, <3>1, <3>3
            <4> QED BY <2>1, <4>1
        <3>4. CASE ~(f[m] <= f[k])
            <4> HIDE DEF Below
            <4>1. \A j \in Below(k) : f[k] <= f[j]
                BY <2>2, <2>3, <3>1, <3>2, <3>4
            <4>2. k \in Lows(k)
                BY <2>7, <4>1
            <4> QED BY <2>1, <4>2
        <3> QED BY <3>3, <3>4
    <2> QED BY <2>5, <2>6, <2>7
<1>3. n \in Good
    <2>1. n \in 0 .. n
        OBVIOUS
    <2>2. \A k \in 1 .. n : k - 1 \in Good => k \in Good
        BY <1>2
    <2> HIDE DEF Good
    <2>3. \A k \in 0 .. n : k \in Good
        BY <1>1, <2>2, AllReached
    <2> QED BY <2>1, <2>3
<1>4. Below(n) = T
    <2>1. \A m \in T : m <= n
        OBVIOUS
    <2> QED BY <2>1
<1> QED BY <1>3, <1>4

LEMMA FirstIsOneOf ==
    ASSUME NEW n \in Nat, NEW T \in SUBSET (1 .. n), T # {}
    PROVE  Recon!Min(T) \in T
<1> DEFINE f == [j \in T |-> j]
<1>1. f \in [T -> Int]
    <2>1. \A j \in T : j \in Int
        OBVIOUS
    <2> QED BY <2>1
<1>2. PICK m \in T : \A j \in T : f[m] <= f[j]
    <2> HIDE DEF f
    <2> QED BY <1>1, LowestOf
<1>3. \A j \in T : m <= j
    BY <1>2
<1> QED BY <1>3 DEF Recon!Min

-----------------------------------------------------------------------------
(* reconciliation: a pass of match_transactions() after some bank lines.   *)
Lines(rows) ==
    /\ Len(rows) \in Nat /\ DOMAIN rows = 1 .. Len(rows)
    /\ \A i \in DOMAIN rows : rows[i].date \in Int

PairsOf(bank, ledger) ==
    [bank : 1 .. Len(bank), ledger : 1 .. Len(ledger),
     match_type : {"exact", "tolerance"}, date_delta_days : Int]

Has(matched, side, i) == \E pair \in matched : pair[side] = i

OnceEach(matched) ==
    \A p, q \in matched : p.bank = q.bank \/ p.ledger = q.ledger => p = q

IsExact(bank, ledger, pair) ==
    /\ pair.match_type = "exact" /\ pair.date_delta_days = 0
    /\ ledger[pair.ledger] = bank[pair.bank] /\ bank[pair.bank].reference # None

Days(bank, ledger, b, l) == Abs(bank[b].date - ledger[l].date)

Near(bank, ledger, days, b, l) ==
    ledger[l].amount = bank[b].amount /\ Days(bank, ledger, b, l) <= days

IsNear(bank, ledger, days, pair) ==
    /\ pair.match_type = "tolerance" /\ Near(bank, ledger, days, pair.bank, pair.ledger)
    /\ pair.date_delta_days = Days(bank, ledger, pair.bank, pair.ledger)

ExactUpTo(bank, ledger, matched, n) ==
    /\ matched \in SUBSET PairsOf(bank, ledger) /\ OnceEach(matched)
    /\ \A pair \in matched : IsExact(bank, ledger, pair) /\ pair.bank <= n
    /\ \A b \in 1 .. n : bank[b].reference # None /\ ~Has(matched, "bank", b) =>
          \A l \in DOMAIN ledger : ledger[l] = bank[b] => Has(matched, "ledger", l)

NearUpTo(bank, ledger, days, exact, matched, n) ==
    /\ matched \in SUBSET PairsOf(bank, ledger) /\ OnceEach(matched)
    /\ exact \subseteq matched
    /\ \A pair \in matched \ exact : IsNear(bank, ledger, days, pair)
    /\ \A b \in 1 .. n : ~Has(matched, "bank", b) =>
          \A l \in DOMAIN ledger : Near(bank, ledger, days, b, l) => Has(matched, "ledger", l)

LEMMA FreeLines ==
    ASSUME NEW n, NEW matched, NEW side, NEW i
    PROVE  i \in Recon!Unmatched(n, matched, side) <=> i \in 1 .. n /\ ~Has(matched, side, i)
BY DEF Recon!Unmatched, Has

(* A bank line takes a free line it equals, or there is none left.         *)
LEMMA ExactTakes ==
    ASSUME NEW bank, NEW ledger, Lines(bank), Lines(ledger), NEW matched, NEW b \in DOMAIN bank
    PROVE  \/ /\ Recon!take_exact(bank, ledger, matched, b) = matched
              /\ bank[b].reference # None =>
                    \A l \in DOMAIN ledger : ledger[l] = bank[b] => Has(matched, "ledger", l)
           \/ \E l \in DOMAIN ledger :
                 /\ ~Has(matched, "ledger", l)
                 /\ bank[b].reference # None /\ ledger[l] = bank[b]
                 /\ Recon!take_exact(bank, ledger, matched, b)
                      = matched \cup {Recon!MatchedPair(b, l, "exact", 0)}
<1> DEFINE C == {l \in Recon!Unmatched(Len(ledger), matched, "ledger") :
                    bank[b].reference # None /\ ledger[l] = bank[b]}
<1>1. CASE C = {}
    BY <1>1, FreeLines DEF Recon!take_exact, Lines
<1>2. CASE C # {}
    <2>1. C \in SUBSET (1 .. Len(ledger)) /\ Len(ledger) \in Nat
        BY FreeLines DEF Lines
    <2>2. Recon!Min(C) \in C
        <3> HIDE DEF C
        <3> QED BY <1>2, <2>1, FirstIsOneOf
    <2>3. Recon!take_exact(bank, ledger, matched, b)
            = matched \cup {Recon!MatchedPair(b, Recon!Min(C), "exact", 0)}
        BY <1>2 DEF Recon!take_exact
    <2>4. /\ Recon!Min(C) \in DOMAIN ledger /\ ~Has(matched, "ledger", Recon!Min(C))
          /\ bank[b].reference # None /\ ledger[Recon!Min(C)] = bank[b]
        BY <2>2, FreeLines DEF Lines
    <2> HIDE DEF C
    <2> QED BY <2>3, <2>4
<1> QED BY <1>1, <1>2

(* A bank line takes a free line near it, or there is none left.           *)
LEMMA NearestTakes ==
    ASSUME NEW bank, NEW ledger, Lines(bank), Lines(ledger), NEW days \in Int,
           NEW matched, NEW b \in DOMAIN bank
    PROVE  \/ /\ Recon!take_nearest(bank, ledger, days, matched, b) = matched
              /\ ~Has(matched, "bank", b) =>
                    \A l \in DOMAIN ledger :
                        Near(bank, ledger, days, b, l) => Has(matched, "ledger", l)
           \/ \E l \in DOMAIN ledger :
                 /\ ~Has(matched, "bank", b) /\ ~Has(matched, "ledger", l)
                 /\ Near(bank, ledger, days, b, l)
                 /\ Recon!take_nearest(bank, ledger, days, matched, b)
                      = matched \cup {Recon!MatchedPair(b, l, "tolerance",
                                                        Days(bank, ledger, b, l))}
<1> DEFINE Delta(l) == Recon!Abs(bank[b].date - ledger[l].date)
           C == {l \in Recon!Unmatched(Len(ledger), matched, "ledger") :
                    ledger[l].amount = bank[b].amount /\ Delta(l) <= days}
           N == {l \in C : \A m \in C : Delta(l) <= Delta(m)}
           E == {l \in N : \A m \in N : ledger[l].date <= ledger[m].date}
           best == Recon!Min(E)
<1>1. \A l : Delta(l) = Days(bank, ledger, b, l)
    BY DEF Recon!Abs, Abs, Days
<1>2. CASE b \notin Recon!Unmatched(Len(bank), matched, "bank")
    BY <1>2, FreeLines DEF Recon!take_nearest, Lines
<1>3. CASE C = {}
    <2>1. Recon!take_nearest(bank, ledger, days, matched, b) = matched
        BY <1>3 DEF Recon!take_nearest
    <2>2. \A l \in DOMAIN ledger : Near(bank, ledger, days, b, l) => Has(matched, "ledger", l)
        BY <1>1, <1>3, FreeLines DEF Lines, Near
    <2> QED BY <2>1, <2>2
<1>4. CASE b \in Recon!Unmatched(Len(bank), matched, "bank") /\ C # {}
    <2>1. C \in SUBSET (1 .. Len(ledger)) /\ Len(ledger) \in Nat
        BY FreeLines DEF Lines
    <2>2. \A l \in C : Delta(l) \in Int /\ ledger[l].date \in Int
        BY <2>1 DEF Lines, Recon!Abs
    <2>3. N # {}
        <3> DEFINE f == [l \in C |-> Delta(l)]
        <3>1. f \in [C -> Int]
            BY <2>2
        <3>2. PICK m \in C : \A l \in C : f[m] <= f[l]
            <4> HIDE DEF C, f
            <4> QED BY <1>4, <2>1, <3>1, LowestOf
        <3>3. m \in N
            <4> HIDE DEF C, Delta
            <4> QED BY <3>2
        <3> QED BY <3>3
    <2>4. E # {}
        <3> DEFINE f == [l \in N |-> ledger[l].date]
        <3>1. f \in [N -> Int] /\ N \in SUBSET (1 .. Len(ledger))
            BY <2>1, <2>2
        <3>2. PICK m \in N : \A l \in N : f[m] <= f[l]
            <4> HIDE DEF N, f
            <4> QED BY <2>1, <2>3, <3>1, LowestOf
        <3>3. m \in E
            <4> HIDE DEF N
            <4> QED BY <3>2
        <3> QED BY <3>3
    <2>5. best \in E
        <3>1. E \in SUBSET (1 .. Len(ledger))
            BY <2>1
        <3> HIDE DEF E
        <3> QED BY <2>1, <2>4, <3>1, FirstIsOneOf
    <2>6. Recon!take_nearest(bank, ledger, days, matched, b)
            = matched \cup {Recon!MatchedPair(b, best, "tolerance", Delta(best))}
        BY <1>4 DEF Recon!take_nearest
    <2>7. best \in C
        BY <2>5
    <2>8. /\ best \in DOMAIN ledger /\ ~Has(matched, "ledger", best)
          /\ Near(bank, ledger, days, b, best)
        <3> HIDE DEF best
        <3> QED BY <1>1, <2>7, FreeLines DEF Lines, Near
    <2>9. ~Has(matched, "bank", b)
        BY <1>4, FreeLines
    <2> HIDE DEF best, Delta
    <2> QED BY <1>1, <2>6, <2>8, <2>9
<1> QED BY <1>2, <1>3, <1>4

(* The pass over the bank lines keeps its promise line after line.         *)
LEMMA ExactPass ==
    ASSUME NEW bank, NEW ledger, Lines(bank), Lines(ledger)
    PROVE  ExactUpTo(bank, ledger, Recon!match_exact(bank, ledger), Len(bank))
<1> DEFINE n == Len(bank)
           P == PairsOf(bank, ledger)
           OK(k) == {M \in SUBSET P : ExactUpTo(bank, ledger, M, k)}
           step == [k \in 1 .. n |->
                       [M \in SUBSET P |-> Recon!take_exact(bank, ledger, M, k)]]
           f == CHOOSE g : g = [k \in 0 .. n |->
                       IF k = 0 THEN {} ELSE Recon!take_exact(bank, ledger, g[k - 1], k)]
           Good == {k \in 0 .. n : f[k] \in OK(k)}
<1>1. n \in Nat /\ DOMAIN bank = 1 .. n
    BY DEF Lines
<1>2. ASSUME NEW k \in 1 .. n, NEW M \in SUBSET P, NEW l \in DOMAIN ledger
      PROVE  Recon!MatchedPair(k, l, "exact", 0) \in P
    BY <1>1 DEF Lines, PairsOf, Recon!MatchedPair
<1>3. ASSUME NEW k \in 1 .. n, NEW M \in SUBSET P
      PROVE  Recon!take_exact(bank, ledger, M, k) \in SUBSET P
    <2>1. ASSUME NEW l \in DOMAIN ledger,
                 Recon!take_exact(bank, ledger, M, k)
                    = M \cup {Recon!MatchedPair(k, l, "exact", 0)}
          PROVE  Recon!take_exact(bank, ledger, M, k) \in SUBSET P
        <3>1. Recon!MatchedPair(k, l, "exact", 0) \in P
            BY <1>2
        <3> HIDE DEF P, n
        <3> QED BY <2>1, <3>1
    <2>2. k \in DOMAIN bank
        BY <1>1
    <2> HIDE DEF P, n
    <2> QED BY <2>1, <2>2, ExactTakes
<1>4. f = [k \in 0 .. n |->
              IF k = 0 THEN {} ELSE Recon!take_exact(bank, ledger, f[k - 1], k)]
    <2>1. PICK g : Follows(g, step, n, SUBSET P, {})
        <3>1. StepsIn(step, n, SUBSET P) /\ {} \in SUBSET P
            <4> HIDE DEF P, n
            <4> QED BY <1>3 DEF StepsIn
        <3> HIDE DEF P, n, step
        <3> QED BY <1>1, <3>1, Unfolds
    <2>2. ASSUME NEW k \in 0 .. n, k # 0
          PROVE  g[k] = Recon!take_exact(bank, ledger, g[k - 1], k)
        <3>1. k \in 1 .. n /\ k - 1 \in 0 .. n
            BY <1>1, <2>2
        <3>2. g[k - 1] \in SUBSET P
            BY <2>1, <3>1 DEF Follows
        <3>3. step[k][g[k - 1]] = Recon!take_exact(bank, ledger, g[k - 1], k)
            <4> HIDE DEF P, n
            <4> QED BY <3>1, <3>2
        <3> QED BY <2>1, <3>1, <3>3 DEF Follows
    <2>3. g = [k \in 0 .. n |->
                IF k = 0 THEN {} ELSE Recon!take_exact(bank, ledger, g[k - 1], k)]
        <3> HIDE DEF step, P, n, f
        <3> QED BY <2>1, <2>2 DEF Follows
    <2> HIDE DEF step, P, n
    <2> QED BY <2>3
<1> HIDE DEF f
<1>5. 0 \in Good
    <2>1. 0 \in 0 .. n /\ f[0] = {}
        BY <1>1, <1>4
    <2>2. {} \in OK(0)
        BY DEF ExactUpTo, OnceEach
    <2> QED BY <2>1, <2>2
<1>6. ASSUME NEW k \in 1 .. n, k - 1 \in Good PROVE k \in Good
    <2> DEFINE M == f[k - 1]
               N == f[k]
    <2>1. k \in 0 .. n /\ k # 0 /\ k \in DOMAIN bank
        BY <1>1
    <2>2. N = Recon!take_exact(bank, ledger, M, k)
        BY <1>4, <2>1
    <2>3. M \in SUBSET P /\ ExactUpTo(bank, ledger, M, k - 1)
        BY <1>6
    <2>4. \A pair \in M : pair.bank \in Nat /\ pair.bank # k /\ pair.bank <= k
        BY <2>3, <1>1 DEF ExactUpTo, PairsOf
    <2>5. \A b \in 1 .. k : b = k \/ b \in 1 .. k - 1
        BY <1>1
    <2>6. ASSUME N = M,
                 bank[k].reference # None =>
                    \A l \in DOMAIN ledger : ledger[l] = bank[k] => Has(M, "ledger", l)
          PROVE  N \in OK(k)
        BY <2>1, <2>3, <2>4, <2>5, <2>6 DEF ExactUpTo
    <2>7. ASSUME NEW l \in DOMAIN ledger, ~Has(M, "ledger", l),
                 bank[k].reference # None, ledger[l] = bank[k],
                 N = M \cup {Recon!MatchedPair(k, l, "exact", 0)}
          PROVE  N \in OK(k)
        <3> DEFINE new == Recon!MatchedPair(k, l, "exact", 0)
        <3>1. /\ new \in P /\ new.bank = k /\ new.ledger = l
              /\ new.match_type = "exact" /\ new.date_delta_days = 0
            BY <1>2, <2>3 DEF Recon!MatchedPair
        <3> HIDE DEF new
        <3>2. N \in SUBSET P
            BY <2>3, <2>7, <3>1 DEF new
        <3>3. \A pair \in M : pair.ledger # l /\ pair.bank # k
            BY <2>4, <2>7 DEF Has
        <3>4. OnceEach(N)
            BY <2>3, <2>7, <3>1, <3>3 DEF new, ExactUpTo, OnceEach
        <3>5. \A pair \in N : IsExact(bank, ledger, pair) /\ pair.bank <= k
            BY <2>1, <2>3, <2>4, <2>7, <3>1 DEF new, ExactUpTo, IsExact
        <3>6. \A side, i : Has(M, side, i) => Has(N, side, i)
            BY <2>7 DEF Has
        <3>7. Has(N, "bank", k)
            BY <2>7, <3>1 DEF new, Has
        <3>8. \A b \in 1 .. k : bank[b].reference # None /\ ~Has(N, "bank", b) =>
                  \A j \in DOMAIN ledger : ledger[j] = bank[b] => Has(N, "ledger", j)
            BY <2>3, <2>5, <3>6, <3>7 DEF ExactUpTo
        <3> QED BY <3>2, <3>4, <3>5, <3>8 DEF ExactUpTo
    <2>8. N \in OK(k)
        <3>1. \/ /\ N = M
                 /\ bank[k].reference # None =>
                      \A l \in DOMAIN ledger : ledger[l] = bank[k] => Has(M, "ledger", l)
              \/ \E l \in DOMAIN ledger :
                    /\ ~Has(M, "ledger", l) /\ bank[k].reference # None /\ ledger[l] = bank[k]
                    /\ N = M \cup {Recon!MatchedPair(k, l, "exact", 0)}
            <4> HIDE DEF M, N
            <4> QED BY <2>1, <2>2, ExactTakes
        <3>2. ASSUME NEW l \in DOMAIN ledger,
                     /\ ~Has(M, "ledger", l) /\ bank[k].reference # None /\ ledger[l] = bank[k]
                     /\ N = M \cup {Recon!MatchedPair(k, l, "exact", 0)}
              PROVE  N \in OK(k)
            <4> HIDE DEF M, N, OK
            <4> QED BY <2>7, <3>2
        <3> HIDE DEF M, N, OK
        <3> QED BY <2>6, <3>1, <3>2
    <2> QED BY <2>1, <2>8
<1>7. f[n] \in OK(n)
    <2>1. n \in 0 .. n
        BY <1>1
    <2>2. \A k \in 1 .. n : k - 1 \in Good => k \in Good
        BY <1>6
    <2> HIDE DEF Good, OK
    <2>3. \A k \in 0 .. n : k \in Good
        BY <1>1, <1>5, <2>2, AllReached
    <2> QED BY <2>1, <2>3 DEF Good
<1>8. Recon!match_exact(bank, ledger) = f[n]
    BY DEF Recon!match_exact, f
<1> QED BY <1>7, <1>8

LEMMA NearPass ==
    ASSUME NEW bank, NEW ledger, Lines(bank), Lines(ledger), NEW days \in Int,
           NEW exact \in SUBSET PairsOf(bank, ledger), OnceEach(exact)
    PROVE  NearUpTo(bank, ledger, days, exact,
                    Recon!match_tolerance(bank, ledger, exact, days), Len(bank))
<1> DEFINE n == Len(bank)
           P == PairsOf(bank, ledger)
           Take(M, k) == Recon!take_nearest(bank, ledger, days, M, k)
           Pair(k, l) == Recon!MatchedPair(k, l, "tolerance", Days(bank, ledger, k, l))
           OK(k) == {M \in SUBSET P : NearUpTo(bank, ledger, days, exact, M, k)}
           step == [k \in 1 .. n |-> [M \in SUBSET P |-> Take(M, k)]]
           f == CHOOSE g : g = [k \in 0 .. n |-> IF k = 0 THEN exact ELSE Take(g[k - 1], k)]
           Good == {k \in 0 .. n : f[k] \in OK(k)}
<1>1. n \in Nat /\ DOMAIN bank = 1 .. n
    BY DEF Lines
<1>2. ASSUME NEW k \in 1 .. n, NEW l \in DOMAIN ledger
      PROVE  Pair(k, l) \in P
    <2>1. Days(bank, ledger, k, l) \in Int
        BY <1>1 DEF Lines, Days, Abs
    <2> QED BY <1>1, <2>1 DEF Lines, PairsOf, Recon!MatchedPair
<1>3. ASSUME NEW k \in 1 .. n, NEW M \in SUBSET P
      PROVE  Take(M, k) \in SUBSET P
    <2>1. ASSUME NEW l \in DOMAIN ledger, Take(M, k) = M \cup {Pair(k, l)}
          PROVE  Take(M, k) \in SUBSET P
        <3>1. Pair(k, l) \in P
            BY <1>2
        <3> HIDE DEF P, n, Pair, Take
        <3> QED BY <2>1, <3>1
    <2>2. k \in DOMAIN bank
        BY <1>1
    <2> HIDE DEF P, n
    <2> QED BY <2>1, <2>2, NearestTakes
<1>4. f = [k \in 0 .. n |-> IF k = 0 THEN exact ELSE Take(f[k - 1], k)]
    <2>1. PICK g : Follows(g, step, n, SUBSET P, exact)
        <3>1. StepsIn(step, n, SUBSET P) /\ exact \in SUBSET P
            <4> HIDE DEF n, Take
            <4>1. exact \in SUBSET P
                OBVIOUS
            <4> HIDE DEF P
            <4> QED BY <1>3, <4>1 DEF StepsIn
        <3> HIDE DEF P, n, step
        <3> QED BY <1>1, <3>1, Unfolds
    <2>2. ASSUME NEW k \in 0 .. n, k # 0
          PROVE  g[k] = Take(g[k - 1], k)
        <3>1. k \in 1 .. n /\ k - 1 \in 0 .. n
            BY <1>1, <2>2
        <3>2. g[k - 1] \in SUBSET P
            BY <2>1, <3>1 DEF Follows
        <3>3. step[k][g[k - 1]] = Take(g[k - 1], k)
            <4> HIDE DEF P, n, Take
            <4> QED BY <3>1, <3>2
        <3> QED BY <2>1, <3>1, <3>3 DEF Follows
    <2>3. g = [k \in 0 .. n |-> IF k = 0 THEN exact ELSE Take(g[k - 1], k)]
        <3> HIDE DEF step, P, n, f, Take
        <3> QED BY <2>1, <2>2 DEF Follows
    <2> HIDE DEF step, P, n, Take
    <2> QED BY <2>3
<1> HIDE DEF f
<1>5. 0 \in Good
    <2>1. 0 \in 0 .. n /\ f[0] = exact
        BY <1>1, <1>4
    <2>2. exact \in OK(0)
        BY DEF NearUpTo
    <2> QED BY <2>1, <2>2
<1>6. ASSUME NEW k \in 1 .. n, k - 1 \in Good PROVE k \in Good
    <2> DEFINE M == f[k - 1]
               N == f[k]
    <2>1. k \in 0 .. n /\ k # 0 /\ k \in DOMAIN bank
        BY <1>1
    <2>2. N = Take(M, k)
        BY <1>4, <2>1
    <2>3. M \in SUBSET P /\ NearUpTo(bank, ledger, days, exact, M, k - 1)
        BY <1>6
    <2>4. \A b \in 1 .. k : b = k \/ b \in 1 .. k - 1
        BY <1>1
    <2>5. ASSUME N = M,
                 ~Has(M, "bank", k) =>
                    \A l \in DOMAIN ledger :
                        Near(bank, ledger, days, k, l) => Has(M, "ledger", l)
          PROVE  N \in OK(k)
        BY <2>1, <2>3, <2>4, <2>5 DEF NearUpTo
    <2>6. ASSUME NEW l \in DOMAIN ledger,
                 ~Has(M, "bank", k), ~Has(M, "ledger", l), Near(bank, ledger, days, k, l),
                 N = M \cup {Pair(k, l)}
          PROVE  N \in OK(k)
        <3> DEFINE new == Pair(k, l)
        <3>1. /\ new \in P /\ new.bank = k /\ new.ledger = l /\ new.match_type = "tolerance"
              /\ new.date_delta_days = Days(bank, ledger, k, l)
            BY <1>2 DEF Recon!MatchedPair
        <3> HIDE DEF new
        <3>2. N \in SUBSET P
            BY <2>3, <2>6, <3>1 DEF new
        <3>3. \A pair \in M : pair.ledger # l /\ pair.bank # k
            BY <2>6 DEF Has
        <3>4. OnceEach(N)
            BY <2>3, <2>6, <3>1, <3>3 DEF new, NearUpTo, OnceEach
        <3>5. /\ exact \subseteq N
              /\ \A pair \in N \ exact : IsNear(bank, ledger, days, pair)
            BY <2>3, <2>6, <3>1 DEF new, NearUpTo, IsNear
        <3>6. \A side, i : Has(M, side, i) => Has(N, side, i)
            BY <2>6 DEF Has
        <3>7. Has(N, "bank", k)
            BY <2>6, <3>1 DEF new, Has
        <3>8. \A b \in 1 .. k : ~Has(N, "bank", b) =>
                  \A j \in DOMAIN ledger :
                      Near(bank, ledger, days, b, j) => Has(N, "ledger", j)
            BY <2>3, <2>4, <3>6, <3>7 DEF NearUpTo
        <3> QED BY <3>2, <3>4, <3>5, <3>8 DEF NearUpTo
    <2>7. N \in OK(k)
        <3>1. \/ /\ N = M
                 /\ ~Has(M, "bank", k) =>
                      \A l \in DOMAIN ledger :
                          Near(bank, ledger, days, k, l) => Has(M, "ledger", l)
              \/ \E l \in DOMAIN ledger :
                    /\ ~Has(M, "bank", k) /\ ~Has(M, "ledger", l)
                    /\ Near(bank, ledger, days, k, l)
                    /\ N = M \cup {Pair(k, l)}
            <4> HIDE DEF M, N
            <4> QED BY <2>1, <2>2, NearestTakes
        <3>2. ASSUME NEW l \in DOMAIN ledger,
                     /\ ~Has(M, "bank", k) /\ ~Has(M, "ledger", l)
                     /\ Near(bank, ledger, days, k, l)
                     /\ N = M \cup {Pair(k, l)}
              PROVE  N \in OK(k)
            <4> HIDE DEF M, N, OK
            <4> QED BY <2>6, <3>2
        <3> HIDE DEF M, N, OK, Pair
        <3> QED BY <2>5, <3>1, <3>2
    <2> QED BY <2>1, <2>7
<1>7. f[n] \in OK(n)
    <2>1. n \in 0 .. n
        BY <1>1
    <2>2. \A k \in 1 .. n : k - 1 \in Good => k \in Good
        BY <1>6
    <2> HIDE DEF Good, OK
    <2>3. \A k \in 0 .. n : k \in Good
        BY <1>1, <1>5, <2>2, AllReached
    <2> QED BY <2>1, <2>3 DEF Good
<1>8. Recon!match_tolerance(bank, ledger, exact, days) = f[n]
    BY DEF Recon!match_tolerance, f
<1> QED BY <1>7, <1>8
-----------------------------------------------------------------------------
(* What the two passes together promise.                                   *)
LEMMA FiniteLines ==
    ASSUME NEW rows, Lines(rows), NEW T \in SUBSET DOMAIN rows
    PROVE  IsFiniteSet(T)
<1>1. IsFiniteSet(1 .. Len(rows))
    BY FS_Interval DEF Lines
<1> QED BY <1>1, FS_Subset DEF Lines

(* Pairs with a line each of T, no two with the same one: as many as lines *)
(* at most, and as many as there are if none is left out.                  *)
OnePerLine(pairs, side, T) ==
    /\ \A pair \in pairs : pair[side] \in T
    /\ \A p, q \in pairs : p[side] = q[side] => p = q

LEMMA PairsPerLine ==
    ASSUME NEW pairs, NEW T, NEW side, IsFiniteSet(T), OnePerLine(pairs, side, T)
    PROVE  /\ Cardinality(pairs) \in Nat /\ Cardinality(T) \in Nat
           /\ Cardinality(pairs) <= Cardinality(T)
           /\ (\A i \in T : Has(pairs, side, i)) => Cardinality(pairs) = Cardinality(T)
<1> DEFINE f == [pair \in pairs |-> pair[side]]
<1>1. f \in Injection(pairs, T)
    BY DEF Injection, IsInjective, OnePerLine
<1>2. (\A i \in T : Has(pairs, side, i)) => f \in Surjection(pairs, T)
    BY DEF Surjection, Has, OnePerLine
<1> HIDE DEF f
<1>3. IsFiniteSet(pairs) /\ Cardinality(pairs) <= Cardinality(T)
    BY <1>1, FS_Injection
<1>4. (\A i \in T : Has(pairs, side, i)) => Cardinality(pairs) = Cardinality(T)
    BY <1>1, <1>2, FS_Injection
<1> QED BY <1>3, <1>4, FS_CardinalityType

LEMMA MinOfTwo ==
    ASSUME NEW a \in Nat, NEW b \in Nat, NEW c \in Nat, c <= a, c <= b, c = a \/ c = b
    PROVE  c = Min({a, b})
<1>1. Min({a, b}) \in {a, b} /\ \A x \in {a, b} : Min({a, b}) <= x
    <2>1. CASE a <= b
        BY <2>1 DEF Min
    <2>2. CASE ~(a <= b)
        BY <2>2 DEF Min
    <2> QED BY <2>1, <2>2
<1> HIDE DEF Min
<1> QED BY <1>1

PairsOfRow(pairs, rows, row) == {pair \in pairs : rows[pair.bank] = row}

EqualTo(rows, row) == {i \in DOMAIN rows : rows[i] = row}

LEMMA AsManyAsThereAre ==
    ASSUME NEW bank, NEW ledger, Lines(bank), Lines(ledger), NEW exact,
           ExactUpTo(bank, ledger, exact, Len(bank)), NEW row, row.reference # None
    PROVE  Cardinality(PairsOfRow(exact, bank, row))
             = Min({Cardinality(EqualTo(bank, row)), Cardinality(EqualTo(ledger, row))})
<1> DEFINE X == {pair \in exact : bank[pair.bank] = row}
           B == {i \in DOMAIN bank : bank[i] = row}
           L == {i \in DOMAIN ledger : ledger[i] = row}
<1>1. IsFiniteSet(B) /\ IsFiniteSet(L)
    BY FiniteLines
<1>2. \A pair \in X : pair.bank \in B /\ pair.ledger \in L
    BY DEF ExactUpTo, PairsOf, IsExact, Lines
<1>3. \A p, q \in X : p.bank = q.bank \/ p.ledger = q.ledger => p = q
    BY DEF ExactUpTo, OnceEach
<1>4. (\A i \in B : Has(X, "bank", i)) \/ (\A i \in L : Has(X, "ledger", i))
    <2> SUFFICES ASSUME NEW b \in B, ~Has(X, "bank", b), NEW l \in L
                 PROVE  Has(X, "ledger", l)
        OBVIOUS
    <2>1. ~Has(exact, "bank", b)
        BY DEF Has
    <2>2. PICK pair \in exact : pair.ledger = l
        BY <2>1 DEF ExactUpTo, Lines, Has
    <2>3. pair \in X
        BY <2>2 DEF ExactUpTo, IsExact
    <2> QED BY <2>2, <2>3 DEF Has
<1> HIDE DEF X, B, L
<1>5. /\ Cardinality(X) \in Nat /\ Cardinality(B) \in Nat /\ Cardinality(X) <= Cardinality(B)
      /\ (\A i \in B : Has(X, "bank", i)) => Cardinality(X) = Cardinality(B)
    <2>1. OnePerLine(X, "bank", B)
        BY <1>2, <1>3 DEF OnePerLine
    <2> QED BY <1>1, <2>1, PairsPerLine, Zenon
<1>6. /\ Cardinality(L) \in Nat /\ Cardinality(X) <= Cardinality(L)
      /\ (\A i \in L : Has(X, "ledger", i)) => Cardinality(X) = Cardinality(L)
    <2>1. OnePerLine(X, "ledger", L)
        BY <1>2, <1>3 DEF OnePerLine
    <2> QED BY <1>1, <2>1, PairsPerLine, Zenon
<1>7. Cardinality(X) = Min({Cardinality(B), Cardinality(L)})
    BY <1>4, <1>5, <1>6, MinOfTwo
<1> QED BY <1>7 DEF X, B, L, PairsOfRow, EqualTo

LEMMA InOnePairOrNone ==
    ASSUME NEW matched, NEW side, NEW i, \A p, q \in matched : p[side] = q[side] => p = q
    PROVE  Cardinality({pair \in matched : pair[side] = i}) = IF Has(matched, side, i) THEN 1 ELSE 0
<1> DEFINE X == {pair \in matched : pair[side] = i}
<1>1. CASE Has(matched, side, i)
    <2>1. PICK pair \in matched : pair[side] = i
        BY <1>1 DEF Has
    <2>2. X = {pair}
        BY <2>1
    <2> HIDE DEF X
    <2>3. Cardinality(X) = 1
        BY <2>2, FS_Singleton
    <2> QED BY <1>1, <2>3 DEF X
<1>2. CASE ~Has(matched, side, i)
    <2>1. X = {}
        BY <1>2 DEF Has
    <2> HIDE DEF X
    <2>2. Cardinality(X) = 0
        BY <2>1, FS_EmptySet
    <2> QED BY <1>2, <2>2 DEF X
<1> QED BY <1>1, <1>2

LEMMA MatchedReport ==
    ASSUME NEW p, NEW book
    PROVE  LET exact == Recon!match_exact(book.bank, book.ledger)
               matched == Recon!match_tolerance(book.bank, book.ledger, exact, p.tolerance_days)
           IN  /\ Reconciliation(p, book).matched = matched
               /\ Reconciliation(p, book).exceptions.bank
                    = Recon!Unmatched(Len(book.bank), matched, "bank")
               /\ Reconciliation(p, book).exceptions.ledger
                    = Recon!Unmatched(Len(book.ledger), matched, "ledger")
BY DEF Reconciliation, Recon!ReconciliationReport, Recon!match_transactions

LEMMA MatchingHolds == TypeOK => MatchingIsSound
<1> SUFFICES ASSUME TypeOK, agent = "reconciliation" PROVE MatchingIsSound
    BY DEF MatchingIsSound, Is
<1> DEFINE bank == sheets["bank"]
           ledger == sheets["ledger"]
           days == policy.tolerance_days
           exact == Recon!match_exact(bank, ledger)
           matched == Recon!match_tolerance(bank, ledger, exact, days)
           report == Reconciliation(policy, sheets)
<1>1. Lines(bank) /\ Lines(ledger) /\ days \in Int
    <2>1. /\ bank \in Seq(Sheets["reconciliation"]["bank"])
          /\ ledger \in Seq(Sheets["reconciliation"]["ledger"])
        BY SheetsAssumption DEF TypeOK
    <2>2. \A S : \A s \in Seq(S) : /\ Len(s) \in Nat /\ DOMAIN s = 1 .. Len(s)
                                   /\ \A i \in DOMAIN s : s[i] \in S
        OBVIOUS
    <2>3. Lines(bank) /\ Lines(ledger)
        <3> HIDE DEF bank, ledger
        <3> QED BY <2>1, <2>2, SheetsAssumption DEF Lines
    <2>4. days \in Int
        BY PoliciesAssumption DEF TypeOK
    <2> QED BY <2>3, <2>4
<1>2. ExactUpTo(bank, ledger, exact, Len(bank))
    <2> HIDE DEF bank, ledger
    <2> QED BY <1>1, ExactPass
<1>3. NearUpTo(bank, ledger, days, exact, matched, Len(bank))
    <2>1. exact \in SUBSET PairsOf(bank, ledger) /\ OnceEach(exact)
        BY <1>2 DEF ExactUpTo
    <2> HIDE DEF bank, ledger, days, exact
    <2> QED BY <1>1, <2>1, NearPass
<1>4. /\ report.matched = matched
      /\ report.exceptions.bank = Recon!Unmatched(Len(bank), matched, "bank")
      /\ report.exceptions.ledger = Recon!Unmatched(Len(ledger), matched, "ledger")
    BY MatchedReport
<1> HIDE DEF bank, ledger, days, exact, matched, report
<1>5. ASSUME NEW side \in {"bank", "ledger"}, NEW i \in DOMAIN sheets[side]
      PROVE  Cardinality({pair \in report.matched : pair[side] = i})
               + (IF i \in report.exceptions[side] THEN 1 ELSE 0) = 1
    <2>1. \A p, q \in matched : p[side] = q[side] => p = q
        BY <1>3 DEF NearUpTo, OnceEach
    <2>2. Cardinality({pair \in matched : pair[side] = i})
            = IF Has(matched, side, i) THEN 1 ELSE 0
        BY <2>1, InOnePairOrNone
    <2>3. i \in report.exceptions[side] <=> ~Has(matched, side, i)
        BY <1>1, <1>4, FreeLines DEF Lines, bank, ledger
    <2> QED BY <1>4, <2>2, <2>3
<1>6. ASSUME NEW pair \in matched
      PROVE  /\ bank[pair.bank].amount = ledger[pair.ledger].amount
             /\ pair.date_delta_days = Days(bank, ledger, pair.bank, pair.ledger)
             /\ \/ pair.match_type = "exact" /\ bank[pair.bank] = ledger[pair.ledger]
                \/ /\ pair.match_type = "tolerance"
                   /\ pair.date_delta_days <= days
             /\ pair.match_type = "exact" <=> pair \in exact
    <2>1. CASE pair \in exact
        <3>1. pair.bank \in DOMAIN bank /\ pair.ledger \in DOMAIN ledger
            BY <1>1, <1>3 DEF NearUpTo, PairsOf, Lines
        <3>2. IsExact(bank, ledger, pair)
            BY <1>2, <2>1 DEF ExactUpTo
        <3>3. Days(bank, ledger, pair.bank, pair.ledger) = 0
            BY <1>1, <3>1, <3>2 DEF IsExact, Days, Abs, Lines
        <3> QED BY <2>1, <3>2, <3>3 DEF IsExact
    <2>2. CASE pair \notin exact
        BY <1>3, <2>2 DEF NearUpTo, IsNear, Near
    <2> QED BY <2>1, <2>2
<1>7. ASSUME NEW i \in DOMAIN bank, bank[i].reference # None
      PROVE  Cardinality({pair \in matched :
                            pair.match_type = "exact" /\ bank[pair.bank] = bank[i]})
               = Min({Cardinality({j \in DOMAIN bank : bank[j] = bank[i]}),
                      Cardinality({j \in DOMAIN ledger : ledger[j] = bank[i]})})
    <2>1. {pair \in matched : pair.match_type = "exact" /\ bank[pair.bank] = bank[i]}
            = {pair \in exact : bank[pair.bank] = bank[i]}
        BY <1>3, <1>6 DEF NearUpTo
    <2> DEFINE row == bank[i]
    <2>2. row.reference # None
        BY <1>7
    <2> HIDE DEF row
    <2>3. Cardinality(PairsOfRow(exact, bank, row))
            = Min({Cardinality(EqualTo(bank, row)), Cardinality(EqualTo(ledger, row))})
        BY <1>1, <1>2, <2>2, AsManyAsThereAre
    <2> QED BY <2>1, <2>3 DEF row, PairsOfRow, EqualTo
<1>8. ASSUME NEW i \in report.exceptions.bank, NEW j \in report.exceptions.ledger
      PROVE  \/ bank[i].amount # ledger[j].amount
             \/ Days(bank, ledger, i, j) > days
    <2>1. /\ i \in 1 .. Len(bank) /\ ~Has(matched, "bank", i)
          /\ j \in 1 .. Len(ledger) /\ ~Has(matched, "ledger", j)
        BY <1>4, FreeLines
    <2>2. ~Near(bank, ledger, days, i, j)
        BY <1>1, <1>3, <2>1 DEF NearUpTo, Lines
    <2>3. Days(bank, ledger, i, j) \in Int
        BY <1>1, <2>1 DEF Days, Abs, Lines
    <2> QED BY <1>1, <2>2, <2>3 DEF Near
<1>9. \A side \in {"bank", "ledger"} : \A i \in DOMAIN sheets[side] :
          Cardinality({pair \in report.matched : pair[side] = i})
            + (IF i \in report.exceptions[side] THEN 1 ELSE 0) = 1
    BY <1>5
<1>10. \A pair \in report.matched :
          /\ bank[pair.bank].amount = ledger[pair.ledger].amount
          /\ pair.date_delta_days
               = Abs(bank[pair.bank].date - ledger[pair.ledger].date)
          /\ \/ pair.match_type = "exact" /\ bank[pair.bank] = ledger[pair.ledger]
             \/ pair.match_type = "tolerance" /\ pair.date_delta_days <= policy.tolerance_days
    BY <1>4, <1>6 DEF Days, days
<1>11. \A i \in DOMAIN bank : bank[i].reference # None =>
          Cardinality({pair \in report.matched :
                         pair.match_type = "exact" /\ bank[pair.bank] = bank[i]})
            = Min({Cardinality({j \in DOMAIN bank : bank[j] = bank[i]}),
                   Cardinality({j \in DOMAIN ledger : ledger[j] = bank[i]})})
    BY <1>4, <1>7
<1>12. \A i \in report.exceptions.bank, j \in report.exceptions.ledger :
          \/ bank[i].amount # ledger[j].amount
          \/ Abs(bank[i].date - ledger[j].date) > policy.tolerance_days
    BY <1>8 DEF Days, days
<1> QED BY <1>9, <1>10, <1>11, <1>12, Zenon DEF MatchingIsSound, bank, ledger, report

(* However many lines bank and ledger have: each is in one pair or one     *)
(* exception, pairs are of equal amounts within the tolerance, as many     *)
(* equal lines are matched exactly as the shorter side has, and no two     *)
(* exceptions could still be a pair (matching.py, both passes).            *)
THEOREM MatchesAreSound == BackSpec => []MatchingIsSound
<1> QED BY TypeCorrect, MatchingHolds, PTL

-----------------------------------------------------------------------------
(* The sums and counts of each module are the same ones.                   *)
LEMMA SumIsOnDomain == \A f : SumFunction(f) = SumFunctionOnSet(f, DOMAIN f)
BY DEF SumFunction

LEMMA AgingSums ==
    /\ \A f, S : AR!SumFunctionOnSet(f, S) = SumFunctionOnSet(f, S)
    /\ \A f : AR!SumFunction(f) = SumFunctionOnSet(f, DOMAIN f)
BY DEF AR!SumFunction, AR!SumFunctionOnSet, AR!FoldFunctionOnSet, AR!MapThenFoldSet,
       SumFunctionOnSet, FoldFunctionOnSet, MapThenFoldSet

LEMMA MatchingSums == \A f : Recon!SumFunction(f) = SumFunctionOnSet(f, DOMAIN f)
BY DEF Recon!SumFunction, Recon!SumFunctionOnSet, Recon!FoldFunctionOnSet,
       Recon!MapThenFoldSet, SumFunctionOnSet, FoldFunctionOnSet, MapThenFoldSet

LEMMA VarianceSums == \A f : Close!SumFunction(f) = SumFunctionOnSet(f, DOMAIN f)
BY DEF Close!SumFunction, Close!SumFunctionOnSet, Close!FoldFunctionOnSet,
       Close!MapThenFoldSet, SumFunctionOnSet, FoldFunctionOnSet, MapThenFoldSet

LEMMA ProvisionSums ==
    /\ \A f : Tax!SumFunction(f) = SumFunctionOnSet(f, DOMAIN f)
    /\ \A S : Tax!Cardinality(S) = Cardinality(S)
BY DEF Tax!SumFunction, Tax!SumFunctionOnSet, Tax!FoldFunctionOnSet, Tax!MapThenFoldSet,
       SumFunctionOnSet, FoldFunctionOnSet, MapThenFoldSet, Tax!Cardinality, Cardinality

LEMMA ForecastSums ==
    /\ \A f : Fpa!SumFunction(f) = SumFunctionOnSet(f, DOMAIN f)
    /\ \A S : Fpa!Cardinality(S) = Cardinality(S)
BY DEF Fpa!SumFunction, Fpa!SumFunctionOnSet, Fpa!FoldFunctionOnSet, Fpa!MapThenFoldSet,
       SumFunctionOnSet, FoldFunctionOnSet, MapThenFoldSet, Fpa!Cardinality, Cardinality

LEMMA InvoiceSums == \A f : AP!SumFunction(f) = SumFunctionOnSet(f, DOMAIN f)
BY DEF AP!SumFunction, AP!SumFunctionOnSet, AP!FoldFunctionOnSet, AP!MapThenFoldSet,
       SumFunctionOnSet, FoldFunctionOnSet, MapThenFoldSet

LEMMA TestSums == \A f : Sox!SumFunction(f) = SumFunctionOnSet(f, DOMAIN f)
BY DEF Sox!SumFunction, Sox!SumFunctionOnSet, Sox!FoldFunctionOnSet, Sox!MapThenFoldSet,
       SumFunctionOnSet, FoldFunctionOnSet, MapThenFoldSet

-----------------------------------------------------------------------------
LEMMA FirstNumbers ==
    ASSUME NEW n \in Nat
    PROVE  IsFiniteSet(1 .. n) /\ Cardinality(1 .. n) = n
<1>1. 1 \in Int /\ n \in Int
    OBVIOUS
<1>2. Cardinality(1 .. n) = IF 1 > n THEN 0 ELSE n - 1 + 1
    BY <1>1, FS_Interval
<1>3. IsFiniteSet(1 .. n)
    BY <1>1, FS_Interval, Zenon
<1> QED BY <1>2, <1>3

LEMMA FiniteValues ==
    ASSUME NEW S, IsFiniteSet(S), NEW f, DOMAIN f = S
    PROVE  IsFiniteSet({f[x] : x \in S})
<1> DEFINE T == {f[x] : x \in S}
           g == [x \in S |-> f[x]]
<1>1. g \in Surjection(S, T)
    BY DEF Surjection
<1> HIDE DEF g, T
<1>2. IsFiniteSet(T)
    BY <1>1, FS_Surjection
<1> QED BY <1>2 DEF T

(* ar_collections: an invoice's bucket says how many days it is overdue.   *)
Aged(a, n) ==
    /\ n \in Nat /\ DOMAIN a = 1 .. n
    /\ \A i \in 1 .. n : /\ a[i].amount \in Int /\ a[i].days_overdue \in Int
                         /\ a[i].bucket = AR!bucket(a[i].days_overdue)

InBucket(a, k) == {i \in DOMAIN a : a[i].bucket = AR!Buckets[k]}

AmountsOf(a) == [i \in DOMAIN a |-> a[i].amount]

LEMMA EachInOneBucket ==
    ASSUME NEW a, NEW n, Aged(a, n)
    PROVE  /\ DOMAIN AR!Buckets = 1 .. 5
           /\ \A i \in 1 .. n : \E k \in 1 .. 5 : i \in InBucket(a, k)
           /\ \A k, l \in 1 .. 5 : InBucket(a, k) \cap InBucket(a, l) # {} => k = l
           /\ \A i \in 1 .. n : i \in InBucket(a, 1) <=> ~(a[i].days_overdue >= 1)
<1>1. \A k \in 1 .. 5 : k = 1 \/ k = 2 \/ k = 3 \/ k = 4 \/ k = 5
    OBVIOUS
<1>2. DOMAIN AR!Buckets = 1 .. 5
    BY DEF AR!Buckets
<1>3. \A k, l \in 1 .. 5 : AR!Buckets[k] = AR!Buckets[l] => k = l
    BY <1>1 DEF AR!Buckets
<1>4. ASSUME NEW i \in 1 .. n
      PROVE  /\ \E k \in 1 .. 5 : a[i].bucket = AR!Buckets[k]
             /\ a[i].bucket = AR!Buckets[1] <=> ~(a[i].days_overdue >= 1)
    <2> DEFINE d == a[i].days_overdue
               b == a[i].bucket
    <2>1. d \in Int /\ b = AR!bucket(d)
        BY DEF Aged
    <2> HIDE DEF d, b
    <2>2. \/ b = "current" /\ ~(d >= 1)
          \/ b \in {"1-30", "31-60", "61-90", "90+"} /\ d >= 1
        BY <2>1 DEF AR!bucket
    <2>3. /\ AR!Buckets[1] = "current" /\ AR!Buckets[2] = "1-30" /\ AR!Buckets[3] = "31-60"
          /\ AR!Buckets[4] = "61-90" /\ AR!Buckets[5] = "90+"
        BY DEF AR!Buckets
    <2>4. "current" \notin {"1-30", "31-60", "61-90", "90+"}
        OBVIOUS
    <2>5. \E k \in 1 .. 5 : b = AR!Buckets[k]
        <3>1. 1 \in 1 .. 5 /\ 2 \in 1 .. 5 /\ 3 \in 1 .. 5 /\ 4 \in 1 .. 5 /\ 5 \in 1 .. 5
            OBVIOUS
        <3> QED BY <2>2, <2>3, <3>1
    <2>6. b = AR!Buckets[1] <=> ~(d >= 1)
        <3>1. b = "current" <=> ~(d >= 1)
            BY <2>2, <2>4
        <3> QED BY <2>3, <3>1, Zenon
    <2> QED BY <2>5, <2>6 DEF d, b
<1>5. \A i \in 1 .. n : \A k : i \in InBucket(a, k) <=> a[i].bucket = AR!Buckets[k]
    BY DEF InBucket, Aged
<1>6. \A k, l \in 1 .. 5 : InBucket(a, k) \cap InBucket(a, l) # {} => k = l
    BY <1>3 DEF InBucket
<1> QED BY <1>2, <1>4, <1>5, <1>6, Zenon

LEMMA BucketsAddUp ==
    ASSUME NEW a, NEW n, Aged(a, n),
           NEW amount \in [1 .. 5 -> Int], NEW count \in [1 .. 5 -> Int],
           \A k \in 1 .. 5 : /\ amount[k] = SumFunctionOnSet(AmountsOf(a), InBucket(a, k))
                             /\ count[k] = Cardinality(InBucket(a, k))
    PROVE  /\ SumFunctionOnSet(amount, 1 .. 5) = SumFunctionOnSet(AmountsOf(a), 1 .. n)
           /\ SumFunctionOnSet(count, 1 .. 5) = n
<1> DEFINE S == 1 .. n
           K == 1 .. 5
           f == AmountsOf(a)
           part == [k \in K |-> InBucket(a, k)]
<1>1. n \in Nat /\ DOMAIN a = S /\ f \in [S -> Int]
    BY DEF Aged, AmountsOf
<1>2. IsFiniteSet(S) /\ Cardinality(S) = n /\ IsFiniteSet(K)
    <2>1. 5 \in Nat
        OBVIOUS
    <2> QED BY <1>1, <2>1, FirstNumbers, Zenon
<1>3. part \in [K -> SUBSET S] /\ \A k \in K : part[k] = InBucket(a, k)
    BY <1>1 DEF InBucket
<1>4. /\ \A k, l \in K : InBucket(a, k) \cap InBucket(a, l) # {} => k = l
      /\ \A i \in S : \E k \in K : i \in InBucket(a, k)
    BY EachInOneBucket
<1>5. \A k \in K : amount[k] = SumFunctionOnSet(f, InBucket(a, k))
                   /\ count[k] = Cardinality(InBucket(a, k))
    OBVIOUS
<1>6. amount \in [K -> Int] /\ count \in [K -> Int]
    OBVIOUS
<1>7. /\ SumFunctionOnSet(amount, K) = SumFunctionOnSet(f, S)
      /\ SumFunctionOnSet(count, K) = Cardinality(S)
    <2> HIDE DEF S, K, f, part
    <2>1. \A k, l \in K : part[k] \cap part[l] # {} => k = l
        BY <1>3, <1>4
    <2>2. \A i \in S : \E k \in K : i \in part[k]
        BY <1>3, <1>4
    <2>3. \A k \in K : amount[k] = SumFunctionOnSet(f, part[k])
                       /\ count[k] = Cardinality(part[k])
        BY <1>3, <1>5
    <2>4. SumFunctionOnSet(amount, K) = SumFunctionOnSet(f, S)
        BY <1>1, <1>2, <1>3, <1>6, <2>1, <2>2, <2>3, SumGrouped
    <2>5. SumFunctionOnSet(count, K) = Cardinality(S)
        BY <1>2, <1>3, <1>6, <2>1, <2>2, <2>3, CountGrouped
    <2> QED BY <2>4, <2>5
<1> QED BY <1>2, <1>7

(* The rest of the collections report.                                     *)
OverdueIn(a) == {i \in DOMAIN a : a[i].days_overdue >= 1}

LEMMA OverdueAddsUp ==
    ASSUME NEW a, NEW n, Aged(a, n)
    PROVE  SumFunctionOnSet(AmountsOf(a), OverdueIn(a))
             = SumFunctionOnSet(AmountsOf(a), 1 .. n)
                 - SumFunctionOnSet(AmountsOf(a), InBucket(a, 1))
<1> DEFINE S == 1 .. n
           f == AmountsOf(a)
           Late == OverdueIn(a)
           Due == InBucket(a, 1)
<1>1. n \in Nat /\ f \in [S -> Int] /\ IsFiniteSet(S)
    <2>1. n \in Nat /\ f \in [S -> Int]
        BY DEF Aged, AmountsOf
    <2> QED BY <2>1, FirstNumbers
<1>2. Late \cup Due = S /\ Late \cap Due = {} /\ Late \in SUBSET S /\ Due \in SUBSET S
    <2>1. 1 \in 1 .. 5 /\ DOMAIN a = S
        BY DEF Aged
    <2> QED BY <2>1, EachInOneBucket DEF OverdueIn, InBucket
<1> HIDE DEF S, f, Late, Due
<1>3. IsFiniteSet(Late) /\ IsFiniteSet(Due)
    BY <1>1, <1>2, FS_Subset
<1>4. SumFunctionOnSet(f, Late \cup Due) = SumFunctionOnSet(f, Late) + SumFunctionOnSet(f, Due)
    BY <1>1, <1>2, <1>3, SumOfBoth
<1>5. SumFunctionOnSet(f, Late) \in Int /\ SumFunctionOnSet(f, Due) \in Int
    BY <1>1, <1>2, <1>3, SumOfMore
<1>6. SumFunctionOnSet(f, Late) = SumFunctionOnSet(f, S) - SumFunctionOnSet(f, Due)
    <2>1. SumFunctionOnSet(f, S) = SumFunctionOnSet(f, Late) + SumFunctionOnSet(f, Due)
        BY <1>2, <1>4, Zenon
    <2> QED BY <1>5, <2>1
<1> QED BY <1>6 DEF S, f, Late, Due

(* Counted by a figure they have: the counts are those of all.             *)
LEMMA TalliesAddUp ==
    ASSUME NEW S, IsFiniteSet(S), NEW f, DOMAIN f = S,
           NEW tally, DOMAIN tally = {f[x] : x \in S},
           \A k \in DOMAIN tally : tally[k] = Cardinality({x \in S : f[x] = k}),
           tally = [k \in DOMAIN tally |-> tally[k]]
    PROVE  SumFunctionOnSet(tally, DOMAIN tally) = Cardinality(S)
<1> DEFINE K == {f[x] : x \in S}
           part == [k \in K |-> {x \in S : f[x] = k}]
<1>1. IsFiniteSet(K)
    BY FiniteValues
<1>2. part \in [K -> SUBSET S] /\ \A k \in K : tally[k] = Cardinality(part[k])
    OBVIOUS
<1>3. \A k, l \in K : part[k] \cap part[l] # {} => k = l
    OBVIOUS
<1>4. \A x \in S : \E k \in K : x \in part[k]
    OBVIOUS
<1>5. DOMAIN tally = K
    OBVIOUS
<1> HIDE DEF K, part
<1>6. tally \in [K -> Int]
    <2>1. \A k \in K : IsFiniteSet(part[k])
        BY <1>2, FS_Subset
    <2>2. \A k \in K : tally[k] \in Int
        BY <1>2, <2>1, FS_CardinalityType
    <2>3. tally = [k \in K |-> tally[k]]
        BY <1>5, Zenon
    <2> QED BY <2>2, <2>3
<1>7. SumFunctionOnSet(tally, K) = Cardinality(S)
    BY <1>1, <1>2, <1>3, <1>4, <1>6, CountGrouped
<1> QED BY <1>5, <1>7

InvoiceRows == Sheets["ar_collections"]["invoices"]

LEMMA AgingLines ==
    ASSUME NEW rows \in Seq(InvoiceRows), NEW p
    PROVE  LET a == AR!compute_aging(rows, AsOf, p)
           IN  Aged(a, Len(rows)) /\ \A i \in DOMAIN rows : a[i].amount = rows[i].amount
<1> DEFINE a == AR!compute_aging(rows, AsOf, p)
<1>1. DOMAIN a = 1 .. Len(rows) /\ Len(rows) \in Nat /\ DOMAIN rows = 1 .. Len(rows)
    BY DEF AR!compute_aging
<1>2. ASSUME NEW i \in 1 .. Len(rows)
      PROVE  /\ a[i].amount = rows[i].amount
             /\ a[i].days_overdue = AsOf - rows[i].due_date
             /\ a[i].bucket = AR!bucket(a[i].days_overdue)
    BY <1>1 DEF AR!compute_aging, AR!InvoiceAging
<1>3. \A i \in 1 .. Len(rows) : rows[i].amount \in Int /\ AsOf - rows[i].due_date \in Int
    <2>1. \A i \in 1 .. Len(rows) : rows[i] \in InvoiceRows
        BY <1>1
    <2> QED BY <2>1, SheetsAssumption, AbsentAssumption DEF InvoiceRows
<1> HIDE DEF a
<1>4. Aged(a, Len(rows)) /\ \A i \in DOMAIN rows : a[i].amount = rows[i].amount
    BY <1>1, <1>2, <1>3 DEF Aged
<1> QED BY <1>4 DEF a

LEMMA AgingHolds == TypeOK => AgingAddsUp
<1> SUFFICES ASSUME TypeOK, agent = "ar_collections" PROVE AgingAddsUp
    BY DEF AgingAddsUp, Is
<1> DEFINE rows == sheets.invoices
           n == Len(rows)
           a == AR!compute_aging(rows, AsOf, policy)
           report == AR!summary(a)
           f == AmountsOf(a)
<1>1. rows \in Seq(InvoiceRows) /\ n \in Nat /\ DOMAIN rows = 1 .. n
    BY SheetsAssumption DEF TypeOK, InvoiceRows
<1>2. Aged(a, n) /\ \A i \in DOMAIN rows : a[i].amount = rows[i].amount
    BY <1>1, AgingLines, Zenon
<1>3. Agings(policy, sheets) = a
    BY DEF Agings
<1> HIDE DEF a, n, rows
<1>4. DOMAIN a = 1 .. n /\ f \in [1 .. n -> Int] /\ IsFiniteSet(1 .. n)
    BY <1>1, <1>2, FirstNumbers DEF Aged, AmountsOf
<1>5. SumOfAmounts(rows) = SumFunctionOnSet(f, 1 .. n)
    <2>1. [i \in DOMAIN rows |-> rows[i].amount] = f /\ DOMAIN f = 1 .. n
        BY <1>1, <1>2, <1>4 DEF AmountsOf
    <2> QED BY <2>1, SumIsOnDomain, Zenon DEF SumOfAmounts
<1>6. /\ report.total_open = SumFunctionOnSet(f, 1 .. n)
      /\ report.total_overdue = SumFunctionOnSet(f, OverdueIn(a))
      /\ DOMAIN report.bucket_breakdown = DOMAIN AR!Buckets
      /\ \A k \in DOMAIN AR!Buckets :
            /\ report.bucket_breakdown[k].amount = SumFunctionOnSet(f, InBucket(a, k))
            /\ report.bucket_breakdown[k].count = Cardinality(InBucket(a, k))
    BY <1>4, AgingSums, SameCount DEF AR!summary, OverdueIn, InBucket, AmountsOf
<1>7. DOMAIN AR!Buckets = 1 .. 5
    BY DEF AR!Buckets
<1> DEFINE amount == [k \in DOMAIN report.bucket_breakdown |-> report.bucket_breakdown[k].amount]
           count == [k \in DOMAIN report.bucket_breakdown |-> report.bucket_breakdown[k].count]
           tone == report.tone_breakdown
<1>8. /\ SumFunction(amount) = SumFunctionOnSet(f, 1 .. n)
      /\ SumFunction(count) = n
    <2>1. \A k \in 1 .. 5 : InBucket(a, k) \in SUBSET (1 .. n) /\ IsFiniteSet(InBucket(a, k))
        <3>1. \A k \in 1 .. 5 : InBucket(a, k) \in SUBSET (1 .. n)
            BY <1>4 DEF InBucket
        <3> QED BY <1>4, <3>1, FS_Subset
    <2>2. \A k \in 1 .. 5 : SumFunctionOnSet(f, InBucket(a, k)) \in Int
        BY <1>4, <2>1, SumOfMore
    <2>3. \A k \in 1 .. 5 : Cardinality(InBucket(a, k)) \in Int
        BY <2>1, FS_CardinalityType
    <2>4. amount \in [1 .. 5 -> Int] /\ count \in [1 .. 5 -> Int]
        <3> HIDE DEF report, f
        <3> QED BY <1>6, <1>7, <2>2, <2>3
    <2>5. \A k \in 1 .. 5 : /\ amount[k] = SumFunctionOnSet(f, InBucket(a, k))
                            /\ count[k] = Cardinality(InBucket(a, k))
        <3> HIDE DEF report, f
        <3> QED BY <1>6, <1>7
    <2>6. DOMAIN amount = 1 .. 5 /\ DOMAIN count = 1 .. 5
        BY <1>6, <1>7
    <2> HIDE DEF amount, count, report
    <2>7. /\ SumFunctionOnSet(amount, 1 .. 5) = SumFunctionOnSet(f, 1 .. n)
          /\ SumFunctionOnSet(count, 1 .. 5) = n
        <3>1. Aged(a, n)
            BY <1>2
        <3>2. /\ amount \in [1 .. 5 -> Int]
              /\ count \in [1 .. 5 -> Int]
            BY <2>4
        <3> QED BY <3>1, <3>2, <2>5, BucketsAddUp
    <2> HIDE DEF f
    <2> QED BY <2>6, <2>7, SumIsOnDomain
<1>9. SumFunction(tone) = report.flagged_count
    <2> DEFINE Flagged == {i \in DOMAIN a : a[i].flagged}
               t == [i \in Flagged |-> a[i].tone_tier]
    <2>1. IsFiniteSet(Flagged)
        <3>1. Flagged \in SUBSET (1 .. n)
            BY <1>4
        <3> QED BY <1>4, <3>1, FS_Subset
    <2>2. tone = [k \in {a[i].tone_tier : i \in Flagged} |->
                     Cardinality({i \in Flagged : a[i].tone_tier = k})]
          /\ report.flagged_count = Cardinality(Flagged)
        BY SameCount DEF AR!summary
    <2>3. \A i \in Flagged : t[i] = a[i].tone_tier
        OBVIOUS
    <2>4. DOMAIN t = Flagged
        OBVIOUS
    <2> HIDE DEF tone, report, Flagged, t
    <2>5. DOMAIN tone = {t[i] : i \in Flagged}
        BY <2>2, <2>3
    <2>6. \A k \in DOMAIN tone : tone[k] = Cardinality({i \in Flagged : t[i] = k})
        <3>1. \A k : {i \in Flagged : t[i] = k} = {i \in Flagged : a[i].tone_tier = k}
            BY <2>3
        <3> QED BY <2>2, <3>1
    <2>7. tone = [k \in DOMAIN tone |-> tone[k]]
        BY <2>2
    <2>8. SumFunctionOnSet(tone, DOMAIN tone) = Cardinality(Flagged)
        BY <2>1, <2>4, <2>5, <2>6, <2>7, TalliesAddUp
    <2> QED BY <2>2, <2>8, SumIsOnDomain
<1>10. report.total_overdue = SumFunctionOnSet(f, 1 .. n) - report.bucket_breakdown[1].amount
    <2>1. report.bucket_breakdown[1].amount = SumFunctionOnSet(f, InBucket(a, 1))
        <3>1. 1 \in DOMAIN AR!Buckets
            BY <1>7
        <3> HIDE DEF report, f
        <3> QED BY <1>6, <3>1
    <2>2. SumFunctionOnSet(f, OverdueIn(a))
            = SumFunctionOnSet(f, 1 .. n) - SumFunctionOnSet(f, InBucket(a, 1))
        BY <1>2, OverdueAddsUp
    <2> HIDE DEF report, f
    <2> QED BY <1>6, <2>1, <2>2
<1> HIDE DEF report, f
<1> QED BY <1>3, <1>5, <1>6, <1>8, <1>9, <1>10 DEF AgingAddsUp, report, n, rows

-----------------------------------------------------------------------------
(* reconciliation: a line is in a pair or an exception.                    *)
LEMMA SideAddsUp ==
    ASSUME NEW rows, NEW n \in Nat, DOMAIN rows = 1 .. n, \A i \in 1 .. n : rows[i].amount \in Int,
           NEW side, NEW matched, \A pair \in matched : pair[side] \in 1 .. n,
           \A p, q \in matched : p[side] = q[side] => p = q,
           NEW exceptions, exceptions[side] = Recon!Unmatched(n, matched, side)
    PROVE  /\ Recon!SideTotal(rows, matched, exceptions, side) = SumOfAmounts(rows)
           /\ SumOfAmounts(rows) \in Int
<1> DEFINE S == 1 .. n
           f == AmountsOf(rows)
           name == [pair \in matched |-> pair[side]]
           Taken == {pair[side] : pair \in matched}
           Free == Recon!Unmatched(n, matched, side)
           g == [pair \in matched |-> rows[pair[side]].amount]
           h == [i \in Free |-> rows[i].amount]
           t == [i \in Taken |-> rows[i].amount]
<1>1. IsFiniteSet(S) /\ f \in [S -> Int] /\ DOMAIN f = S
    BY FirstNumbers DEF AmountsOf
<1>2. SumOfAmounts(rows) = SumFunctionOnSet(f, S)
    BY SumIsOnDomain DEF SumOfAmounts, AmountsOf
<1>3. Taken \cup Free = S /\ Taken \cap Free = {} /\ Taken \in SUBSET S /\ Free \in SUBSET S
    BY DEF Recon!Unmatched
<1>4. g \in [matched -> Int] /\ h \in [Free -> Int] /\ t \in [Taken -> Int]
    BY <1>3
<1>5. /\ name \in [matched -> Taken]
      /\ \A p, q \in matched : name[p] = name[q] => p = q
      /\ \A i \in Taken : \E p \in matched : name[p] = i
      /\ \A p \in matched : g[p] = t[name[p]]
    OBVIOUS
<1>6. (\A i \in Free : h[i] = f[i]) /\ (\A i \in Taken : t[i] = f[i])
    BY <1>3 DEF AmountsOf
<1>7. Recon!SideTotal(rows, matched, exceptions, side)
        = SumFunctionOnSet(g, matched) + SumFunctionOnSet(h, Free)
    <2>1. Recon!SideTotal(rows, matched, exceptions, side)
            = Recon!SumFunction(g) + Recon!SumFunction(h)
        BY DEF Recon!SideTotal
    <2>2. DOMAIN g = matched /\ DOMAIN h = Free
        OBVIOUS
    <2> HIDE DEF g, h, Free
    <2> QED BY <2>1, <2>2, MatchingSums
<1> HIDE DEF S, f, name, Taken, Free, g, h, t
<1>8. IsFiniteSet(Taken) /\ IsFiniteSet(Free)
    BY <1>1, <1>3, FS_Subset
<1>9. IsFiniteSet(matched)
    <2>1. name \in Injection(matched, Taken)
        BY <1>5 DEF Injection, IsInjective
    <2> QED BY <1>8, <2>1, FS_Injection
<1>10. SumFunctionOnSet(g, matched) = SumFunctionOnSet(t, Taken)
    <2>1. \A pair \in matched : g[pair] \in Int
        BY <1>4
    <2> QED BY <1>5, <1>9, <2>1, SumRenamed
<1>11. SumFunctionOnSet(t, Taken) = SumFunctionOnSet(f, Taken)
    <2>1. \A i \in Taken : t[i] \in Int
        BY <1>4
    <2> QED BY <1>6, <1>8, <2>1, SumsAgree
<1>12. SumFunctionOnSet(h, Free) = SumFunctionOnSet(f, Free)
    <2>1. \A i \in Free : h[i] \in Int
        BY <1>4
    <2> QED BY <1>6, <1>8, <2>1, SumsAgree
<1>13. SumFunctionOnSet(f, Taken \cup Free)
         = SumFunctionOnSet(f, Taken) + SumFunctionOnSet(f, Free)
    BY <1>1, <1>3, <1>8, SumOfBoth
<1>14. SumFunctionOnSet(f, S) \in Int
    BY <1>1, SumOfMore
<1>15. SumFunctionOnSet(f, S) = SumFunctionOnSet(f, Taken) + SumFunctionOnSet(f, Free)
    BY <1>3, <1>13, Zenon
<1>16. Recon!SideTotal(rows, matched, exceptions, side) = SumFunctionOnSet(f, S)
    BY <1>7, <1>10, <1>11, <1>12, <1>15
<1> QED BY <1>2, <1>14, <1>16

LEMMA ReconciliationHolds == TypeOK => ReconciliationAddsUp
<1> SUFFICES ASSUME TypeOK, agent = "reconciliation" PROVE ReconciliationAddsUp
    BY DEF ReconciliationAddsUp, Is
<1> DEFINE bank == sheets["bank"]
           ledger == sheets["ledger"]
           days == policy.tolerance_days
           exact == Recon!match_exact(bank, ledger)
           matched == Recon!match_tolerance(bank, ledger, exact, days)
           report == Reconciliation(policy, sheets)
           exceptions == report.exceptions
<1>1. /\ Lines(bank) /\ Lines(ledger) /\ days \in Int
      /\ \A i \in DOMAIN bank : bank[i].amount \in Int
      /\ \A i \in DOMAIN ledger : ledger[i].amount \in Int
    <2>1. /\ bank \in Seq(Sheets["reconciliation"]["bank"])
          /\ ledger \in Seq(Sheets["reconciliation"]["ledger"])
        BY SheetsAssumption DEF TypeOK
    <2>2. \A S : \A s \in Seq(S) : /\ Len(s) \in Nat /\ DOMAIN s = 1 .. Len(s)
                                   /\ \A i \in DOMAIN s : s[i] \in S
        OBVIOUS
    <2>3. Lines(bank) /\ Lines(ledger)
        <3> HIDE DEF bank, ledger
        <3> QED BY <2>1, <2>2, SheetsAssumption DEF Lines
    <2>4. days \in Int
        BY PoliciesAssumption DEF TypeOK
    <2>5. /\ \A i \in DOMAIN bank : bank[i].amount \in Int
          /\ \A i \in DOMAIN ledger : ledger[i].amount \in Int
        <3> HIDE DEF bank, ledger
        <3> QED BY <2>1, <2>2, SheetsAssumption
    <2> QED BY <2>3, <2>4, <2>5
<1>2. matched \in SUBSET PairsOf(bank, ledger) /\ OnceEach(matched)
    <2>1. ExactUpTo(bank, ledger, exact, Len(bank))
        <3> HIDE DEF bank, ledger
        <3> QED BY <1>1, ExactPass
    <2>2. exact \in SUBSET PairsOf(bank, ledger) /\ OnceEach(exact)
        BY <2>1 DEF ExactUpTo
    <2> HIDE DEF bank, ledger, days, exact
    <2> QED BY <1>1, <2>2, NearPass DEF NearUpTo
<1>3. /\ exceptions["bank"] = Recon!Unmatched(Len(bank), matched, "bank")
      /\ exceptions["ledger"] = Recon!Unmatched(Len(ledger), matched, "ledger")
      /\ report.difference = Recon!SideTotal(bank, matched, exceptions, "bank")
                               - Recon!SideTotal(ledger, matched, exceptions, "ledger")
    BY DEF Reconciliation, Recon!ReconciliationReport, Recon!match_transactions
<1> HIDE DEF bank, ledger, days, exact, matched, report, exceptions
<1>4. Recon!SideTotal(bank, matched, exceptions, "bank") = SumOfAmounts(bank)
    <2>1. \A pair \in matched : pair["bank"] \in 1 .. Len(bank)
        BY <1>2 DEF PairsOf
    <2>2. \A p, q \in matched : p["bank"] = q["bank"] => p = q
        BY <1>2 DEF OnceEach
    <2> QED BY <1>1, <1>3, <2>1, <2>2, SideAddsUp DEF Lines
<1>5. Recon!SideTotal(ledger, matched, exceptions, "ledger") = SumOfAmounts(ledger)
    <2>1. \A pair \in matched : pair["ledger"] \in 1 .. Len(ledger)
        BY <1>2 DEF PairsOf
    <2>2. \A p, q \in matched : p["ledger"] = q["ledger"] => p = q
        BY <1>2 DEF OnceEach
    <2> QED BY <1>1, <1>3, <2>1, <2>2, SideAddsUp DEF Lines
<1> QED BY <1>3, <1>4, <1>5 DEF ReconciliationAddsUp, report, bank, ledger

-----------------------------------------------------------------------------
(* Of finitely many numbers one is the highest and one the lowest.         *)
LEMMA Extremes ==
    ASSUME NEW S, IsFiniteSet(S), S \subseteq Int, S # {}
    PROVE  /\ \E m \in S : \A x \in S : x <= m
           /\ \E m \in S : \A x \in S : m <= x
<1> DEFINE Top(T) == \E m \in T : \A x \in T : x <= m
           Bottom(T) == \E m \in T : \A x \in T : m <= x
           Good == {T \in SUBSET S : T = {} \/ (Top(T) /\ Bottom(T))}
<1>1. {} \in Good
    OBVIOUS
<1>2. ASSUME NEW T \in SUBSET S, NEW y \in S \ T, T \in Good PROVE T \cup {y} \in Good
    <2>1. CASE T = {}
        <3>1. T \cup {y} = {y} /\ y \in Int
            BY <2>1
        <3>2. Top(T \cup {y}) /\ Bottom(T \cup {y})
            BY <3>1
        <3> HIDE DEF Top, Bottom
        <3> QED BY <3>2
    <2>2. CASE T # {}
        <3>1. Top(T) /\ Bottom(T)
            BY <1>2, <2>2
        <3>2. Top(T \cup {y})
            <4>1. PICK m \in T : \A x \in T : x <= m
                BY <3>1
            <4>2. m \in Int /\ y \in Int /\ \A x \in T : x \in Int
                OBVIOUS
            <4>3. CASE y <= m
                BY <4>1, <4>3
            <4>4. CASE ~(y <= m)
                <5>1. \A x \in T \cup {y} : x <= y
                    BY <4>1, <4>2, <4>4
                <5> QED BY <5>1
            <4> QED BY <4>3, <4>4
        <3>3. Bottom(T \cup {y})
            <4>1. PICK m \in T : \A x \in T : m <= x
                BY <3>1
            <4>2. m \in Int /\ y \in Int /\ \A x \in T : x \in Int
                OBVIOUS
            <4>3. CASE m <= y
                BY <4>1, <4>3
            <4>4. CASE ~(m <= y)
                <5>1. \A x \in T \cup {y} : y <= x
                    BY <4>1, <4>2, <4>4
                <5> QED BY <5>1
            <4> QED BY <4>3, <4>4
        <3> HIDE DEF Top, Bottom
        <3> QED BY <3>2, <3>3
    <2> QED BY <2>1, <2>2
<1>3. \A T \in SUBSET S : T \in Good
    <2> HIDE DEF Good
    <2> QED BY <1>1, <1>2, AllParts
<1>4. S \in Good
    <2>1. S \in SUBSET S
        OBVIOUS
    <2> HIDE DEF Good
    <2> QED BY <1>3, <2>1
<1> QED BY <1>4

(* close: a line is there for every key of either file, and with no key    *)
(* twice it has the amounts of the rows with its key.                      *)
Keyed(rows) ==
    /\ Len(rows) \in Nat /\ DOMAIN rows = 1 .. Len(rows)
    /\ \A i \in DOMAIN rows : rows[i].amount \in Int
    /\ \A i, j \in DOMAIN rows : rows[i].key = rows[j].key => i = j

LEMMA AmountOfRow ==
    ASSUME NEW rows, Keyed(rows)
    PROVE  /\ \A i \in DOMAIN rows : Close!AmountOf(rows, rows[i].key) = rows[i].amount
           /\ \A key : key \notin Close!Keys(rows) => Close!AmountOf(rows, key) = 0
           /\ \A key : Close!AmountOf(rows, key) \in Int
<1>1. ASSUME NEW i \in DOMAIN rows PROVE Close!AmountOf(rows, rows[i].key) = rows[i].amount
    <2> DEFINE T == {j \in DOMAIN rows : rows[j].key = rows[i].key}
    <2>1. T = {i} /\ i \in Int
        BY DEF Keyed
    <2>2. Close!Max({i}) = i
        BY <2>1 DEF Close!Max
    <2>3. Close!RowOf(rows, rows[i].key) = i
        <3> HIDE DEF T
        <3>1. Close!Max(T) = i
            BY <2>1, <2>2
        <3> QED BY <3>1 DEF Close!RowOf, T
    <2>4. rows[i].key \in Close!Keys(rows)
        BY DEF Close!Keys
    <2> QED BY <2>3, <2>4 DEF Close!AmountOf
<1>2. \A key : key \notin Close!Keys(rows) => Close!AmountOf(rows, key) = 0
    BY DEF Close!AmountOf
<1>3. ASSUME NEW key PROVE Close!AmountOf(rows, key) \in Int
    <2>1. CASE key \in Close!Keys(rows)
        <3>1. PICK i \in DOMAIN rows : key = rows[i].key
            BY <2>1 DEF Close!Keys
        <3> QED BY <1>1, <3>1 DEF Keyed
    <2> QED BY <1>2, <2>1
<1> QED BY <1>1, <1>2, <1>3

(* The amounts by key, over any keys that include a file's own, are those  *)
(* of its rows.                                                            *)
LEMMA AmountsByKey ==
    ASSUME NEW rows, Keyed(rows), NEW K, IsFiniteSet(K), Close!Keys(rows) \subseteq K,
           NEW f, \A key \in K : f[key] = Close!AmountOf(rows, key)
    PROVE  SumFunctionOnSet(f, K) = SumOfAmounts(rows)
<1> DEFINE S == DOMAIN rows
           g == AmountsOf(rows)
           Own == Close!Keys(rows)
           Other == K \ Own
           name == [i \in S |-> rows[i].key]
<1>1. IsFiniteSet(S) /\ (\A i \in S : g[i] \in Int) /\ DOMAIN g = S
    BY FirstNumbers DEF Keyed, AmountsOf
<1>2. SumOfAmounts(rows) = SumFunctionOnSet(g, S)
    BY <1>1, SumIsOnDomain DEF SumOfAmounts, AmountsOf
<1>3. /\ name \in [S -> Own]
      /\ \A i, j \in S : name[i] = name[j] => i = j
      /\ \A key \in Own : \E i \in S : name[i] = key
    BY DEF Close!Keys, Keyed
<1>4. \A i \in S : g[i] = f[name[i]]
    <2>1. ASSUME NEW i \in S PROVE g[i] = f[name[i]]
        <3>1. rows[i].key \in K
            BY DEF Close!Keys
        <3>2. f[rows[i].key] = rows[i].amount
            BY <3>1, AmountOfRow
        <3> QED BY <3>2 DEF AmountsOf
    <2> QED BY <2>1
<1>5. \A key \in K : f[key] \in Int
    BY AmountOfRow
<1>6. \A key \in Other : f[key] = 0 /\ f[key] \in Int
    BY AmountOfRow
<1> HIDE DEF S, g, Own, name
<1>7. SumFunctionOnSet(g, S) = SumFunctionOnSet(f, Own)
    BY <1>1, <1>3, <1>4, SumRenamed
<1>8. /\ Own \cup Other = K /\ Own \cap Other = {} /\ IsFiniteSet(Own) /\ IsFiniteSet(Other)
      /\ \A key \in Own : f[key] \in Int
    <2>1. Own \subseteq K
        BY DEF Own
    <2> QED BY <1>5, <2>1, FS_Subset
<1> HIDE DEF Other
<1>9. SumFunctionOnSet(f, Other) = 0
    BY <1>6, <1>8, SumOfZeros
<1>10. SumFunctionOnSet(f, Own \cup Other) = SumFunctionOnSet(f, Own) + SumFunctionOnSet(f, Other)
    BY <1>6, <1>8, SumOfBoth
<1>11. SumFunctionOnSet(f, Own) \in Int
    BY <1>8, SumOfMore
<1>12. SumFunctionOnSet(f, Own \cup Other) = SumFunctionOnSet(f, Own)
    <2> HIDE DEF Own
    <2> QED BY <1>9, <1>10, <1>11
<1>13. SumFunctionOnSet(f, K) = SumFunctionOnSet(f, Own)
    BY <1>8, <1>12, Zenon
<1> QED BY <1>2, <1>7, <1>13

-----------------------------------------------------------------------------
(* A sum over the lines is one over the keys.                              *)
LineFor(budget, actuals, key, p) == Close!LineVariance(budget, actuals, key, p)

LinesFor(budget, actuals, K, p) == {LineFor(budget, actuals, key, p) : key \in K}

LEMMA LineByKey ==
    ASSUME NEW budget, NEW actuals, NEW key, NEW p
    PROVE  LET lv == LineFor(budget, actuals, key, p)
           IN  /\ lv.key = key
               /\ lv.budget_amount = Close!AmountOf(budget, key)
               /\ lv.actual_amount = Close!AmountOf(actuals, key)
               /\ lv.variance = Close!AmountOf(actuals, key) - Close!AmountOf(budget, key)
BY DEF LineFor, Close!LineVariance

LEMMA SumOverLines ==
    ASSUME NEW budget, NEW actuals, NEW K, IsFiniteSet(K), NEW p, NEW f, NEW h,
           \A key \in K : f[key] \in Int,
           \A key \in K : f[key] = h[LineFor(budget, actuals, key, p)]
    PROVE  SumFunctionOnSet(h, LinesFor(budget, actuals, K, p)) = SumFunctionOnSet(f, K)
<1> DEFINE T == LinesFor(budget, actuals, K, p)
           name == [key \in K |-> LineFor(budget, actuals, key, p)]
<1>1. name \in [K -> T]
    BY DEF LinesFor
<1>2. \A k, l \in K : name[k] = name[l] => k = l
    <2>1. \A k \in K : name[k].key = k
        BY LineByKey
    <2> HIDE DEF name
    <2> QED BY <2>1
<1>3. \A lv \in T : \E k \in K : name[k] = lv
    BY DEF LinesFor
<1>4. \A k \in K : f[k] = h[name[k]]
    OBVIOUS
<1> HIDE DEF T, name
<1>5. SumFunctionOnSet(f, K) = SumFunctionOnSet(h, T)
    BY <1>1, <1>2, <1>3, <1>4, SumRenamed
<1> QED BY <1>5 DEF T

LEMMA KeysAreFinite ==
    ASSUME NEW rows, Keyed(rows)
    PROVE  IsFiniteSet(Close!Keys(rows))
<1> DEFINE S == DOMAIN rows
           f == [i \in S |-> rows[i].key]
<1>1. IsFiniteSet(S) /\ DOMAIN f = S
    BY FirstNumbers DEF Keyed
<1>2. IsFiniteSet({f[i] : i \in S})
    <2> HIDE DEF S, f
    <2> QED BY <1>1, FiniteValues
<1>3. {f[i] : i \in S} = Close!Keys(rows)
    BY DEF Close!Keys
<1> QED BY <1>2, <1>3

Far(lv, report) ==
    /\ lv.variance <= 0 \/ lv.variance <= report.largest_over_budget
    /\ lv.variance >= 0 \/ lv.variance >= report.largest_under_budget

LEMMA NoneIsFurther ==
    ASSUME NEW lines, IsFiniteSet(lines), \A lv \in lines : lv.variance \in Int,
           NEW lv \in lines
    PROVE  Far(lv, Close!summary(lines))
<1> DEFINE Over == {l.variance : l \in {m \in lines : m.variance > 0}}
           Under == {l.variance : l \in {m \in lines : m.variance < 0}}
           All == {l.variance : l \in lines}
           f == [l \in lines |-> l.variance]
           report == Close!summary(lines)
<1>1. IsFiniteSet(All)
    <2>1. DOMAIN f = lines /\ {f[l] : l \in lines} = All
        OBVIOUS
    <2> HIDE DEF f, All
    <2> QED BY <2>1, FiniteValues
<1>2. Over \in SUBSET All /\ Under \in SUBSET All /\ All \subseteq Int
    OBVIOUS
<1>3. IsFiniteSet(Over) /\ IsFiniteSet(Under)
    <2> HIDE DEF Over, Under, All
    <2> QED BY <1>1, <1>2, FS_Subset
<1>4. /\ report.largest_over_budget = IF Over = {} THEN None ELSE Close!Max(Over)
      /\ report.largest_under_budget = IF Under = {} THEN None ELSE Close!Min(Under)
    BY DEF Close!summary
<1>5. (lv.variance > 0 => lv.variance \in Over) /\ (lv.variance < 0 => lv.variance \in Under)
      /\ lv.variance \in Int
    OBVIOUS
<1> HIDE DEF Over, Under, report
<1>6. ASSUME lv.variance > 0 PROVE lv.variance <= report.largest_over_budget
    <2>1. Over # {} /\ Over \subseteq Int
        BY <1>2, <1>5, <1>6
    <2>2. \E m \in Over : \A x \in Over : x <= m
        BY <1>3, <2>1, Extremes
    <2>3. \A x \in Over : Close!Max(Over) >= x
        BY <2>1, <2>2 DEF Close!Max
    <2>4. Close!Max(Over) \in Over
        BY <2>1, <2>2 DEF Close!Max
    <2> QED BY <1>4, <1>5, <1>6, <2>1, <2>3, <2>4
<1>7. ASSUME lv.variance < 0 PROVE lv.variance >= report.largest_under_budget
    <2>1. Under # {} /\ Under \subseteq Int
        BY <1>2, <1>5, <1>7
    <2>2. \E m \in Under : \A x \in Under : m <= x
        BY <1>3, <2>1, Extremes
    <2>3. \A x \in Under : Close!Min(Under) <= x
        BY <2>1, <2>2 DEF Close!Min
    <2>4. Close!Min(Under) \in Under
        BY <2>1, <2>2 DEF Close!Min
    <2> QED BY <1>4, <1>5, <1>7, <2>1, <2>3, <2>4
<1>8. Far(lv, report)
    BY <1>5, <1>6, <1>7 DEF Far
<1> QED BY <1>8 DEF report

LEMMA VarianceTotals ==
    ASSUME NEW budget, NEW actuals, Keyed(budget), Keyed(actuals), NEW p
    PROVE  LET K == Close!Keys(budget) \cup Close!Keys(actuals)
               lines == LinesFor(budget, actuals, K, p)
               report == Close!summary(lines)
           IN  /\ report.total_budget = SumOfAmounts(budget)
               /\ report.total_actual = SumOfAmounts(actuals)
               /\ report.total_variance = SumFunction([lv \in lines |-> lv.variance])
               /\ \A lv \in lines : Far(lv, report)
<1> DEFINE K == Close!Keys(budget) \cup Close!Keys(actuals)
           lines == LinesFor(budget, actuals, K, p)
           report == Close!summary(lines)
           b == [key \in K |-> Close!AmountOf(budget, key)]
           a == [key \in K |-> Close!AmountOf(actuals, key)]
           v == [key \in K |-> Close!AmountOf(actuals, key) - Close!AmountOf(budget, key)]
           lb == [lv \in lines |-> lv.budget_amount]
           la == [lv \in lines |-> lv.actual_amount]
           lvar == [lv \in lines |-> lv.variance]
<1>1. IsFiniteSet(K)
    BY KeysAreFinite, FS_Union
<1>2. \A key : Close!AmountOf(budget, key) \in Int /\ Close!AmountOf(actuals, key) \in Int
    BY AmountOfRow
<1>3. /\ \A key \in K : b[key] \in Int /\ a[key] \in Int /\ v[key] \in Int
      /\ \A key \in K : a[key] = v[key] + b[key]
    BY <1>2
<1>4. \A key \in K : LineFor(budget, actuals, key, p) \in lines
    BY DEF LinesFor
<1>5. \A key \in K : /\ b[key] = lb[LineFor(budget, actuals, key, p)]
                     /\ a[key] = la[LineFor(budget, actuals, key, p)]
                     /\ v[key] = lvar[LineFor(budget, actuals, key, p)]
    <2>1. ASSUME NEW key \in K
          PROVE  /\ b[key] = lb[LineFor(budget, actuals, key, p)]
                 /\ a[key] = la[LineFor(budget, actuals, key, p)]
                 /\ v[key] = lvar[LineFor(budget, actuals, key, p)]
        <3> HIDE DEF K, lines
        <3> QED BY <1>4, LineByKey
    <2> HIDE DEF b, a, v, lb, la, lvar, K
    <2> QED BY <2>1
<1>6. DOMAIN lb = lines /\ DOMAIN la = lines /\ DOMAIN lvar = lines
    OBVIOUS
<1>7. /\ report.total_budget = Close!SumFunction(lb)
      /\ report.total_actual = Close!SumFunction(la)
      /\ report.total_variance = report.total_actual - report.total_budget
    BY DEF Close!summary
<1>8. (\A key \in K : b[key] = Close!AmountOf(budget, key))
      /\ (\A key \in K : a[key] = Close!AmountOf(actuals, key))
      /\ Close!Keys(budget) \subseteq K /\ Close!Keys(actuals) \subseteq K
    OBVIOUS
<1>9. \A lv \in lines : Far(lv, report)
    <2>1. IsFiniteSet(lines)
        <3> DEFINE line == [key \in K |-> LineFor(budget, actuals, key, p)]
        <3>1. DOMAIN line = K /\ {line[key] : key \in K} = lines
            BY DEF LinesFor
        <3> HIDE DEF line, K, lines
        <3> QED BY <1>1, <3>1, FiniteValues
    <2>2. \A lv \in lines : lv.variance \in Int
        <3>1. \A key \in K : LineFor(budget, actuals, key, p).variance \in Int
            BY <1>2, LineByKey
        <3> QED BY <3>1 DEF LinesFor
    <2> HIDE DEF lines
    <2> QED BY <2>1, <2>2, NoneIsFurther
<1> HIDE DEF K, b, a, v, lb, la, lvar, report
<1>10. /\ SumFunctionOnSet(lb, lines) = SumFunctionOnSet(b, K)
       /\ SumFunctionOnSet(la, lines) = SumFunctionOnSet(a, K)
       /\ SumFunctionOnSet(lvar, lines) = SumFunctionOnSet(v, K)
    BY <1>1, <1>3, <1>5, SumOverLines
<1> HIDE DEF lines
<1>11. SumFunctionOnSet(b, K) = SumOfAmounts(budget)
    BY <1>1, <1>8, AmountsByKey
<1>12. SumFunctionOnSet(a, K) = SumOfAmounts(actuals)
    BY <1>1, <1>8, AmountsByKey
<1>13. SumFunctionOnSet(a, K) = SumFunctionOnSet(v, K) + SumFunctionOnSet(b, K)
    BY <1>1, <1>3, SumsAdd
<1>14. SumFunctionOnSet(v, K) \in Int /\ SumFunctionOnSet(b, K) \in Int
    BY <1>1, <1>3, SumOfMore
<1>15. /\ report.total_budget = SumFunctionOnSet(lb, lines)
       /\ report.total_actual = SumFunctionOnSet(la, lines)
       /\ SumFunction(lvar) = SumFunctionOnSet(lvar, lines)
    BY <1>6, <1>7, VarianceSums, SumIsOnDomain
<1>16. report.total_variance = SumFunction(lvar)
    BY <1>7, <1>10, <1>13, <1>14, <1>15
<1>17. report.total_budget = SumOfAmounts(budget) /\ report.total_actual = SumOfAmounts(actuals)
    BY <1>10, <1>11, <1>12, <1>15
<1> QED BY <1>9, <1>16, <1>17 DEF report, lvar, lines, K

LEMMA VariancesHold == TypeOK => VariancesAddUp
<1> SUFFICES ASSUME TypeOK, agent = "close",
                    NoDuplicates(sheets.budget, LAMBDA line : line.key),
                    NoDuplicates(sheets.actuals, LAMBDA line : line.key)
             PROVE  VariancesAddUp
    BY DEF VariancesAddUp, Is
<1>1. Keyed(sheets.budget) /\ Keyed(sheets.actuals)
    <2>1. /\ sheets.budget \in Seq(Sheets["close"]["budget"])
          /\ sheets.actuals \in Seq(Sheets["close"]["actuals"])
        BY SheetsAssumption DEF TypeOK
    <2>2. \A S : \A s \in Seq(S) : /\ Len(s) \in Nat /\ DOMAIN s = 1 .. Len(s)
                                   /\ \A i \in DOMAIN s : s[i] \in S
        OBVIOUS
    <2>3. /\ \A i \in DOMAIN sheets.budget : sheets.budget[i].amount \in Int
          /\ \A i \in DOMAIN sheets.actuals : sheets.actuals[i].amount \in Int
        BY <2>1, <2>2, SheetsAssumption
    <2> QED BY <2>1, <2>2, <2>3 DEF Keyed, NoDuplicates
<1> DEFINE K == Close!Keys(sheets.budget) \cup Close!Keys(sheets.actuals)
           lines == LinesFor(sheets.budget, sheets.actuals, K, policy)
           report == Close!summary(lines)
<1>2. Variances(policy, sheets) = lines
    BY DEF Variances, Close!compute_variances, LinesFor, LineFor
<1>3. /\ report.total_budget = SumOfAmounts(sheets.budget)
      /\ report.total_variance = SumFunction([lv \in lines |-> lv.variance])
      /\ \A lv \in lines : Far(lv, report)
    BY <1>1, VarianceTotals
<1> HIDE DEF lines, report
<1> QED BY <1>2, <1>3 DEF VariancesAddUp, Far, report

-----------------------------------------------------------------------------
(* tax_compliance: a transaction that counts is in the cell of its         *)
(* treatment and side.                                                     *)
Computed(c, n) ==
    /\ n \in Nat /\ DOMAIN c = 1 .. n
    /\ \A i \in 1 .. n :
          /\ c[i].amount \in Int /\ c[i].computed_vat \in Int
          /\ c[i].included_in_totals \in BOOLEAN
          /\ c[i].vat_direction = Tax!Direction(c[i].transaction_type)
          /\ c[i].vat_treatment \in Tax!VAT_TREATMENTS \cup {"unrecognized"}
          /\ c[i].transaction_type \in Tax!Sides \cup {"unrecognized"}
          /\ c[i].included_in_totals <=> /\ c[i].transaction_type # "unrecognized"
                                         /\ c[i].vat_treatment # "unrecognized"

InCell(c, cell) == {i \in DOMAIN c : /\ c[i].included_in_totals
                                     /\ c[i].vat_treatment = cell[1]
                                     /\ c[i].transaction_type = cell[2]}

OnSide(c, side) == {i \in DOMAIN c : c[i].included_in_totals /\ c[i].transaction_type = side}

VatOf(c) == [i \in DOMAIN c |-> c[i].computed_vat]

Cells(side) == {cell \in Tax!VAT_TREATMENTS \X Tax!Sides : cell[2] = side}

LEMMA FiniteCells ==
    ASSUME NEW side \in Tax!Sides
    PROVE  IsFiniteSet(Cells(side))
<1>1. \A x : IsFiniteSet({x})
    BY FS_Singleton
<1>2. IsFiniteSet({"standard-rated"} \cup {"zero-rated"} \cup {"exempt"} \cup {"out-of-scope"})
    BY <1>1, FS_Union
<1>3. IsFiniteSet({"sale"} \cup {"purchase"})
    BY <1>1, FS_Union
<1>4. /\ Tax!VAT_TREATMENTS
           = {"standard-rated"} \cup {"zero-rated"} \cup {"exempt"} \cup {"out-of-scope"}
      /\ Tax!Sides = {"sale"} \cup {"purchase"}
    BY DEF Tax!VAT_TREATMENTS, Tax!Sides
<1>5. IsFiniteSet(Tax!VAT_TREATMENTS) /\ IsFiniteSet(Tax!Sides)
    BY <1>2, <1>3, <1>4, Zenon
<1>6. IsFiniteSet(Tax!VAT_TREATMENTS \X Tax!Sides)
    BY <1>5, FS_Product
<1>7. Cells(side) \in SUBSET (Tax!VAT_TREATMENTS \X Tax!Sides)
    BY DEF Cells
<1> QED BY <1>6, <1>7, FS_Subset

LEMMA CellsOfSide ==
    ASSUME NEW c, NEW n, Computed(c, n), NEW side \in Tax!Sides, NEW vat, NEW count,
           \A cell \in Cells(side) :
              /\ vat[cell] = SumFunctionOnSet(VatOf(c), InCell(c, cell))
              /\ count[cell] = Cardinality(InCell(c, cell))
    PROVE  /\ SumFunctionOnSet(vat, Cells(side)) = SumFunctionOnSet(VatOf(c), OnSide(c, side))
           /\ SumFunctionOnSet(count, Cells(side)) = Cardinality(OnSide(c, side))
<1> DEFINE S == OnSide(c, side)
           K == Cells(side)
           f == VatOf(c)
           part == [cell \in K |-> InCell(c, cell)]
<1>1. IsFiniteSet(K)
    BY FiniteCells
<1>2. IsFiniteSet(S)
    <2>1. S \in SUBSET (1 .. n) /\ IsFiniteSet(1 .. n)
        BY FirstNumbers DEF Computed, OnSide
    <2> QED BY <2>1, FS_Subset
<1>3. \A i \in S : f[i] \in Int
    BY DEF VatOf, Computed, OnSide
<1>4. part \in [K -> SUBSET S] /\ \A cell \in K : part[cell] = InCell(c, cell)
    BY DEF Cells, InCell, OnSide
<1>5. \A k, l \in K : part[k] \cap part[l] # {} => k = l
    <2>1. ASSUME NEW k \in K, NEW l \in K, NEW i \in InCell(c, k) \cap InCell(c, l) PROVE k = l
        BY <2>1 DEF Cells, InCell
    <2> QED BY <1>4, <2>1
<1>6. \A i \in S : \E k \in K : i \in part[k]
    <2>1. ASSUME NEW i \in S PROVE \E k \in K : i \in part[k]
        <3> DEFINE k == <<c[i].vat_treatment, side>>
        <3>1. k \in K /\ i \in InCell(c, k)
            BY DEF OnSide, Cells, InCell, Computed
        <3> QED BY <1>4, <3>1
    <2> QED BY <2>1
<1>7. /\ \A k \in K : vat[k] = SumFunctionOnSet(f, part[k])
      /\ \A k \in K : count[k] = Cardinality(part[k])
    BY <1>4
<1> HIDE DEF S, K, f, part
<1>8. SumFunctionOnSet(vat, K) = SumFunctionOnSet(f, S)
    BY <1>1, <1>2, <1>3, <1>4, <1>5, <1>6, <1>7, SumGrouped
<1>9. SumFunctionOnSet(count, K) = Cardinality(S)
    BY <1>1, <1>2, <1>4, <1>5, <1>6, <1>7, CountGrouped
<1> QED BY <1>8, <1>9 DEF S, K, f

TransactionRows == Sheets["tax_compliance"]["transactions"]

LEMMA TaxRounding == \A k, d : Tax!RoundHalfUp(k, d) = RoundHalfUp(k, d)
BY DEF Tax!RoundHalfUp, RoundHalfUp, Tax!Abs, Abs

ComputedFrom(rows) == [i \in DOMAIN rows |-> Tax!ComputedTransaction(rows[i])]

LEMMA ComputedLines ==
    ASSUME NEW rows \in Seq(TransactionRows)
    PROVE  Computed(ComputedFrom(rows), Len(rows))
<1> DEFINE c == ComputedFrom(rows)
<1>1. DOMAIN c = 1 .. Len(rows) /\ Len(rows) \in Nat /\ DOMAIN rows = 1 .. Len(rows)
    BY DEF ComputedFrom
<1>2. ASSUME NEW i \in 1 .. Len(rows)
      PROVE  /\ c[i].amount \in Int /\ c[i].computed_vat \in Int
             /\ c[i].included_in_totals \in BOOLEAN
             /\ c[i].vat_direction = Tax!Direction(c[i].transaction_type)
             /\ c[i].vat_treatment \in Tax!VAT_TREATMENTS \cup {"unrecognized"}
             /\ c[i].transaction_type \in Tax!Sides \cup {"unrecognized"}
             /\ c[i].included_in_totals <=> /\ c[i].transaction_type # "unrecognized"
                                            /\ c[i].vat_treatment # "unrecognized"
    <2> DEFINE txn == rows[i]
               ttype == Tax!canon_type(txn.transaction_type)
               treatment == Tax!canon_treatment(txn.vat_treatment)
               rate == IF txn.vat_rate = None THEN 0 ELSE txn.vat_rate
    <2>1. txn \in TransactionRows
        BY <1>1
    <2>2. txn.amount \in Int /\ rate \in Int
        BY <2>1, SheetsAssumption DEF TransactionRows
    <2>3. c[i] = Tax!ComputedTransaction(txn)
        BY <1>1 DEF ComputedFrom
    <2>4. /\ ttype = "unrecognized" \/ ttype \in Tax!Sides
          /\ treatment = "unrecognized" \/ treatment \in Tax!VAT_TREATMENTS
        BY DEF Tax!canon_type, Tax!canon_treatment, Tax!Sides, Tax!VAT_TREATMENTS
    <2>5. Tax!RoundHalfUp(txn.amount * rate, Tax!RateScale) \in Int
        <3> DEFINE n == txn.amount * rate
                   d == Tax!RateScale
        <3>1. n \in Int /\ d \in Int \ {0}
            BY <2>2 DEF Tax!RateScale
        <3> HIDE DEF n, d
        <3>2. RoundHalfUp(n, d) \in Int
            BY <3>1, RoundedIsWhole
        <3>3. Tax!RoundHalfUp(n, d) \in Int
            BY <3>2, TaxRounding, Zenon
        <3> QED BY <3>3 DEF n, d
    <2> HIDE DEF txn, c
    <2>6. /\ c[i].amount = txn.amount
          /\ c[i].transaction_type = ttype /\ c[i].vat_treatment = treatment
          /\ c[i].vat_direction = Tax!Direction(ttype)
          /\ c[i].included_in_totals = (ttype # "unrecognized" /\ treatment # "unrecognized")
          /\ c[i].computed_vat \in {Tax!RoundHalfUp(txn.amount * rate, Tax!RateScale), 0}
        BY <2>3 DEF Tax!ComputedTransaction
    <2> HIDE DEF ttype, treatment, rate
    <2>7. c[i].amount \in Int /\ c[i].computed_vat \in Int
        <3> DEFINE vat == Tax!RoundHalfUp(txn.amount * rate, Tax!RateScale)
        <3>1. c[i].computed_vat \in {vat, 0} /\ vat \in Int
            BY <2>5, <2>6
        <3> HIDE DEF vat
        <3> QED BY <2>2, <2>6, <3>1
    <2>8. /\ c[i].vat_treatment \in Tax!VAT_TREATMENTS \cup {"unrecognized"}
          /\ c[i].transaction_type \in Tax!Sides \cup {"unrecognized"}
        BY <2>4, <2>6
    <2>9. c[i].vat_direction = Tax!Direction(c[i].transaction_type)
        BY <2>6
    <2>10. /\ c[i].included_in_totals \in BOOLEAN
           /\ c[i].included_in_totals <=> /\ c[i].transaction_type # "unrecognized"
                                          /\ c[i].vat_treatment # "unrecognized"
        BY <2>6
    <2> QED BY <2>7, <2>8, <2>9, <2>10
<1> HIDE DEF c
<1>3. Computed(c, Len(rows))
    BY <1>1, <1>2 DEF Computed
<1> QED BY <1>3 DEF c

(* A total towards one direction is the sum over that side's cells.        *)
LEMMA TowardsIsSide ==
    ASSUME NEW c, NEW n, Computed(c, n), NEW side \in Tax!Sides
    PROVE  /\ Tax!VatTotal(c, Tax!Direction(side))
                 = SumFunctionOnSet(VatOf(c), OnSide(c, side))
           /\ SumFunctionOnSet(VatOf(c), OnSide(c, side)) \in Int
<1> DEFINE Towards == {i \in DOMAIN c : /\ c[i].included_in_totals
                                        /\ c[i].vat_direction = Tax!Direction(side)}
           f == [i \in Towards |-> c[i].computed_vat]
           h == VatOf(c)
<1>1. Towards = OnSide(c, side)
    BY DEF OnSide, Computed, Tax!Direction, Tax!Sides
<1>2. IsFiniteSet(Towards)
    <2>1. Towards \in SUBSET (1 .. n) /\ IsFiniteSet(1 .. n)
        BY FirstNumbers DEF Computed
    <2> QED BY <2>1, FS_Subset
<1>3. /\ \A i \in Towards : f[i] \in Int
      /\ \A i \in Towards : f[i] = h[i]
      /\ \A i \in Towards : h[i] \in Int
      /\ DOMAIN f = Towards
    BY DEF VatOf, Computed
<1>4. Tax!VatTotal(c, Tax!Direction(side)) = SumFunctionOnSet(f, DOMAIN f)
    BY ProvisionSums DEF Tax!VatTotal
<1> HIDE DEF Towards, f, h
<1>5. SumFunctionOnSet(f, Towards) = SumFunctionOnSet(h, Towards)
    BY <1>2, <1>3, SumsAgree
<1>6. SumFunctionOnSet(h, Towards) \in Int
    BY <1>2, <1>3, SumOfMore
<1>7. SumFunctionOnSet(f, DOMAIN f) = SumFunctionOnSet(h, OnSide(c, side))
    BY <1>1, <1>3, <1>5, Zenon
<1> QED BY <1>1, <1>4, <1>6, <1>7 DEF h

(* The breakdown's figures of a side are those of its cells.               *)
LEMMA CellsInBreakdown ==
    ASSUME NEW c, NEW n, Computed(c, n), NEW cell \in Tax!VAT_TREATMENTS \X Tax!Sides
    PROVE  /\ Tax!breakdown(c)[cell].vat = SumFunctionOnSet(VatOf(c), InCell(c, cell))
           /\ Tax!breakdown(c)[cell].count = Cardinality(InCell(c, cell))
<1> DEFINE In == {i \in DOMAIN c : /\ c[i].included_in_totals
                                   /\ c[i].vat_treatment = cell[1]
                                   /\ c[i].transaction_type = cell[2]}
           f == [i \in In |-> c[i].computed_vat]
           h == VatOf(c)
<1>1. In = InCell(c, cell)
    BY DEF InCell
<1>2. IsFiniteSet(In)
    <2>1. In \in SUBSET (1 .. n) /\ IsFiniteSet(1 .. n)
        BY FirstNumbers DEF Computed
    <2> QED BY <2>1, FS_Subset
<1>3. /\ \A i \in In : f[i] \in Int
      /\ \A i \in In : f[i] = h[i]
      /\ DOMAIN f = In
    BY DEF VatOf, Computed
<1>4. /\ Tax!breakdown(c)[cell].vat = Tax!SumFunction(f)
      /\ Tax!breakdown(c)[cell].count = Tax!Cardinality(In)
    BY DEF Tax!breakdown
<1> HIDE DEF In, f, h
<1>5. SumFunctionOnSet(f, In) = SumFunctionOnSet(h, In)
    BY <1>2, <1>3, SumsAgree
<1>6. Tax!SumFunction(f) = SumFunctionOnSet(h, InCell(c, cell))
    BY <1>1, <1>3, <1>5, ProvisionSums, Zenon
<1>7. Tax!Cardinality(In) = Cardinality(InCell(c, cell))
    BY <1>1, ProvisionSums, Zenon
<1> QED BY <1>4, <1>6, <1>7 DEF h

(* Every transaction is a sale, a purchase or left out.                    *)
LEMMA SidesAndExcluded ==
    ASSUME NEW c, NEW n, Computed(c, n)
    PROVE  Cardinality(OnSide(c, "sale")) + Cardinality(OnSide(c, "purchase"))
             + Cardinality({i \in DOMAIN c : ~c[i].included_in_totals}) = n
<1> DEFINE A == OnSide(c, "sale")
           B == OnSide(c, "purchase")
           E == {i \in DOMAIN c : ~c[i].included_in_totals}
           N == 1 .. n
<1>1. IsFiniteSet(N) /\ Cardinality(N) = n
    BY FirstNumbers DEF Computed
<1>2. A \cup B \cup E = N /\ A \cap B = {} /\ (A \cup B) \cap E = {}
    BY DEF OnSide, Computed, Tax!Sides
<1> HIDE DEF A, B, E, N
<1>3. IsFiniteSet(A) /\ IsFiniteSet(B) /\ IsFiniteSet(E)
    <2>1. A \in SUBSET N /\ B \in SUBSET N /\ E \in SUBSET N
        BY <1>2
    <2> QED BY <1>1, <2>1, FS_Subset
<1>4. IsFiniteSet(A \cup B) /\ Cardinality(A \cup B) = Cardinality(A) + Cardinality(B)
    <2>1. /\ IsFiniteSet(A \cup B)
          /\ Cardinality(A \cup B)
               = Cardinality(A) + Cardinality(B) - Cardinality(A \cap B)
        BY <1>3, FS_Union
    <2>2. Cardinality(A \cap B) = 0
        BY <1>2, FS_EmptySet
    <2>3. Cardinality(A) \in Nat /\ Cardinality(B) \in Nat
        BY <1>3, FS_CardinalityType
    <2> QED BY <2>1, <2>2, <2>3
<1>5. Cardinality(N) = Cardinality(A \cup B) + Cardinality(E)
    <2> DEFINE D == A \cup B
    <2>1. D \cup E = N /\ D \cap E = {} /\ IsFiniteSet(D)
        BY <1>2, <1>4
    <2> HIDE DEF D
    <2>2. Cardinality(D \cup E) = Cardinality(D) + Cardinality(E) - Cardinality(D \cap E)
        BY <2>1, <1>3, FS_Union
    <2>3. Cardinality(D \cap E) = 0
        BY <2>1, FS_EmptySet
    <2>4. Cardinality(D) \in Nat /\ Cardinality(E) \in Nat
        BY <2>1, <1>3, FS_CardinalityType
    <2>5. Cardinality(D \cup E) = Cardinality(N)
        BY <2>1
    <2> QED BY <2>2, <2>3, <2>4, <2>5 DEF D
<1> QED BY <1>1, <1>4, <1>5 DEF A, B, E

LEMMA ProvisionHolds == TypeOK => ProvisionAddsUp
<1> SUFFICES ASSUME TypeOK, Is("tax_compliance") PROVE ProvisionAddsUp
    BY DEF ProvisionAddsUp
<1> DEFINE rows == sheets.transactions
           c == ComputedFrom(rows)
           n == Len(rows)
           report == Provision(policy, sheets)
           Of(side) == {cell \in DOMAIN report.by_treatment : cell[2] = side}
           Side(side, field) ==
               SumFunction([cell \in Of(side) |-> report.by_treatment[cell][field]])
           vat(side) == SumFunctionOnSet(VatOf(c), OnSide(c, side))
           excluded == {i \in DOMAIN c : ~c[i].included_in_totals}
<1>1. rows \in Seq(TransactionRows)
    BY SheetsAssumption DEF TypeOK, Is, TransactionRows
<1>2. Computed(c, n) /\ n \in Nat
    BY <1>1, ComputedLines
<1>3. /\ report.output_vat_total = Tax!VatTotal(c, "output")
      /\ report.input_vat_total = Tax!VatTotal(c, "input")
      /\ report.net_vat = Tax!VatTotal(c, "output") - Tax!VatTotal(c, "input")
      /\ report.by_treatment = Tax!breakdown(c)
      /\ report.excluded = excluded
      /\ (UNION {{i} \X Tax!anomalies(c[i], policy) : i \in DOMAIN c}) \subseteq report.anomalies
    BY DEF Provision, Tax!compute_provision, ComputedFrom
<1>4. DOMAIN report.by_treatment = Tax!VAT_TREATMENTS \X Tax!Sides
    BY <1>3 DEF Tax!breakdown
<1> HIDE DEF c, rows, n, report
<1>5. ASSUME NEW side \in Tax!Sides
      PROVE  /\ Side(side, "vat") = vat(side)
             /\ Side(side, "count") = Cardinality(OnSide(c, side))
    <2> DEFINE V == [cell \in Of(side) |-> report.by_treatment[cell]["vat"]]
               C == [cell \in Of(side) |-> report.by_treatment[cell]["count"]]
    <2>1. Of(side) = Cells(side)
        BY <1>4 DEF Cells
    <2>2. DOMAIN V = Cells(side) /\ DOMAIN C = Cells(side)
        BY <2>1
    <2>3. \A cell \in Cells(side) :
              /\ V[cell] = SumFunctionOnSet(VatOf(c), InCell(c, cell))
              /\ C[cell] = Cardinality(InCell(c, cell))
        <3> SUFFICES ASSUME NEW cell \in Cells(side)
                     PROVE  /\ V[cell] = SumFunctionOnSet(VatOf(c), InCell(c, cell))
                            /\ C[cell] = Cardinality(InCell(c, cell))
            OBVIOUS
        <3>1. cell \in Tax!VAT_TREATMENTS \X Tax!Sides
            BY DEF Cells
        <3>2. /\ Tax!breakdown(c)[cell].vat = SumFunctionOnSet(VatOf(c), InCell(c, cell))
              /\ Tax!breakdown(c)[cell].count = Cardinality(InCell(c, cell))
            BY <1>2, <3>1, CellsInBreakdown
        <3>3. V[cell] = Tax!breakdown(c)[cell].vat /\ C[cell] = Tax!breakdown(c)[cell].count
            BY <1>3, <2>1
        <3> QED BY <3>2, <3>3
    <2>4. Side(side, "vat") = SumFunctionOnSet(V, DOMAIN V)
        BY SumIsOnDomain
    <2>5. Side(side, "count") = SumFunctionOnSet(C, DOMAIN C)
        BY SumIsOnDomain
    <2> HIDE DEF V, C
    <2>6. /\ SumFunctionOnSet(V, Cells(side)) = SumFunctionOnSet(VatOf(c), OnSide(c, side))
          /\ SumFunctionOnSet(C, Cells(side)) = Cardinality(OnSide(c, side))
        BY <1>2, <2>3, CellsOfSide
    <2> QED BY <2>2, <2>4, <2>5, <2>6
<1>6. /\ "sale" \in Tax!Sides /\ "purchase" \in Tax!Sides
      /\ Tax!Direction("sale") = "output" /\ Tax!Direction("purchase") = "input"
    BY DEF Tax!Sides, Tax!Direction
<1>7. /\ Tax!VatTotal(c, "output") = vat("sale") /\ vat("sale") \in Int
      /\ Tax!VatTotal(c, "input") = vat("purchase") /\ vat("purchase") \in Int
    BY <1>2, <1>6, TowardsIsSide
<1>8. report.net_vat = Side("sale", "vat") - Side("purchase", "vat")
    BY <1>3, <1>5, <1>6, <1>7
<1>9. Side("sale", "count") + Side("purchase", "count") + Cardinality(report.excluded) = Len(rows)
    <2>1. Cardinality(OnSide(c, "sale")) + Cardinality(OnSide(c, "purchase"))
             + Cardinality(excluded) = n
        BY <1>2, SidesAndExcluded
    <2> QED BY <1>3, <1>5, <1>6, <2>1 DEF n
<1>10. report.output_vat_total - report.input_vat_total = report.net_vat
    BY <1>3
<1>11. \A i \in report.excluded : \E a \in report.anomalies : a[1] = i
    <2> SUFFICES ASSUME NEW i \in report.excluded
                 PROVE  \E a \in report.anomalies : a[1] = i
        OBVIOUS
    <2>1. i \in DOMAIN c /\ ~c[i].included_in_totals
        BY <1>3
    <2>2. c[i].transaction_type = "unrecognized" \/ c[i].vat_treatment = "unrecognized"
        BY <1>2, <2>1 DEF Computed
    <2>3. PICK code \in Tax!anomalies(c[i], policy) : TRUE
        BY <2>2 DEF Tax!anomalies
    <2>4. <<i, code>> \in UNION {{j} \X Tax!anomalies(c[j], policy) : j \in DOMAIN c}
        BY <2>1, <2>3
    <2>5. <<i, code>> \in report.anomalies
        BY <1>3, <2>4
    <2> QED BY <2>5
<1>12. /\ report.net_vat = Side("sale", "vat") - Side("purchase", "vat")
       /\ Side("sale", "count") + Side("purchase", "count")
            + Cardinality(report.excluded) = Len(sheets.transactions)
       /\ report.output_vat_total - report.input_vat_total = report.net_vat
       /\ \A i \in report.excluded : \E a \in report.anomalies : a[1] = i
    BY <1>8, <1>9, <1>10, <1>11 DEF rows
<1> QED BY <1>12 DEF ProvisionAddsUp, report

-----------------------------------------------------------------------------
(* fpa: powers of whole numbers are whole.                                 *)
IsPower(p, base, n) ==
    p = [k \in 0 .. n |-> IF k = 0 THEN 1 ELSE base * p[k - 1]]

LEMMA PowersExist ==
    ASSUME NEW base, NEW n \in Nat
    PROVE  \E p : IsPower(p, base, n)
<1> DEFINE Good == {m \in Nat : \E p : IsPower(p, base, m)}
<1>1. 0 \in Good
    <2>1. IsPower([k \in 0 .. 0 |-> 1], base, 0)
        BY DEF IsPower
    <2> QED BY <2>1
<1>2. \A m \in 1 .. n : m - 1 \in Good => m \in Good
    <2> SUFFICES ASSUME NEW m \in 1 .. n, m - 1 \in Good PROVE m \in Good
        OBVIOUS
    <2>1. PICK p : IsPower(p, base, m - 1)
        OBVIOUS
    <2> DEFINE q == [k \in 0 .. m |-> IF k = 0 THEN 1 ELSE base * p[k - 1]]
    <2>2. \A k \in 0 .. m - 1 : q[k] = p[k]
        BY <2>1 DEF IsPower
    <2>3. q = [k \in 0 .. m |-> IF k = 0 THEN 1 ELSE base * q[k - 1]]
        <3>1. \A k \in 0 .. m : k # 0 => q[k - 1] = p[k - 1]
            <4> HIDE DEF q
            <4>1. \A k \in 0 .. m : k # 0 => k - 1 \in 0 .. m - 1
                OBVIOUS
            <4> QED BY <2>2, <4>1
        <3> DEFINE r == [k \in 0 .. m |-> IF k = 0 THEN 1 ELSE base * q[k - 1]]
        <3>2. \A k \in 0 .. m : q[k] = r[k]
            BY <3>1
        <3>3. DOMAIN q = 0 .. m /\ DOMAIN r = 0 .. m /\ q = [k \in 0 .. m |-> q[k]]
              /\ r = [k \in 0 .. m |-> r[k]]
            OBVIOUS
        <3> HIDE DEF q, r
        <3>4. q = r
            BY <3>2, <3>3
        <3> QED BY <3>4 DEF r
    <2> HIDE DEF q
    <2>4. IsPower(q, base, m)
        BY <2>3 DEF IsPower
    <2> QED BY <2>4
<1> HIDE DEF Good
<1>3. \A m \in 0 .. n : m \in Good
    BY <1>1, <1>2, AllReached
<1> QED BY <1>3 DEF Good

LEMMA PowerIsOne ==
    ASSUME NEW base, NEW n \in Nat
    PROVE  \E p : IsPower(p, base, n) /\ Power(base, n) = p[n]
<1>1. PICK p : IsPower(p, base, n)
    BY PowersExist
<1> DEFINE q == CHOOSE r : IsPower(r, base, n)
<1>2. IsPower(q, base, n)
    BY <1>1
<1>3. Power(base, n) = q[n]
    BY DEF Power, IsPower
<1> HIDE DEF q
<1> QED BY <1>2, <1>3

LEMMA PowerIsWhole ==
    ASSUME NEW base \in Int, NEW n \in Nat
    PROVE  Power(base, n) \in Int
<1>1. PICK p : IsPower(p, base, n) /\ Power(base, n) = p[n]
    BY PowerIsOne
<1> DEFINE Good == {k \in 0 .. n : p[k] \in Int}
<1>2. 0 \in Good
    BY <1>1 DEF IsPower
<1>3. \A k \in 1 .. n : k - 1 \in Good => k \in Good
    BY <1>1 DEF IsPower
<1> HIDE DEF Good
<1>4. \A k \in 0 .. n : k \in Good
    BY <1>2, <1>3, AllReached
<1> QED BY <1>1, <1>4 DEF Good

LEMMA ScalesAreNotZero ==
    ASSUME NEW n \in Nat
    PROVE  Power(RateScale, n) \in Int \ {0}
<1>1. PICK p : IsPower(p, RateScale, n) /\ Power(RateScale, n) = p[n]
    BY PowerIsOne
<1> DEFINE Good == {k \in 0 .. n : p[k] \in Int \ {0}}
<1>2. 0 \in Good
    BY <1>1 DEF IsPower
<1>3. \A k \in 1 .. n : k - 1 \in Good => k \in Good
    BY <1>1 DEF IsPower, RateScale
<1> HIDE DEF Good
<1>4. \A k \in 0 .. n : k \in Good
    BY <1>2, <1>3, AllReached
<1> QED BY <1>1, <1>4 DEF Good

LEMMA ForecastNumbers ==
    /\ \A n, d : Fpa!RoundHalfUp(n, d) = RoundHalfUp(n, d)
    /\ \A base, n : Fpa!Power(base, n) = Power(base, n)
    /\ Fpa!RateScale = RateScale
BY DEF Fpa!RoundHalfUp, RoundHalfUp, Fpa!Abs, Abs, Fpa!Power, Power, Fpa!RateScale, RateScale

-----------------------------------------------------------------------------
(* Every line of the history has a newest row.                             *)
HistoryRows == Sheets["fpa"]["history"]

Dated(rows) ==
    /\ rows \in Seq(HistoryRows)
    /\ \A i \in DOMAIN rows : rows[i].period \in Int /\ rows[i].amount \in Int

LEMMA HistoryIsDated ==
    ASSUME TypeOK, Is("fpa"), ~Fpa!Refused(sheets.history, policy)
    PROVE  /\ Dated(sheets.history) /\ policy \in Policies["fpa"]
           /\ policy.horizon \in Nat \ {0}
<1>1. sheets.history \in Seq(HistoryRows) /\ policy \in Policies["fpa"]
    BY SheetsAssumption DEF TypeOK, Is, HistoryRows
<1>2. \A i \in DOMAIN sheets.history : sheets.history[i] \in HistoryRows
    BY <1>1
<1>3. \A row \in HistoryRows : row.period \in Int \cup {Unreadable} /\ row.amount \in Int
    BY SheetsAssumption DEF HistoryRows
<1>4. \A i \in DOMAIN sheets.history : sheets.history[i].period # Unreadable
    BY DEF Fpa!Refused, Fpa!Periods
<1>5. policy.horizon \in Int /\ ~(policy.horizon < 1)
    BY <1>1, PoliciesAssumption DEF Fpa!Refused
<1> QED BY <1>1, <1>2, <1>3, <1>4, <1>5 DEF Dated

LEMMA NewestRow ==
    ASSUME NEW rows, Dated(rows), NEW key \in Fpa!Keys(rows)
    PROVE  /\ Fpa!BaseRow(rows, key) \in Fpa!Rows(rows, key)
           /\ \A j \in Fpa!Rows(rows, key) :
                 rows[j].period <= rows[Fpa!BaseRow(rows, key)].period
           /\ Fpa!BaseRow(rows, key) \in DOMAIN rows
<1> DEFINE R == Fpa!Rows(rows, key)
           S == {i \in DOMAIN rows : rows[i].key = key}
           P == {rows[i].period : i \in R}
<1>1. DOMAIN rows = 1 .. Len(rows) /\ Len(rows) \in Nat
    BY DEF Dated
<1>2. IsFiniteSet(DOMAIN rows) /\ DOMAIN rows \subseteq Int
    BY <1>1, FirstNumbers
<1>3. S # {} /\ S \in SUBSET DOMAIN rows
    BY DEF Fpa!Keys
<1>4. IsFiniteSet(S) /\ S \subseteq Int
    BY <1>2, <1>3, FS_Subset
<1>5. PICK m \in S : \A i \in S : i <= m
    <2> HIDE DEF S
    <2> QED BY <1>3, <1>4, Extremes
<1>6. m \in R
    BY <1>4, <1>5, <1>2 DEF Fpa!Rows
<1>7. R \in SUBSET DOMAIN rows
    BY DEF Fpa!Rows
<1>8. IsFiniteSet(R)
    BY <1>2, <1>7, FS_Subset
<1>9. IsFiniteSet(P)
    <2> DEFINE f == [i \in R |-> rows[i].period]
    <2>1. DOMAIN f = R /\ P = {f[x] : x \in R}
        OBVIOUS
    <2> HIDE DEF f, R, P
    <2>2. IsFiniteSet({f[x] : x \in R})
        BY <1>8, <2>1, FiniteValues
    <2> QED BY <2>1, <2>2
<1>10. P # {} /\ P \subseteq Int
    BY <1>6, <1>7 DEF Dated
<1>11. PICK newest \in P : \A x \in P : x <= newest
    <2> HIDE DEF P
    <2> QED BY <1>9, <1>10, Extremes
<1>12. \E i \in R : \A j \in R : rows[j].period <= rows[i].period
    BY <1>11
<1>13. /\ Fpa!BaseRow(rows, key) \in R
       /\ \A j \in R : rows[j].period <= rows[Fpa!BaseRow(rows, key)].period
    BY <1>12 DEF Fpa!BaseRow
<1> QED BY <1>7, <1>13

(* A line of the report and what it counts for.                            *)
Projected(rows, p, key, k) ==
    Fpa!ProjectedLine(rows, key, k, Fpa!Max(Fpa!Periods(rows)), p)

LEMMA RateIsWhole ==
    ASSUME NEW p \in Policies["fpa"], NEW category
    PROVE  Fpa!Rate(category, p) \in Int
<1>1. p.default_growth \in Int
      /\ \A c \in DOMAIN p.category_growth : p.category_growth[c] \in Int
    BY PoliciesAssumption
<1> QED BY <1>1 DEF Fpa!Rate

LEMMA LineOfKey ==
    ASSUME NEW rows, Dated(rows), NEW p \in Policies["fpa"],
           NEW key \in Fpa!Keys(rows), NEW k \in Nat
    PROVE  /\ Projected(rows, p, key, k).key = key
           /\ Projected(rows, p, key, k).period_index = k
           /\ Projected(rows, p, key, k).base_amount \in Int
           /\ Projected(rows, p, key, k).projected_amount \in Int
<1> DEFINE pl == Projected(rows, p, key, k)
           base == rows[Fpa!BaseRow(rows, key)]
           rate == Fpa!Rate(Fpa!Category(rows, key), p)
           n == base.amount * Fpa!Power(Fpa!RateScale + rate, k)
           d == Fpa!Power(Fpa!RateScale, k)
<1>1. base.amount \in Int
    BY NewestRow DEF Dated
<1>2. /\ pl.key = key /\ pl.period_index = k /\ pl.base_amount = base.amount
      /\ pl.projected_amount = Fpa!RoundHalfUp(n, d)
    BY DEF Projected, Fpa!ProjectedLine
<1>3. Fpa!RateScale + rate \in Int
    <2>1. rate \in Int
        BY RateIsWhole
    <2> HIDE DEF rate
    <2> QED BY <2>1 DEF Fpa!RateScale
<1>4. n \in Int /\ d \in Int \ {0}
    <2> DEFINE scaled == Fpa!RateScale + rate
    <2>1. Power(scaled, k) \in Int
        BY <1>3, PowerIsWhole
    <2>2. Fpa!Power(scaled, k) \in Int
        BY <2>1, ForecastNumbers, Zenon
    <2>3. n \in Int
        <3> HIDE DEF base, scaled
        <3> QED BY <1>1, <2>2 DEF scaled
    <2>4. d \in Int \ {0}
        BY ScalesAreNotZero, ForecastNumbers
    <2> QED BY <2>3, <2>4
<1> HIDE DEF n, d
<1>5. RoundHalfUp(n, d) \in Int
    BY <1>4, RoundedIsWhole
<1>6. Fpa!RoundHalfUp(n, d) \in Int
    BY <1>5, ForecastNumbers, Zenon
<1> HIDE DEF pl, base
<1>7. /\ pl.key = key /\ pl.period_index = k
      /\ pl.base_amount \in Int /\ pl.projected_amount \in Int
    BY <1>1, <1>2, <1>6
<1> QED BY <1>7 DEF pl

LEMMA LinesOfReport ==
    ASSUME NEW rows, NEW p, ~Fpa!Refused(rows, p)
    PROVE  Fpa!project_forecast(rows, p)
             = {Projected(rows, p, key, k) : key \in Fpa!Keys(rows), k \in 1 .. p.horizon}
BY DEF Fpa!project_forecast, Projected

-----------------------------------------------------------------------------
(* As many lines as keys, over and over for each period of the horizon.    *)
LEMMA KeysOfHistory ==
    ASSUME NEW rows, Dated(rows)
    PROVE  IsFiniteSet(Fpa!Keys(rows))
<1> DEFINE f == [i \in DOMAIN rows |-> rows[i].key]
           S == DOMAIN rows
<1>1. IsFiniteSet(S)
    BY FirstNumbers DEF Dated
<1>2. DOMAIN f = S /\ Fpa!Keys(rows) = {f[x] : x \in S}
    BY DEF Fpa!Keys
<1> HIDE DEF f, S
<1>3. IsFiniteSet({f[x] : x \in S})
    BY <1>1, <1>2, FiniteValues
<1> QED BY <1>2, <1>3

IsReport(lines, rows, p) ==
    lines = {Projected(rows, p, key, k) : key \in Fpa!Keys(rows), k \in 1 .. p.horizon}

LEMMA LineCounts ==
    ASSUME NEW rows, Dated(rows), NEW p \in Policies["fpa"], p.horizon \in Nat \ {0},
           NEW lines, IsReport(lines, rows, p)
    PROVE  /\ IsFiniteSet(lines)
           /\ Cardinality(lines) = p.horizon * Cardinality({pl.key : pl \in lines})
<1> DEFINE K == Fpa!Keys(rows)
           H == 1 .. p.horizon
           S == K \X H
           f == [x \in S |-> Projected(rows, p, x[1], x[2])]
<1>1. IsFiniteSet(K) /\ IsFiniteSet(H) /\ Cardinality(H) = p.horizon
    BY KeysOfHistory, FirstNumbers
<1>2. IsFiniteSet(S) /\ Cardinality(S) = Cardinality(K) * p.horizon
    BY <1>1, FS_Product
<1>3. \A key \in K, k \in H : /\ Projected(rows, p, key, k).key = key
                              /\ Projected(rows, p, key, k).period_index = k
    BY LineOfKey
<1>4. \A x \in S : f[x] \in lines /\ f[x].key = x[1] /\ f[x].period_index = x[2]
    BY <1>3 DEF IsReport
<1>5. \A y \in lines : \E x \in S : f[x] = y
    <2> SUFFICES ASSUME NEW y \in lines PROVE \E x \in S : f[x] = y
        OBVIOUS
    <2>1. PICK key \in K, k \in H : y = Projected(rows, p, key, k)
        BY DEF IsReport
    <2>2. <<key, k>> \in S /\ f[<<key, k>>] = Projected(rows, p, key, k)
        OBVIOUS
    <2> QED BY <2>1, <2>2
<1>6. \A x, y \in S : f[x] = f[y] => x = y
    <2> SUFFICES ASSUME NEW x \in S, NEW y \in S, f[x] = f[y] PROVE x = y
        OBVIOUS
    <2>1. x[1] = y[1] /\ x[2] = y[2]
        BY <1>4
    <2> QED BY <2>1
<1>7. f \in [S -> lines] /\ f \in Bijection(S, lines)
    <2>1. f \in [S -> lines]
        BY <1>4
    <2> HIDE DEF f, S
    <2> QED BY <2>1, <1>5, <1>6 DEF Bijection, Injection, Surjection, IsInjective
<1>8. ExistsBijection(S, lines)
    BY <1>7 DEF ExistsBijection
<1>9. IsFiniteSet(lines) /\ Cardinality(lines) = Cardinality(S)
    <2> HIDE DEF S
    <2> QED BY <1>2, <1>8, FS_Bijection
<1>10. {pl.key : pl \in lines} = K
    <2>1. \A pl \in lines : pl.key \in K
        <3>1. \A x \in S : x[1] \in K
            OBVIOUS
        <3> HIDE DEF f, S, K
        <3> QED BY <1>4, <1>5, <3>1
    <2>2. \A key \in K : \E pl \in lines : pl.key = key
        <3> SUFFICES ASSUME NEW key \in K PROVE \E pl \in lines : pl.key = key
            OBVIOUS
        <3>1. 1 \in H
            OBVIOUS
        <3>2. <<key, 1>> \in S /\ f[<<key, 1>>] \in lines /\ f[<<key, 1>>].key = key
            BY <1>4, <3>1
        <3> QED BY <3>2
    <2> QED BY <2>1, <2>2
<1>11. Cardinality(K) \in Nat /\ p.horizon \in Nat
    BY <1>1, FS_CardinalityType
<1> DEFINE many == Cardinality(K)
<1>12. Cardinality(lines) = many * p.horizon /\ many = Cardinality({pl.key : pl \in lines})
    BY <1>2, <1>9, <1>10
<1> HIDE DEF S, K, many
<1>13. many \in Nat
    BY <1>11 DEF many
<1>14. many * p.horizon = p.horizon * many
    BY <1>11, <1>13
<1> QED BY <1>9, <1>12, <1>14

(* The lines' categories share them out.                                   *)
Shared(lines, final, K, part) ==
    /\ K = {pl.category : pl \in lines}
    /\ part = [c \in K |-> {pl \in final : pl.category = c}]

LEMMA CategoriesAddUp ==
    ASSUME NEW lines, IsFiniteSet(lines), NEW final \in SUBSET lines,
           NEW f, \A pl \in lines : f[pl] \in Int,
           NEW K, NEW part, Shared(lines, final, K, part),
           NEW h, \A c \in K : h[c] = SumFunctionOnSet(f, part[c])
    PROVE  SumFunctionOnSet(h, K) = SumFunctionOnSet(f, final)
<1>1. IsFiniteSet(K)
    <2> DEFINE g == [pl \in lines |-> pl.category]
    <2>1. DOMAIN g = lines /\ K = {g[x] : x \in lines}
        BY DEF Shared
    <2> HIDE DEF g
    <2>2. IsFiniteSet({g[x] : x \in lines})
        BY <2>1, FiniteValues
    <2> QED BY <2>1, <2>2
<1>2. IsFiniteSet(final) /\ \A pl \in final : f[pl] \in Int
    BY FS_Subset
<1>3. /\ part \in [K -> SUBSET final]
      /\ \A k, l \in K : part[k] \cap part[l] # {} => k = l
      /\ \A pl \in final : \E k \in K : pl \in part[k]
    BY DEF Shared
<1> QED BY <1>1, <1>2, <1>3, SumGrouped

LEMMA ForecastHolds == TypeOK => ForecastAddsUp
<1> SUFFICES ASSUME TypeOK, Is("fpa"), Projection(policy, sheets) # ValueError
             PROVE  ForecastAddsUp
    BY DEF ForecastAddsUp
<1> DEFINE rows == sheets.history
           lines == Projection(policy, sheets)
           final == {pl \in lines : pl.period_index = policy.horizon}
           Of(c) == {pl \in final : pl.category = c}
           report == Fpa!summary(lines, policy.horizon)
           Categories == DOMAIN report.by_category
           base == [pl \in lines |-> pl.base_amount]
           projected == [pl \in lines |-> pl.projected_amount]
<1>1. ~Fpa!Refused(rows, policy)
    BY DEF Projection, Fpa!project_forecast
<1>2. Dated(rows) /\ policy \in Policies["fpa"] /\ policy.horizon \in Nat \ {0}
    BY <1>1, HistoryIsDated
<1>3. lines = {Projected(rows, policy, key, k) :
                  key \in Fpa!Keys(rows), k \in 1 .. policy.horizon}
    BY <1>1, LinesOfReport DEF Projection
<1>4. /\ IsFiniteSet(lines)
      /\ Cardinality(lines) = policy.horizon * Cardinality({pl.key : pl \in lines})
    <2>1. IsReport(lines, rows, policy)
        BY <1>3 DEF IsReport
    <2> HIDE DEF lines, rows
    <2> QED BY <1>2, <2>1, LineCounts
<1>5. \A pl \in lines : pl.base_amount \in Int /\ pl.projected_amount \in Int
    <2> SUFFICES ASSUME NEW key \in Fpa!Keys(rows), NEW k \in 1 .. policy.horizon
                 PROVE  /\ Projected(rows, policy, key, k).base_amount \in Int
                        /\ Projected(rows, policy, key, k).projected_amount \in Int
        BY <1>3
    <2> QED BY <1>2, LineOfKey
<1> HIDE DEF lines
<1>6. report.row_count = policy.horizon * report.line_count
    BY <1>4, ForecastSums DEF Fpa!summary
<1>7. ASSUME NEW some \in SUBSET lines
      PROVE  /\ Fpa!SumFunction([pl \in some |-> pl.base_amount]) = SumFunctionOnSet(base, some)
             /\ Fpa!SumFunction([pl \in some |-> pl.projected_amount])
                  = SumFunctionOnSet(projected, some)
    <2> DEFINE b == [pl \in some |-> pl.base_amount]
               j == [pl \in some |-> pl.projected_amount]
    <2>1. IsFiniteSet(some)
        BY <1>4, FS_Subset
    <2>2. /\ DOMAIN b = some /\ DOMAIN j = some
          /\ \A pl \in some : b[pl] \in Int /\ b[pl] = base[pl]
          /\ \A pl \in some : j[pl] \in Int /\ j[pl] = projected[pl]
        BY <1>5
    <2>3. /\ Fpa!SumFunction(b) = SumFunctionOnSet(b, DOMAIN b)
          /\ Fpa!SumFunction(j) = SumFunctionOnSet(j, DOMAIN j)
        BY ForecastSums
    <2> HIDE DEF b, j, base, projected
    <2>4. /\ SumFunctionOnSet(b, some) = SumFunctionOnSet(base, some)
          /\ SumFunctionOnSet(j, some) = SumFunctionOnSet(projected, some)
        BY <2>1, <2>2, SumsAgree
    <2>5. /\ Fpa!SumFunction(b) = SumFunctionOnSet(base, some)
          /\ Fpa!SumFunction(j) = SumFunctionOnSet(projected, some)
        BY <2>2, <2>3, <2>4
    <2> QED BY <2>5 DEF b, j
<1>8. /\ Categories = {pl.category : pl \in lines}
      /\ report.total_base = Fpa!SumFunction([pl \in final |-> pl.base_amount])
      /\ report.total_projected_final
           = Fpa!SumFunction([pl \in final |-> pl.projected_amount])
      /\ \A c \in Categories :
            /\ report.by_category[c].base = Fpa!SumFunction([pl \in Of(c) |-> pl.base_amount])
            /\ report.by_category[c].final
                 = Fpa!SumFunction([pl \in Of(c) |-> pl.projected_amount])
    BY DEF Fpa!summary
<1>9. final \in SUBSET lines /\ \A c : Of(c) \in SUBSET lines
    OBVIOUS
<1> HIDE DEF report, base, projected
<1>10. /\ report.total_base = SumFunctionOnSet(base, final)
       /\ report.total_projected_final = SumFunctionOnSet(projected, final)
    <2> HIDE DEF final
    <2> QED BY <1>7, <1>8, <1>9
<1>11. \A c \in Categories :
            /\ report.by_category[c].base = SumFunctionOnSet(base, Of(c))
            /\ report.by_category[c].final = SumFunctionOnSet(projected, Of(c))
    <2> SUFFICES ASSUME NEW c \in Categories
                 PROVE  /\ report.by_category[c].base = SumFunctionOnSet(base, Of(c))
                        /\ report.by_category[c].final = SumFunctionOnSet(projected, Of(c))
        OBVIOUS
    <2> DEFINE some == Of(c)
    <2>1. some \in SUBSET lines
        BY <1>9
    <2> HIDE DEF some
    <2>2. /\ Fpa!SumFunction([pl \in some |-> pl.base_amount]) = SumFunctionOnSet(base, some)
          /\ Fpa!SumFunction([pl \in some |-> pl.projected_amount])
               = SumFunctionOnSet(projected, some)
        BY <1>7, <2>1
    <2> QED BY <1>8, <2>2 DEF some
<1> DEFINE B == [c \in Categories |-> report.by_category[c].base]
           F == [c \in Categories |-> report.by_category[c].final]
<1>12. /\ SumFunction(B) = SumFunctionOnSet(B, DOMAIN B) /\ DOMAIN B = Categories
       /\ SumFunction(F) = SumFunctionOnSet(F, DOMAIN F) /\ DOMAIN F = Categories
       /\ \A c \in Categories : /\ B[c] = SumFunctionOnSet(base, Of(c))
                                /\ F[c] = SumFunctionOnSet(projected, Of(c))
    BY <1>11, SumIsOnDomain
<1>13. \A pl \in lines : base[pl] \in Int /\ projected[pl] \in Int
    BY <1>5 DEF base, projected
<1> HIDE DEF B, F
<1> DEFINE part == [c \in Categories |-> Of(c)]
<1>14. /\ SumFunctionOnSet(B, Categories) = SumFunctionOnSet(base, final)
       /\ SumFunctionOnSet(F, Categories) = SumFunctionOnSet(projected, final)
    <2>1. \A c \in Categories : /\ B[c] = SumFunctionOnSet(base, part[c])
                                /\ F[c] = SumFunctionOnSet(projected, part[c])
        BY <1>12
    <2>2. IsFiniteSet(lines) /\ final \in SUBSET lines
        BY <1>4
    <2>3. Shared(lines, final, Categories, part)
        BY <1>8 DEF Shared
    <2> HIDE DEF final, part, Categories
    <2>4. SumFunctionOnSet(B, Categories) = SumFunctionOnSet(base, final)
        BY <1>13, <2>1, <2>2, <2>3, CategoriesAddUp
    <2>5. SumFunctionOnSet(F, Categories) = SumFunctionOnSet(projected, final)
        BY <1>13, <2>1, <2>2, <2>3, CategoriesAddUp
    <2> QED BY <2>4, <2>5
<1>15. SumFunction(B) = report.total_base /\ SumFunction(F) = report.total_projected_final
    BY <1>10, <1>12, <1>14
<1> QED BY <1>6, <1>15 DEF ForecastAddsUp, report, B, F, lines

-----------------------------------------------------------------------------
(* ap: sums of figures that are not negative, and of figures a hundred     *)
(* times as high.                                                          *)
LEMMA SumNotNegative ==
    ASSUME NEW f, NEW S, IsFiniteSet(S), \A x \in S : f[x] \in Int,
           \A x \in S : f[x] >= 0
    PROVE  \A T \in SUBSET S : SumFunctionOnSet(f, T) >= 0
<1> DEFINE Good == {T \in SUBSET S : SumFunctionOnSet(f, T) >= 0}
<1>1. {} \in Good
    BY SumOfNone
<1>2. \A T \in SUBSET S : \A x \in S \ T : T \in Good => T \cup {x} \in Good
    <2> SUFFICES ASSUME NEW T \in SUBSET S, NEW x \in S \ T, T \in Good
                 PROVE  T \cup {x} \in Good
        OBVIOUS
    <2>1. /\ SumFunctionOnSet(f, T \cup {x}) = f[x] + SumFunctionOnSet(f, T)
          /\ SumFunctionOnSet(f, T) \in Int
        BY SumWith
    <2> QED BY <2>1
<1> HIDE DEF Good
<1>3. \A T \in SUBSET S : T \in Good
    BY <1>1, <1>2, AllParts
<1> QED BY <1>3 DEF Good

LEMMA SumIsZero ==
    ASSUME NEW f, NEW S, IsFiniteSet(S), \A x \in S : f[x] \in Int,
           \A x \in S : f[x] >= 0, SumFunctionOnSet(f, S) = 0
    PROVE  \A x \in S : f[x] = 0
<1> SUFFICES ASSUME NEW x \in S PROVE f[x] = 0
    OBVIOUS
<1>1. SumFunctionOnSet(f, S) = f[x] + SumFunctionOnSet(f, S \ {x})
    BY SumOfMore
<1>2. SumFunctionOnSet(f, S \ {x}) >= 0
    BY SumNotNegative
<1>3. SumFunctionOnSet(f, S \ {x}) \in Int
    <2> DEFINE R == S \ {x}
    <2>1. IsFiniteSet(R) /\ \A y \in R : f[y] \in Int
        BY FS_Subset
    <2> HIDE DEF R
    <2>2. SumFunctionOnSet(f, R) \in Int
        BY <2>1, SumOfMore
    <2> QED BY <2>2 DEF R
<1> QED BY <1>1, <1>2, <1>3

LEMMA SumOfHundreds ==
    ASSUME NEW f, NEW S, IsFiniteSet(S), \A x \in S : f[x] \in Int,
           NEW h, \A x \in S : h[x] = 100 * f[x]
    PROVE  SumFunctionOnSet(h, S) = 100 * SumFunctionOnSet(f, S)
<1> DEFINE Good == {T \in SUBSET S : SumFunctionOnSet(h, T) = 100 * SumFunctionOnSet(f, T)}
<1>0. \A x \in S : h[x] \in Int
    OBVIOUS
<1>1. {} \in Good
    BY SumOfNone
<1>2. \A T \in SUBSET S : \A x \in S \ T : T \in Good => T \cup {x} \in Good
    <2> SUFFICES ASSUME NEW T \in SUBSET S, NEW x \in S \ T, T \in Good
                 PROVE  T \cup {x} \in Good
        OBVIOUS
    <2>1. /\ SumFunctionOnSet(f, T \cup {x}) = f[x] + SumFunctionOnSet(f, T)
          /\ SumFunctionOnSet(f, T) \in Int
        BY SumWith
    <2>2. /\ SumFunctionOnSet(h, T \cup {x}) = h[x] + SumFunctionOnSet(h, T)
          /\ SumFunctionOnSet(h, T) \in Int
        BY <1>0, SumWith
    <2> QED BY <2>1, <2>2
<1> HIDE DEF Good
<1>3. \A T \in SUBSET S : T \in Good
    BY <1>1, <1>2, AllParts
<1> QED BY <1>3 DEF Good

(* The figures of an invoice that could be read.                           *)
Figure(x) == x.cents \in Int /\ x.printed \in {"number", "point", "comma"}

Times(x) == IF x.printed = "comma" THEN 100 ELSE 1

LEMMA FigureIsRead ==
    ASSUME NEW x, Figure(x)
    PROVE  AP!parse_decimal(x) = Times(x) * x.cents /\ Times(x) \in {1, 100}
BY DEF Figure, Times, AP!parse_decimal

(* On one line either both figures have lost their comma or neither has.   *)
LEMMA LineIsConsistent ==
    ASSUME NEW q \in Int, NEW u, NEW t, Figure(u), Figure(t),
           t.cents > 0, q * u.cents > 0, Abs(q * u.cents - t.cents) <= 1,
           Abs(q * AP!parse_decimal(u) - AP!parse_decimal(t)) <= 1
    PROVE  Times(u) = Times(t)
<1> DEFINE due == q * u.cents
<1>1. u.cents \in Int /\ t.cents \in Int
    BY DEF Figure
<1>2. due \in Int
    BY <1>1
<1>3. q * AP!parse_decimal(u) = IF Times(u) = 100 THEN 100 * due ELSE due
    BY <1>1, FigureIsRead
<1>4. AP!parse_decimal(t) = IF Times(t) = 100 THEN 100 * t.cents ELSE t.cents
    BY <1>1, FigureIsRead
<1>5. /\ t.cents > 0 /\ due > 0 /\ Abs(due - t.cents) <= 1
      /\ Abs(q * AP!parse_decimal(u) - AP!parse_decimal(t)) <= 1
    OBVIOUS
<1>6. Times(u) \in {1, 100} /\ Times(t) \in {1, 100}
    BY FigureIsRead
<1> HIDE DEF due
<1> QED BY <1>1, <1>2, <1>3, <1>4, <1>5, <1>6 DEF Abs

-----------------------------------------------------------------------------
Together(t, f, h, S) ==
    \A x \in S : f[x] \in Int /\ h[x] \in Int /\ t[x] = f[x] + h[x]

LEMMA SumTogether ==
    ASSUME NEW S, IsFiniteSet(S), NEW f, NEW h, NEW t, Together(t, f, h, S)
    PROVE  SumFunctionOnSet(t, S) = SumFunctionOnSet(f, S) + SumFunctionOnSet(h, S)
<1>1. /\ \A x \in S : f[x] \in Int
      /\ \A x \in S : h[x] \in Int
      /\ \A x \in S : t[x] = f[x] + h[x]
    BY DEF Together
<1> QED BY <1>1, SumsAdd

(* ... and then every line is read as the grand total is.                  *)
LEMMA InvoiceIsConsistent ==
    ASSUME NEW S, IsFiniteSet(S), NEW t, \A i \in S : t[i] \in Int /\ t[i] > 0,
           NEW a, \A i \in S : a[i] \in {t[i], 100 * t[i]},
           NEW times \in {1, 100},
           SumFunctionOnSet(a, S) = times * SumFunctionOnSet(t, S)
    PROVE  \A i \in S : a[i] = times * t[i]
<1>1. \A i \in S : a[i] \in Int
    OBVIOUS
<1>2. CASE times = 1
    <2> DEFINE d == [i \in S |-> a[i] - t[i]]
    <2>1. /\ \A i \in S : d[i] \in Int /\ d[i] >= 0
          /\ \A i \in S : a[i] = t[i] + d[i]
        OBVIOUS
    <2> HIDE DEF d
    <2>2. SumFunctionOnSet(a, S) = SumFunctionOnSet(t, S) + SumFunctionOnSet(d, S)
        <3>1. Together(a, t, d, S)
            BY <2>1 DEF Together
        <3> QED BY <3>1, SumTogether
    <2>3. SumFunctionOnSet(t, S) \in Int
        BY SumOfMore
    <2>4. SumFunctionOnSet(d, S) \in Int
        BY <2>1, SumOfMore
    <2>5. SumFunctionOnSet(d, S) = 0
        BY <1>2, <2>2, <2>3, <2>4
    <2>6. \A i \in S : d[i] = 0
        BY <2>1, <2>5, SumIsZero
    <2>7. \A i \in S : a[i] = t[i]
        BY <2>1, <2>6
    <2> QED BY <1>2, <2>7
<1>3. CASE times = 100
    <2> DEFINE h == [i \in S |-> 100 * t[i]]
               d == [i \in S |-> h[i] - a[i]]
    <2>1. /\ \A i \in S : h[i] = 100 * t[i] /\ h[i] \in Int
          /\ \A i \in S : d[i] \in Int /\ d[i] >= 0
          /\ \A i \in S : h[i] = a[i] + d[i]
        OBVIOUS
    <2> HIDE DEF d, h
    <2>2. SumFunctionOnSet(h, S) = SumFunctionOnSet(a, S) + SumFunctionOnSet(d, S)
        <3>1. Together(h, a, d, S)
            BY <1>1, <2>1 DEF Together
        <3> QED BY <3>1, SumTogether
    <2>3. SumFunctionOnSet(h, S) = 100 * SumFunctionOnSet(t, S)
        BY <2>1, SumOfHundreds
    <2>4. SumFunctionOnSet(t, S) \in Int /\ SumFunctionOnSet(d, S) \in Int
        <3>1. SumFunctionOnSet(t, S) \in Int
            BY SumOfMore
        <3>2. SumFunctionOnSet(d, S) \in Int
            BY <2>1, SumOfMore
        <3> QED BY <3>1, <3>2
    <2>5. SumFunctionOnSet(d, S) = 0
        BY <1>3, <2>2, <2>3, <2>4
    <2>6. \A i \in S : d[i] = 0
        BY <2>1, <2>5, SumIsZero
    <2>7. \A i \in S : a[i] = 100 * t[i]
        BY <1>1, <2>1, <2>6
    <2> QED BY <1>3, <2>7
<1> QED BY <1>2, <1>3

LEMMA ReadableFigures ==
    ASSUME NEW lines, NEW total, AP!ExtractedInvoice(lines, total) # ValueError,
           total.printed \in Printed /\ total.cents \in Int,
           \A i \in DOMAIN lines :
              /\ {lines[i].unit_price.printed, lines[i].line_total.printed} \subseteq Printed
              /\ {lines[i].unit_price.cents, lines[i].line_total.cents} \subseteq Int
    PROVE  /\ Figure(total)
           /\ \A i \in DOMAIN lines :
                 Figure(lines[i].unit_price) /\ Figure(lines[i].line_total)
           /\ AP!ExtractedInvoice(lines, total)
                = [line_items |-> [i \in DOMAIN lines |-> AP!InvoiceLineItem(lines[i])],
                   grand_total |-> AP!parse_decimal(total)]
<1> DEFINE items == [i \in DOMAIN lines |-> AP!InvoiceLineItem(lines[i])]
<1>1. /\ ValueError \notin {AP!parse_decimal(total)}
      /\ ValueError \notin {items[i].unit_price : i \in DOMAIN lines}
      /\ ValueError \notin {items[i].line_total : i \in DOMAIN lines}
      /\ AP!ExtractedInvoice(lines, total)
                = [line_items |-> items, grand_total |-> AP!parse_decimal(total)]
    BY DEF AP!ExtractedInvoice
<1>2. \A i \in DOMAIN lines :
         /\ items[i].unit_price = AP!parse_decimal(lines[i].unit_price)
         /\ items[i].line_total = AP!parse_decimal(lines[i].line_total)
    BY DEF AP!InvoiceLineItem
<1>3. \A x : x.printed = "unreadable" => AP!parse_decimal(x) = ValueError
    BY DEF AP!parse_decimal
<1>4. total.printed # "unreadable"
    BY <1>1, <1>3
<1>5. \A i \in DOMAIN lines : /\ lines[i].unit_price.printed # "unreadable"
                              /\ lines[i].line_total.printed # "unreadable"
    <2> HIDE DEF items
    <2> QED BY <1>1, <1>2, <1>3
<1> QED BY <1>1, <1>4, <1>5 DEF Figure, Printed

LEMMA InvoicesHold == TypeOK => InvoicesAddUp
<1> SUFFICES ASSUME TypeOK, Is("ap"), AddsUpAsPrinted(sheets),
                    Invoice(policy, sheets) # ValueError,
                    AP!check_invoice_totals(Invoice(policy, sheets)).ok
             PROVE  \/ \A figure \in Amounts(sheets) : figure.printed # "comma"
                    \/ \A figure \in Amounts(sheets) : figure.printed = "comma"
    BY DEF InvoicesAddUp
<1> DEFINE lines == sheets.lines
           S == DOMAIN lines
           total == policy.grand_total
           invoice == Invoice(policy, sheets)
           t == [i \in S |-> lines[i].line_total.cents]
           a == [i \in S |-> AP!parse_decimal(lines[i].line_total)]
           d == [i \in S |-> invoice.line_items[i].line_total]
<1>1. /\ lines \in Seq(Sheets["ap"]["lines"]) /\ policy \in Policies["ap"]
      /\ total.cents \in Int /\ total.printed \in Printed
    <2>1. lines \in Seq(Sheets["ap"]["lines"]) /\ policy \in Policies["ap"]
        BY SheetsAssumption DEF TypeOK, Is
    <2> QED BY <2>1, PoliciesAssumption
<1>2. \A i \in S :
         /\ lines[i].quantity \in Int
         /\ {lines[i].unit_price.printed, lines[i].line_total.printed} \subseteq Printed
         /\ {lines[i].unit_price.cents, lines[i].line_total.cents} \subseteq Int
    <2>1. \A i \in S : lines[i] \in Sheets["ap"]["lines"]
        BY <1>1
    <2> QED BY <2>1, SheetsAssumption
<1>3. IsFiniteSet(S)
    BY <1>1, FirstNumbers
<1>4. /\ Figure(total)
      /\ \A i \in S : Figure(lines[i].unit_price) /\ Figure(lines[i].line_total)
      /\ invoice = [line_items |-> [i \in S |-> AP!InvoiceLineItem(lines[i])],
                    grand_total |-> AP!parse_decimal(total)]
    <2>1. AP!ExtractedInvoice(lines, total) # ValueError
        BY DEF Invoice
    <2> HIDE DEF lines, total
    <2>2. /\ Figure(total)
          /\ \A i \in DOMAIN lines : Figure(lines[i].unit_price) /\ Figure(lines[i].line_total)
          /\ AP!ExtractedInvoice(lines, total)
               = [line_items |-> [i \in DOMAIN lines |-> AP!InvoiceLineItem(lines[i])],
                  grand_total |-> AP!parse_decimal(total)]
        BY <1>1, <1>2, <2>1, ReadableFigures
    <2> QED BY <2>2 DEF Invoice, lines, total
<1>5. /\ DOMAIN invoice.line_items = S
      /\ invoice.grand_total = AP!parse_decimal(total)
      /\ \A i \in S :
            /\ invoice.line_items[i].line_total = AP!parse_decimal(lines[i].line_total)
            /\ AP!LineDelta(invoice.line_items[i])
                 = lines[i].quantity * AP!parse_decimal(lines[i].unit_price)
                     - AP!parse_decimal(lines[i].line_total)
    BY <1>4 DEF AP!InvoiceLineItem, AP!LineDelta
<1>6. \A i \in S : Abs(AP!LineDelta(invoice.line_items[i])) <= 1
    <2> HIDE DEF invoice, lines
    <2>1. {i \in S : AP!Abs(AP!LineDelta(invoice.line_items[i])) > 1} = {}
        BY <1>5 DEF AP!check_invoice_totals, AP!LINE_ROUNDING_TOLERANCE, invoice
    <2>2. \A i \in S : AP!LineDelta(invoice.line_items[i]) \in Int
        BY <1>2, <1>4, <1>5, FigureIsRead DEF Figure
    <2> QED BY <2>1, <2>2 DEF AP!Abs, Abs
<1>7. AP!SumFunction(d) - AP!parse_decimal(total) = 0
    BY <1>5 DEF AP!check_invoice_totals
<1>8. /\ SumFunction(t) = total.cents
      /\ \A i \in S : /\ lines[i].line_total.cents > 0
                      /\ lines[i].quantity * lines[i].unit_price.cents > 0
                      /\ Abs(lines[i].quantity * lines[i].unit_price.cents
                               - lines[i].line_total.cents) <= 1
    BY DEF AddsUpAsPrinted
<1>9. \A i \in S : Times(lines[i].unit_price) = Times(lines[i].line_total)
    <2> SUFFICES ASSUME NEW i \in S
                 PROVE  Times(lines[i].unit_price) = Times(lines[i].line_total)
        OBVIOUS
    <2> DEFINE q == lines[i].quantity
               u == lines[i].unit_price
               w == lines[i].line_total
    <2>1. /\ q \in Int /\ Figure(u) /\ Figure(w) /\ w.cents > 0 /\ q * u.cents > 0
          /\ Abs(q * u.cents - w.cents) <= 1
          /\ Abs(q * AP!parse_decimal(u) - AP!parse_decimal(w)) <= 1
        BY <1>2, <1>4, <1>5, <1>6, <1>8
    <2> HIDE DEF q, u, w
    <2>2. Times(u) = Times(w)
        BY <2>1, LineIsConsistent
    <2> QED BY <2>2 DEF u, w
<1>10. /\ \A i \in S : t[i] \in Int /\ t[i] > 0
       /\ \A i \in S : /\ a[i] = Times(lines[i].line_total) * t[i]
                       /\ Times(lines[i].line_total) \in {1, 100}
       /\ DOMAIN t = S /\ DOMAIN a = S
    BY <1>2, <1>4, <1>8, FigureIsRead
<1>11. d = a
    BY <1>5
<1>12. SumFunctionOnSet(a, S) = Times(total) * SumFunctionOnSet(t, S)
    <2>1. SumFunction(t) = SumFunctionOnSet(t, DOMAIN t)
        BY SumIsOnDomain
    <2>2. AP!SumFunction(a) = SumFunctionOnSet(a, DOMAIN a)
        BY InvoiceSums
    <2>3. \A i \in S : a[i] \in Int
        <3> HIDE DEF a, t, lines, S
        <3> QED BY <1>10
    <2> HIDE DEF a, t, S, d, total
    <2>4. SumFunctionOnSet(a, S) \in Int
        BY <1>3, <2>3, SumOfMore
    <2>5. AP!parse_decimal(total) = Times(total) * total.cents
        BY <1>4, FigureIsRead
    <2>6. AP!parse_decimal(total) \in Int
        BY <1>1, <1>4, FigureIsRead
    <2>7. AP!SumFunction(a) = SumFunctionOnSet(a, S)
        BY <1>10, <2>2
    <2>8. SumFunctionOnSet(a, S) - AP!parse_decimal(total) = 0
        BY <1>7, <1>11, <2>7
    <2>9. SumFunctionOnSet(a, S) = AP!parse_decimal(total)
        BY <2>4, <2>6, <2>8
    <2>10. SumFunctionOnSet(t, S) = total.cents
        BY <1>8, <1>10, <2>1
    <2> QED BY <2>5, <2>9, <2>10
<1>13. \A i \in S : a[i] = Times(total) * t[i]
    <2>1. Times(total) \in {1, 100}
        BY <1>4, FigureIsRead
    <2>2. \A i \in S : a[i] \in {t[i], 100 * t[i]}
        <3> HIDE DEF a, t, lines, S
        <3> QED BY <1>10
    <2> HIDE DEF a, t, S, total
    <2> QED BY <1>3, <1>10, <1>12, <2>1, <2>2, InvoiceIsConsistent
<1>14. \A i \in S : Times(lines[i].line_total) = Times(total)
    <2> SUFFICES ASSUME NEW i \in S PROVE Times(lines[i].line_total) = Times(total)
        OBVIOUS
    <2> PICK x, y, z : x = Times(lines[i].line_total) /\ y = Times(total) /\ z = t[i]
        OBVIOUS
    <2>1. x \in {1, 100} /\ y \in {1, 100} /\ z \in Int /\ z > 0 /\ x * z = y * z
        BY <1>4, <1>10, <1>13, FigureIsRead
    <2>2. x = y
        BY <2>1
    <2> QED BY <2>2
<1>15. \A x \in Amounts(sheets) : Times(x) = Times(total)
    <2> SUFFICES ASSUME NEW x \in Amounts(sheets) PROVE Times(x) = Times(total)
        OBVIOUS
    <2>1. CASE x = total
        BY <2>1
    <2>2. CASE \E i \in S : x \in {lines[i].unit_price, lines[i].line_total}
        BY <2>2, <1>9, <1>14
    <2> QED BY <2>1, <2>2 DEF Amounts
<1>16. \A x : Times(x) = 100 <=> x.printed = "comma"
    BY DEF Times
<1> QED BY <1>15, <1>16

(* The totals are those of the rows: of an aging by bucket and tone, of a  *)
(* reconciliation, of the budget, of the VAT by treatment and side, of a   *)
(* forecast by category; and an invoice that adds up as it is printed and  *)
(* as it is read has lost the comma of all its amounts or of none          *)
(* (_sum() over the lines, parse_decimal()) -- for any number of rows.     *)
THEOREM TotalsAlwaysAddUp == BackSpec => []TotalsAddUp
<1>1. TypeOK => TotalsAddUp
    BY AgingHolds, ReconciliationHolds, VariancesHold, ProvisionHolds, ForecastHolds,
       InvoicesHold DEF TotalsAddUp
<1> QED BY <1>1, TypeCorrect, PTL

-----------------------------------------------------------------------------
(* regulatory_change: the controls that are found relevant.                *)
LEMMA TriageCounts == \A S : Reg!Cardinality(S) = Cardinality(S)
BY DEF Reg!Cardinality, Cardinality

Terms(p) == Reg!key_terms(p.requirement, p.extra_stopwords)

RelevanceOf(p, control, i) == Reg!ControlRelevance(Terms(p), control, i, p)

Found(p, rows) == {r \in {RelevanceOf(p, rows[i], i) : i \in DOMAIN rows} : r.relevant}

LEMMA TermsAreFinite ==
    ASSUME NEW p \in Policies["regulatory_change"]
    PROVE  IsFiniteSet(Terms(p))
<1> DEFINE stops == Stopwords \cup p.extra_stopwords
           words == p.requirement \ stops
           f == [w \in words |-> Stem[w]]
<1>1. IsFiniteSet(words)
    BY PoliciesAssumption, FS_Difference
<1>2. DOMAIN f = words /\ Terms(p) = {f[w] : w \in words} \ stops
    BY DEF Terms, Reg!key_terms
<1> HIDE DEF f, words, stops
<1>3. IsFiniteSet({f[w] : w \in words})
    BY <1>1, <1>2, FiniteValues
<1> DEFINE F == {f[w] : w \in words}
<1>4. IsFiniteSet(F) /\ Terms(p) \in SUBSET F
    BY <1>2, <1>3
<1> HIDE DEF F
<1> QED BY <1>4, FS_Subset

LEMMA RelevanceIsCounted ==
    ASSUME NEW p \in Policies["regulatory_change"], NEW control, NEW i
    PROVE  /\ RelevanceOf(p, control, i).control_id = i
           /\ RelevanceOf(p, control, i).score \in Nat
<1> DEFINE r == RelevanceOf(p, control, i)
<1>1. PICK matched \in SUBSET Terms(p) : r.score = Reg!Cardinality(matched) /\ r.control_id = i
    BY DEF RelevanceOf, Reg!ControlRelevance
<1>2. IsFiniteSet(matched)
    BY TermsAreFinite, FS_Subset
<1>3. Cardinality(matched) \in Nat
    BY <1>2, FS_CardinalityType
<1> HIDE DEF r
<1>4. r.score \in Nat /\ r.control_id = i
    BY <1>1, <1>3, TriageCounts
<1> QED BY <1>4 DEF r

(* Ranked records: no two have the same id, so one is ahead of all others. *)
RankedSet(R) ==
    /\ IsFiniteSet(R)
    /\ \A r \in R : r.score \in Nat /\ r.control_id \in Nat
    /\ \A r, s \in R : r.control_id = s.control_id => r = s

Ahead(R, r) == {s \in R : Reg!Before(s, r)}

Best(R) == CHOOSE r \in R : Ahead(R, r) = {}

LEMMA FoundIsRanked ==
    ASSUME NEW p \in Policies["regulatory_change"], NEW X, NEW rows \in Seq(X)
    PROVE  RankedSet(Found(p, rows))
<1> DEFINE S == DOMAIN rows
           f == [i \in S |-> RelevanceOf(p, rows[i], i)]
           All == {f[i] : i \in S}
<1>1. IsFiniteSet(S) /\ S \subseteq Nat
    BY FirstNumbers
<1>2. \A i \in S : f[i].control_id = i /\ f[i].score \in Nat
    BY RelevanceIsCounted
<1>3. Found(p, rows) = {r \in All : r.relevant} /\ DOMAIN f = S
    BY DEF Found
<1> HIDE DEF f, S
<1>4. IsFiniteSet(All)
    <2>1. DOMAIN f = S /\ IsFiniteSet(S)
        BY <1>1, <1>3
    <2> QED BY <2>1, FiniteValues
<1>5. Found(p, rows) \in SUBSET All
    BY <1>3
<1>6. IsFiniteSet(Found(p, rows))
    BY <1>4, <1>5, FS_Subset
<1>7. \A r \in All : r.score \in Nat /\ r.control_id \in Nat /\ r = f[r.control_id]
    <2> SUFFICES ASSUME NEW i \in S
                 PROVE  /\ f[i].score \in Nat /\ f[i].control_id \in Nat
                        /\ f[i] = f[f[i].control_id]
        OBVIOUS
    <2> QED BY <1>1, <1>2
<1> DEFINE R == Found(p, rows)
<1>8. /\ \A r \in R : r.score \in Nat /\ r.control_id \in Nat
      /\ \A r \in R : r = f[r.control_id]
    <2> HIDE DEF All, R
    <2>1. R \subseteq All
        BY <1>5 DEF R
    <2> QED BY <1>7, <2>1
<1>9. IsFiniteSet(R)
    BY <1>6
<1> HIDE DEF R
<1>10. \A r, s \in R : r.control_id = s.control_id => r = s
    BY <1>8
<1>11. RankedSet(R)
    BY <1>8, <1>9, <1>10 DEF RankedSet
<1> QED BY <1>11 DEF R

LEMMA BestIsFirst ==
    ASSUME NEW R, RankedSet(R), R # {}
    PROVE  Best(R) \in R /\ \A r \in R : r.score <= Best(R).score
<1> DEFINE f == [r \in R |-> r.score]
           Scores == {f[r] : r \in R}
<1>1. IsFiniteSet(R) /\ DOMAIN f = R /\ \A r \in R : f[r] = r.score
    BY DEF RankedSet
<1>2. \A r \in R : r.score \in Int /\ r.control_id \in Int
    BY DEF RankedSet
<1>3. Scores # {} /\ Scores \subseteq Int
    BY <1>1, <1>2
<1>4. IsFiniteSet(Scores)
    <2> HIDE DEF f
    <2> QED BY <1>1, FiniteValues
<1>5. PICK high \in Scores : \A x \in Scores : x <= high
    <2> HIDE DEF Scores
    <2> QED BY <1>3, <1>4, Extremes
<1> DEFINE T == {r \in R : r.score = high}
           g == [r \in T |-> r.control_id]
           Ids == {g[r] : r \in T}
<1>6. /\ \A r \in R : r.score <= high
      /\ T # {} /\ high \in Int
    BY <1>1, <1>3, <1>5
<1> HIDE DEF f, Scores
<1>7. IsFiniteSet(T) /\ DOMAIN g = T
    BY <1>1, FS_Subset
<1>8. Ids # {} /\ Ids \subseteq Int
    BY <1>2, <1>6
<1>9. IsFiniteSet(Ids)
    <2> HIDE DEF g, T
    <2> QED BY <1>7, FiniteValues
<1>10. PICK low \in Ids : \A x \in Ids : low <= x
    <2> HIDE DEF Ids
    <2> QED BY <1>8, <1>9, Extremes
<1>11. PICK top \in T : top.control_id = low
    OBVIOUS
<1>12. \A s \in R : ~Reg!Before(s, top)
    <2> SUFFICES ASSUME NEW s \in R, Reg!Before(s, top) PROVE FALSE
        OBVIOUS
    <2>1. s.score \in Int /\ s.control_id \in Int /\ top.score = high /\ s.score <= high
        BY <1>2, <1>6
    <2>2. s.score = high /\ s.control_id < low
        BY <2>1, <1>6, <1>11 DEF Reg!Before
    <2>3. s \in T /\ g[s] = s.control_id
        BY <2>2
    <2>4. low <= s.control_id
        BY <2>3, <1>10
    <2>5. low \in Int
        BY <1>8
    <2> QED BY <2>1, <2>2, <2>4, <2>5
<1>13. top \in R /\ Ahead(R, top) = {}
    BY <1>12 DEF Ahead
<1>14. Best(R) \in R /\ Ahead(R, Best(R)) = {}
    BY <1>13 DEF Best
<1>15. \A r \in R : r.score <= Best(R).score
    <2> SUFFICES ASSUME NEW r \in R PROVE r.score <= Best(R).score
        OBVIOUS
    <2>1. ~Reg!Before(r, Best(R))
        BY <1>14 DEF Ahead
    <2> QED BY <2>1, <1>2, <1>14 DEF Reg!Before
<1> QED BY <1>14, <1>15

Verdict(R, strong) ==
    IF R = {} THEN "likely_gap"
    ELSE IF Best(R).score >= strong THEN "apparent_coverage" ELSE "weak_coverage"

LEMMA VerdictOfRun ==
    ASSUME NEW p, NEW rows
    PROVE  Reg!assess_impact(p.requirement, rows, p).coverage_verdict
             = Verdict(Found(p, rows), p.strong_overlap)
<1> DEFINE terms == Reg!key_terms(p.requirement, p.extra_stopwords)
           all == {Reg!ControlRelevance(terms, rows[i], i, p) : i \in DOMAIN rows}
           some == {r \in all : r.relevant}
           top == CHOOSE r \in some : {s \in some : Reg!Before(s, r)} = {}
<1>1. some = Found(p, rows)
    BY Zenon DEF Found, RelevanceOf, Terms
<1>2. top = Best(some)
    BY Zenon DEF Best, Ahead
<1>3. Reg!assess_impact(p.requirement, rows, p).coverage_verdict
        = IF some = {} THEN "likely_gap"
          ELSE IF top.score >= p.strong_overlap THEN "apparent_coverage" ELSE "weak_coverage"
    BY DEF Reg!assess_impact
<1> HIDE DEF some, top
<1> QED BY <1>1, <1>2, <1>3 DEF Verdict

LEMMA CoverageOnlyGrows ==
    ASSUME TypeOK, TypeOK', [BackNext]_backVars
    PROVE  Coverage <= Coverage'
<1>1. agent' = agent /\ policy' = policy
    BY DEF BackNext, AddRow, backVars
<1>2. CASE agent # "regulatory_change"
    BY <1>1, <1>2 DEF Coverage
<1>3. CASE agent = "regulatory_change"
    <2> PICK rows, more, p : rows = sheets.controls /\ more = sheets'.controls /\ p = policy
        OBVIOUS
    <2>1. "controls" \in DOMAIN sheets
        BY <1>3, SheetsAssumption DEF TypeOK
    <2>2. DOMAIN rows \subseteq DOMAIN more /\ \A i \in DOMAIN rows : more[i] = rows[i]
        BY <2>1, SheetsGrow
    <2>3. /\ rows \in Seq(Sheets["regulatory_change"]["controls"])
          /\ more \in Seq(Sheets["regulatory_change"]["controls"])
          /\ p \in Policies["regulatory_change"] /\ p.strong_overlap \in Int
        BY <1>1, <1>3, SheetsAssumption, PoliciesAssumption DEF TypeOK
    <2> DEFINE R == Found(p, rows)
               M == Found(p, more)
               Grade(verdict) ==
                   IF verdict = "likely_gap" THEN 0 ELSE IF verdict = "weak_coverage" THEN 1 ELSE 2
    <2>4. R \subseteq M
        BY <2>2 DEF Found
    <2>5. RankedSet(R) /\ RankedSet(M)
        BY <2>3, FoundIsRanked
    <2>6. /\ Coverage = Grade(Verdict(R, p.strong_overlap))
          /\ Coverage' = Grade(Verdict(M, p.strong_overlap))
        <3>1. /\ Impact(policy, sheets).coverage_verdict = Verdict(R, p.strong_overlap)
              /\ Impact(policy, sheets)'.coverage_verdict = Verdict(M, p.strong_overlap)
            BY <1>1, VerdictOfRun DEF Impact
        <3> HIDE DEF R, M
        <3> QED BY <1>1, <1>3, <3>1 DEF Coverage
    <2> HIDE DEF R, M
    <2>7. CASE R = {}
        BY <2>6, <2>7 DEF Verdict
    <2>8. CASE R # {}
        <3>1. /\ Best(R) \in R /\ Best(R).score <= Best(M).score
              /\ Best(R).score \in Int /\ Best(M).score \in Int /\ M # {}
            <4>1. M # {} /\ Best(R) \in R
                BY <2>4, <2>5, <2>8, BestIsFirst
            <4>2. Best(M) \in M /\ \A r \in M : r.score <= Best(M).score
                BY <2>5, <4>1, BestIsFirst
            <4> QED BY <2>4, <2>5, <4>1, <4>2 DEF RankedSet
        <3> QED BY <2>3, <2>6, <2>8, <3>1 DEF Verdict
    <2> QED BY <2>7, <2>8
<1> QED BY <1>2, <1>3

(* A new row never clears what was flagged on the others -- an open        *)
(* invoice stays chased (another may only make its customer a repeat one), *)
(* an entry stays in violation, a transaction anomalous -- and a control   *)
(* that is added never makes the coverage look worse: assess_impact()      *)
(* goes by the best score there is.                                        *)
THEOREM NoFlagIsCleared == BackSpec => FlagsOnlyGrow
<1>1. TypeOK /\ TypeOK' /\ [BackNext]_backVars
        => [Standing \subseteq Standing' /\ Coverage <= Coverage']_backVars
    BY FlagsStand, CoverageOnlyGrows
<1> QED BY <1>1, TypeCorrect, PTL DEF BackSpec, FlagsOnlyGrow

-----------------------------------------------------------------------------
(* Rows in another order: again has at k what rows has at s[k], and the    *)
(* other way round.                                                        *)
Rearranged(rows, again, s, n) ==
    /\ n \in Nat /\ DOMAIN rows = 1 .. n /\ DOMAIN again = 1 .. n
    /\ s \in [1 .. n -> 1 .. n]
    /\ \A k \in 1 .. n : s[s[k]] = k
    /\ \A k \in 1 .. n : again[k] = rows[s[k]]

LEMMA RearrangedBack ==
    ASSUME NEW rows, NEW again, NEW s, NEW n, Rearranged(rows, again, s, n)
    PROVE  Rearranged(again, rows, s, n)
BY DEF Rearranged

LEMMA SwapRearranges ==
    ASSUME NEW X, NEW rows \in Seq(X), NEW again \in Swaps(rows)
    PROVE  /\ again \in Seq(X) /\ Len(again) = Len(rows)
           /\ \E s : Rearranged(rows, again, s, Len(rows))
<1>1. PICK i \in 1 .. Len(rows) - 1 :
          again = [rows EXCEPT ![i] = rows[i + 1], ![i + 1] = rows[i]]
    BY DEF Swaps
<1> DEFINE n == Len(rows)
           s == [k \in 1 .. n |-> IF k = i THEN i + 1 ELSE IF k = i + 1 THEN i ELSE k]
<1>2. n \in Nat /\ DOMAIN rows = 1 .. n /\ DOMAIN again = 1 .. n /\ i \in 1 .. n /\ i + 1 \in 1 .. n
    BY <1>1
<1>3. again \in Seq(X) /\ Len(again) = n
    <2>1. again \in [1 .. n -> X]
        BY <1>1, <1>2
    <2>2. \A f \in [1 .. n -> X] : f \in Seq(X) /\ Len(f) = n
        BY <1>2
    <2> QED BY <2>1, <2>2
<1>4. s \in [1 .. n -> 1 .. n] /\ \A k \in 1 .. n : s[s[k]] = k
    BY <1>2
<1>5. \A k \in 1 .. n : again[k] = rows[s[k]]
    BY <1>1, <1>2
<1> HIDE DEF n, s
<1>6. Rearranged(rows, again, s, n)
    BY <1>2, <1>4, <1>5 DEF Rearranged
<1> QED BY <1>3, <1>6 DEF n

(* The same rows in both orders: as many, and with the same sum.           *)
Moved(A, B, s, n) ==
    A \subseteq 1 .. n /\ B \subseteq 1 .. n /\ \A k \in 1 .. n : k \in B <=> s[k] \in A

LEMMA MovedCount ==
    ASSUME NEW rows, NEW again, NEW s, NEW n, Rearranged(rows, again, s, n),
           NEW A, NEW B, Moved(A, B, s, n)
    PROVE  /\ IsFiniteSet(A) /\ IsFiniteSet(B) /\ Cardinality(A) = Cardinality(B)
<1> DEFINE f == [k \in B |-> s[k]]
<1>1. IsFiniteSet(A) /\ IsFiniteSet(B)
    <2>1. A \in SUBSET (1 .. n) /\ B \in SUBSET (1 .. n) /\ IsFiniteSet(1 .. n)
        BY FirstNumbers DEF Moved, Rearranged
    <2> QED BY <2>1, FS_Subset
<1>2. /\ f \in [B -> A]
      /\ \A x, y \in B : f[x] = f[y] => x = y
      /\ \A y \in A : \E x \in B : f[x] = y
    <2>1. /\ \A k \in B : k \in 1 .. n /\ s[k] \in A /\ s[s[k]] = k
          /\ \A k \in A : k \in 1 .. n /\ s[k] \in B /\ s[s[k]] = k
        BY DEF Moved, Rearranged
    <2> QED BY <2>1
<1> HIDE DEF f
<1>3. f \in Bijection(B, A)
    BY <1>2 DEF Bijection, Injection, Surjection, IsInjective
<1>4. ExistsBijection(B, A)
    BY <1>3 DEF ExistsBijection
<1>5. Cardinality(A) = Cardinality(B)
    BY <1>1, <1>4, FS_Bijection
<1> QED BY <1>1, <1>5

LEMMA MovedSum ==
    ASSUME NEW rows, NEW again, NEW s, NEW n, Rearranged(rows, again, s, n),
           NEW A, NEW B, Moved(A, B, s, n),
           NEW f, NEW h, \A k \in A : f[k] \in Int, \A k \in B : h[k] = f[s[k]]
    PROVE  SumFunctionOnSet(f, A) = SumFunctionOnSet(h, B)
<1> DEFINE name == [k \in B |-> s[k]]
<1>1. IsFiniteSet(B)
    BY MovedCount
<1>2. /\ name \in [B -> A]
      /\ \A x, y \in B : name[x] = name[y] => x = y
      /\ \A y \in A : \E x \in B : name[x] = y
    <2>1. /\ \A k \in B : k \in 1 .. n /\ s[k] \in A /\ s[s[k]] = k
          /\ \A k \in A : k \in 1 .. n /\ s[k] \in B /\ s[s[k]] = k
        BY DEF Moved, Rearranged
    <2> QED BY <2>1
<1>3. /\ \A x \in B : h[x] = f[name[x]]
      /\ \A x \in B : h[x] \in Int
    BY <1>2
<1> HIDE DEF name
<1>4. SumFunctionOnSet(h, B) = SumFunctionOnSet(f, A)
    BY <1>1, <1>2, <1>3, SumRenamed
<1> QED BY <1>4

-----------------------------------------------------------------------------
(* ar_collections: the agings come in the order of the invoices, and their *)
(* summary does not tell in which.                                         *)
FlaggedIn(a) == {i \in DOMAIN a : a[i].flagged}
ToneIn(a, tone) == {i \in FlaggedIn(a) : a[i].tone_tier = tone}

LEMMA AgingsRearranged ==
    ASSUME NEW p, NEW rows, NEW again, NEW s, NEW n, Rearranged(rows, again, s, n)
    PROVE  Rearranged(AR!compute_aging(rows, AsOf, p), AR!compute_aging(again, AsOf, p), s, n)
<1> DEFINE Late(book, c) ==
               {i \in DOMAIN book : book[i].customer = c /\ AsOf - book[i].due_date >= 1}
           One(inv, count) ==
               AR!InvoiceAging(inv, AsOf - inv.due_date,
                               AR!flag_reasons(inv, AsOf - inv.due_date, count, p))
<1>1. \A book : /\ DOMAIN AR!compute_aging(book, AsOf, p) = DOMAIN book
                /\ \A i \in DOMAIN book :
                      AR!compute_aging(book, AsOf, p)[i]
                        = One(book[i], AR!Cardinality(Late(book, book[i].customer)))
    BY DEF AR!compute_aging
<1>2. ASSUME NEW c PROVE AR!Cardinality(Late(rows, c)) = AR!Cardinality(Late(again, c))
    <2> DEFINE A == Late(rows, c)
               B == Late(again, c)
    <2>1. Moved(A, B, s, n)
        BY DEF Rearranged, Moved
    <2> HIDE DEF A, B
    <2>2. Cardinality(A) = Cardinality(B)
        BY <2>1, MovedCount
    <2>3. AR!Cardinality(A) = AR!Cardinality(B)
        BY <2>2, SameCount
    <2> QED BY <2>3 DEF A, B
<1> HIDE DEF One, Late
<1>3. \A k \in 1 .. n : AR!compute_aging(again, AsOf, p)[k] = AR!compute_aging(rows, AsOf, p)[s[k]]
    <2> SUFFICES ASSUME NEW k \in 1 .. n
                 PROVE  AR!compute_aging(again, AsOf, p)[k] = AR!compute_aging(rows, AsOf, p)[s[k]]
        OBVIOUS
    <2>1. again[k] = rows[s[k]] /\ k \in DOMAIN again /\ s[k] \in DOMAIN rows
        BY DEF Rearranged
    <2> DEFINE row == again[k]
               late == AR!Cardinality(Late(again, row.customer))
    <2>2. AR!compute_aging(again, AsOf, p)[k] = One(row, late)
        BY <1>1, <2>1
    <2>3. AR!compute_aging(rows, AsOf, p)[s[k]]
            = One(row, AR!Cardinality(Late(rows, row.customer)))
        BY <1>1, <2>1
    <2>4. AR!Cardinality(Late(rows, row.customer)) = late
        BY <1>2, Zenon
    <2> QED BY <2>2, <2>3, <2>4
<1> QED BY <1>1, <1>3 DEF Rearranged

LEMMA AgingOrder ==
    ASSUME NEW a, NEW b, NEW s, NEW n, Rearranged(a, b, s, n), Aged(a, n), Aged(b, n),
           Len(a) = Len(b)
    PROVE  AR!summary(a) = AR!summary(b)
<1> DEFINE f == AmountsOf(a)
           h == AmountsOf(b)
           Sum(g, S) == AR!SumFunctionOnSet(g, S)
<1>1. /\ Moved(FlaggedIn(a), FlaggedIn(b), s, n)
      /\ Moved(OverdueIn(a), OverdueIn(b), s, n)
      /\ \A k \in DOMAIN AR!Buckets : Moved(InBucket(a, k), InBucket(b, k), s, n)
      /\ \A tone : Moved(ToneIn(a, tone), ToneIn(b, tone), s, n)
      /\ Moved(DOMAIN a, DOMAIN b, s, n)
    BY DEF Moved, Rearranged, FlaggedIn, OverdueIn, InBucket, ToneIn
<1>2. /\ \A k \in DOMAIN a : f[k] \in Int
      /\ \A k \in DOMAIN b : h[k] = f[s[k]]
      /\ DOMAIN f = DOMAIN a /\ DOMAIN h = DOMAIN b
    BY DEF AmountsOf, Aged, Rearranged
<1> HIDE DEF f, h
<1>3. ASSUME NEW A \in SUBSET DOMAIN a, NEW B \in SUBSET DOMAIN b, Moved(A, B, s, n)
      PROVE  Sum(f, A) = Sum(h, B) /\ AR!Cardinality(A) = AR!Cardinality(B)
    <2>1. SumFunctionOnSet(f, A) = SumFunctionOnSet(h, B)
        <3>1. (\A k \in A : f[k] \in Int) /\ \A k \in B : h[k] = f[s[k]]
            BY <1>2
        <3> QED BY <1>3, <3>1, MovedSum
    <2>2. Cardinality(A) = Cardinality(B)
        BY <1>3, MovedCount
    <2> QED BY <2>1, <2>2, AgingSums, SameCount
<1>4. /\ FlaggedIn(a) \subseteq DOMAIN a /\ FlaggedIn(b) \subseteq DOMAIN b
      /\ OverdueIn(a) \subseteq DOMAIN a /\ OverdueIn(b) \subseteq DOMAIN b
      /\ \A k : InBucket(a, k) \subseteq DOMAIN a /\ InBucket(b, k) \subseteq DOMAIN b
      /\ \A tone : ToneIn(a, tone) \subseteq DOMAIN a /\ ToneIn(b, tone) \subseteq DOMAIN b
    BY DEF FlaggedIn, OverdueIn, InBucket, ToneIn
<1> DEFINE Tones(x) == {x[i].tone_tier : i \in FlaggedIn(x)}
           Customers(x) == {x[i].customer : i \in FlaggedIn(x)}
           ByBucket(x) == [k \in DOMAIN AR!Buckets |->
                              [count  |-> AR!Cardinality(InBucket(x, k)),
                               amount |-> AR!SumFunctionOnSet(AmountsOf(x), InBucket(x, k))]]
           ByTone(x) == [tone \in Tones(x) |-> AR!Cardinality(ToneIn(x, tone))]
<1>5. Tones(a) = Tones(b) /\ Customers(a) = Customers(b)
    BY DEF FlaggedIn, Rearranged
<1>6. \A x : AR!summary(x) = [invoice_count |-> Len(x),
                   flagged_count |-> AR!Cardinality(FlaggedIn(x)),
                   total_open    |-> AR!SumFunction(AmountsOf(x)),
                   overdue_count |-> AR!Cardinality(OverdueIn(x)),
                   total_overdue |-> AR!SumFunctionOnSet(AmountsOf(x), OverdueIn(x)),
                   bucket_breakdown |-> ByBucket(x),
                   tone_breakdown |-> ByTone(x),
                   customers_flagged |-> Customers(x)]
    BY DEF AR!summary, FlaggedIn, OverdueIn, InBucket, ToneIn, AmountsOf
<1>7. /\ AR!Cardinality(FlaggedIn(a)) = AR!Cardinality(FlaggedIn(b))
      /\ AR!Cardinality(OverdueIn(a)) = AR!Cardinality(OverdueIn(b))
      /\ Sum(f, OverdueIn(a)) = Sum(h, OverdueIn(b))
      /\ Sum(f, DOMAIN a) = Sum(h, DOMAIN b)
    BY <1>1, <1>3, <1>4
<1>8. AR!SumFunction(f) = AR!SumFunction(h)
    BY <1>2, <1>7, AgingSums
<1>9. ByBucket(a) = ByBucket(b)
    <2>1. \A k \in DOMAIN AR!Buckets :
              /\ AR!Cardinality(InBucket(a, k)) = AR!Cardinality(InBucket(b, k))
              /\ Sum(f, InBucket(a, k)) = Sum(h, InBucket(b, k))
        BY <1>1, <1>3, <1>4
    <2> QED BY <2>1 DEF f, h
<1>10. ByTone(a) = ByTone(b)
    <2>1. \A tone : AR!Cardinality(ToneIn(a, tone)) = AR!Cardinality(ToneIn(b, tone))
        BY <1>1, <1>3, <1>4
    <2> HIDE DEF Tones
    <2> QED BY <1>5, <2>1
<1> HIDE DEF ByBucket, ByTone, Customers, Tones
<1> QED BY <1>5, <1>6, <1>7, <1>8, <1>9, <1>10 DEF f, h

LEMMA AgingLength ==
    ASSUME NEW p, NEW rows \in Seq(InvoiceRows)
    PROVE  Len(AR!compute_aging(rows, AsOf, p)) = Len(rows)
<1> DEFINE a == AR!compute_aging(rows, AsOf, p)
<1>1. a = [i \in 1 .. Len(rows) |-> a[i]] /\ Len(rows) \in Nat
    BY DEF AR!compute_aging
<1> HIDE DEF a
<1>2. Len(a) = Len(rows)
    BY <1>1
<1> QED BY <1>2 DEF a

-----------------------------------------------------------------------------
(* Pairs of a row's place and something found in it.                       *)
PairsMoved(A, B, X, s, n) ==
    /\ A \subseteq (1 .. n) \X X /\ B \subseteq (1 .. n) \X X
    /\ \A k \in 1 .. n : \A x \in X : <<k, x>> \in B <=> <<s[k], x>> \in A

LEMMA PairsCount ==
    ASSUME NEW rows, NEW again, NEW s, NEW n, Rearranged(rows, again, s, n),
           NEW X, IsFiniteSet(X), NEW A, NEW B, PairsMoved(A, B, X, s, n)
    PROVE  IsFiniteSet(A) /\ IsFiniteSet(B) /\ Cardinality(A) = Cardinality(B)
<1> DEFINE f == [v \in B |-> <<s[v[1]], v[2]>>]
           P == (1 .. n) \X X
<1>1. IsFiniteSet(A) /\ IsFiniteSet(B)
    <2>1. IsFiniteSet(1 .. n)
        BY FirstNumbers DEF Rearranged
    <2>2. IsFiniteSet(P)
        BY <2>1, FS_Product
    <2>3. A \in SUBSET P /\ B \in SUBSET P
        BY DEF PairsMoved
    <2> HIDE DEF P
    <2> QED BY <2>2, <2>3, FS_Subset
<1>2. \A v \in A : /\ v = <<v[1], v[2]>> /\ v[1] \in 1 .. n /\ v[2] \in X
                   /\ <<s[v[1]], v[2]>> \in B /\ s[s[v[1]]] = v[1]
    BY DEF PairsMoved, Rearranged
<1>3. \A v \in B : /\ v = <<v[1], v[2]>> /\ v[1] \in 1 .. n /\ v[2] \in X
                   /\ f[v] = <<s[v[1]], v[2]>> /\ f[v] \in A /\ s[s[v[1]]] = v[1]
    BY DEF PairsMoved, Rearranged
<1>4. f \in [B -> A]
    BY <1>3
<1>5. \A v, w \in B : f[v] = f[w] => v = w
    <2> SUFFICES ASSUME NEW v \in B, NEW w \in B, f[v] = f[w] PROVE v = w
        OBVIOUS
    <2>1. s[v[1]] = s[w[1]] /\ v[2] = w[2]
        BY <1>3
    <2>2. v[1] = w[1]
        BY <1>3, <2>1
    <2> QED BY <1>3, <2>1, <2>2
<1>6. \A v \in A : \E w \in B : f[w] = v
    <2> SUFFICES ASSUME NEW v \in A PROVE \E w \in B : f[w] = v
        OBVIOUS
    <2> DEFINE w == <<s[v[1]], v[2]>>
    <2>1. w \in B /\ w[1] = s[v[1]] /\ w[2] = v[2]
        BY <1>2
    <2>2. f[w] = <<s[s[v[1]]], v[2]>>
        BY <2>1
    <2>3. f[w] = v
        BY <1>2, <2>2
    <2> QED BY <2>1, <2>3
<1> HIDE DEF f
<1>7. f \in Bijection(B, A)
    BY <1>4, <1>5, <1>6 DEF Bijection, Injection, Surjection, IsInjective
<1>8. ExistsBijection(B, A)
    BY <1>7 DEF ExistsBijection
<1>9. Cardinality(A) = Cardinality(B)
    BY <1>1, <1>8, FS_Bijection
<1> QED BY <1>1, <1>9

(* controls_sox: the results come in the order of the entries, and their   *)
(* summary does not tell in which.                                         *)
EntryRows == Sheets["controls_sox"]["entries"]

ViolationsOf(a) == {found \in (DOMAIN a) \X Sox!VIOLATION_CODES :
                       found[2] \in a[found[1]].violations}
OfCode(a, code) == {v \in ViolationsOf(a) : v[2] = code}

LEMMA TestsRearranged ==
    ASSUME NEW p, NEW rows \in Seq(EntryRows), NEW again \in Seq(EntryRows),
           Len(again) = Len(rows), NEW s, NEW n, Rearranged(rows, again, s, n)
    PROVE  LET a == Sox!check_segregation_of_duties(rows, p)
               b == Sox!check_segregation_of_duties(again, p)
           IN  /\ Rearranged(a, b, s, n) /\ Len(a) = Len(b)
               /\ \A i \in DOMAIN a : a[i].amount \in Int
<1> DEFINE a == Sox!check_segregation_of_duties(rows, p)
           b == Sox!check_segregation_of_duties(again, p)
<1>1. /\ a = [i \in 1 .. n |-> Sox!ControlTestResult(rows[i], p)]
      /\ b = [i \in 1 .. n |-> Sox!ControlTestResult(again[i], p)]
      /\ n \in Nat
    BY DEF Sox!check_segregation_of_duties, Rearranged
<1>2. /\ Len(a) = n /\ Len(b) = n /\ DOMAIN a = 1 .. n /\ DOMAIN b = 1 .. n
      /\ \A k \in 1 .. n : a[k] = Sox!ControlTestResult(rows[k], p)
      /\ \A k \in 1 .. n : b[k] = Sox!ControlTestResult(again[k], p)
    <2> HIDE DEF a, b
    <2> QED BY <1>1
<1> HIDE DEF a, b
<1>3. Rearranged(a, b, s, n)
    BY <1>2 DEF Rearranged
<1>4. \A i \in DOMAIN a : a[i].amount \in Int
    <2>1. \A i \in 1 .. n : rows[i] \in EntryRows
        BY DEF Rearranged
    <2>2. \A i \in 1 .. n : a[i].amount = rows[i].amount
        BY <1>2 DEF Sox!ControlTestResult
    <2> QED BY <1>2, <2>1, <2>2, SheetsAssumption DEF EntryRows
<1> QED BY <1>2, <1>3, <1>4 DEF a, b

LEMMA CodesAreFinite == IsFiniteSet(Sox!VIOLATION_CODES)
<1>1. \A x : IsFiniteSet({x})
    BY FS_Singleton
<1>2. IsFiniteSet({"no_approver"} \cup {"preparer_is_approver"}
                  \cup {"duplicate_approvers"} \cup {"missing_second_approver"})
    BY <1>1, FS_Union
<1>3. Sox!VIOLATION_CODES
        = {"no_approver"} \cup {"preparer_is_approver"}
          \cup {"duplicate_approvers"} \cup {"missing_second_approver"}
    BY DEF Sox!VIOLATION_CODES
<1> QED BY <1>2, <1>3, Zenon

LEMMA TestOrder ==
    ASSUME NEW a, NEW b, NEW s, NEW n, Rearranged(a, b, s, n), Len(a) = Len(b),
           \A i \in DOMAIN a : a[i].amount \in Int
    PROVE  Sox!summary(a) = Sox!summary(b)
<1> DEFINE Bad(x) == {i \in DOMAIN x : ~x[i].passed}
           Dual(x) == {i \in DOMAIN x : x[i].dual_approval_required}
           Size(x) == [i \in DOMAIN x |-> Sox!Abs(x[i].amount)]
           f == Size(a)
           h == Size(b)
           Codes(x) == {v[2] : v \in ViolationsOf(x)}
           ByCode(x) == [code \in Codes(x) |-> Sox!Cardinality(OfCode(x, code))]
           X == Sox!VIOLATION_CODES
<1>1. /\ Moved(Bad(a), Bad(b), s, n) /\ Moved(Dual(a), Dual(b), s, n)
      /\ Moved(DOMAIN a, DOMAIN b, s, n)
    BY DEF Moved, Rearranged
<1>2. /\ PairsMoved(ViolationsOf(a), ViolationsOf(b), X, s, n)
      /\ \A code : PairsMoved(OfCode(a, code), OfCode(b, code), X, s, n)
    BY DEF PairsMoved, Rearranged, ViolationsOf, OfCode
<1>3. /\ \A k \in DOMAIN a : f[k] \in Int
      /\ \A k \in DOMAIN b : h[k] = f[s[k]]
      /\ DOMAIN f = DOMAIN a /\ DOMAIN h = DOMAIN b
    BY DEF Rearranged, Sox!Abs
<1>4. \A x : Sox!summary(x) = [entries_tested |-> Len(x),
         entries_with_violations |-> Sox!Cardinality(Bad(x)),
         violation_count |-> Sox!Cardinality(ViolationsOf(x)),
         violations_by_code |-> ByCode(x),
         dual_approval_required_count |-> Sox!Cardinality(Dual(x)),
         total_amount_tested |-> Sox!SumFunction(Size(x))]
    BY DEF Sox!summary, ViolationsOf, OfCode
<1>5. Codes(a) = Codes(b)
    <2>1. \A v \in ViolationsOf(a) : <<s[v[1]], v[2]>> \in ViolationsOf(b)
        BY DEF ViolationsOf, Rearranged
    <2>2. \A v \in ViolationsOf(b) : <<s[v[1]], v[2]>> \in ViolationsOf(a)
        BY DEF ViolationsOf, Rearranged
    <2>3. ASSUME NEW c, NEW x, NEW y,
                 \A v \in ViolationsOf(x) : <<s[v[1]], v[2]>> \in ViolationsOf(y), c \in Codes(x)
          PROVE  c \in Codes(y)
        <3>1. PICK v \in ViolationsOf(x) : c = v[2]
            BY <2>3
        <3>2. <<s[v[1]], c>> \in ViolationsOf(y) /\ <<s[v[1]], c>>[2] = c
            BY <2>3, <3>1
        <3> QED BY <3>2
    <2> QED BY <2>1, <2>2, <2>3
<1> HIDE DEF Bad, Dual, Codes, Size, f, h, X
<1>6. /\ Cardinality(Bad(a)) = Cardinality(Bad(b))
      /\ Cardinality(Dual(a)) = Cardinality(Dual(b))
    BY <1>1, MovedCount
<1>7. /\ Cardinality(ViolationsOf(a)) = Cardinality(ViolationsOf(b))
      /\ \A code : Cardinality(OfCode(a, code)) = Cardinality(OfCode(b, code))
    <2>1. IsFiniteSet(X)
        BY CodesAreFinite DEF X
    <2> QED BY <1>2, <2>1, PairsCount
<1>8. SumFunctionOnSet(f, DOMAIN a) = SumFunctionOnSet(h, DOMAIN b)
    <2> DEFINE A == DOMAIN a
               B == DOMAIN b
    <2>1. (\A k \in A : f[k] \in Int) /\ \A k \in B : h[k] = f[s[k]]
        BY <1>3
    <2>2. Moved(A, B, s, n)
        BY <1>1
    <2> HIDE DEF A, B
    <2>3. SumFunctionOnSet(f, A) = SumFunctionOnSet(h, B)
        BY <2>1, <2>2, MovedSum
    <2> QED BY <2>3 DEF A, B
<1>9. Sox!SumFunction(f) = Sox!SumFunction(h)
    BY <1>3, <1>8, TestSums
<1>10. ByCode(a) = ByCode(b)
    <2>1. \A code : Sox!Cardinality(OfCode(a, code)) = Sox!Cardinality(OfCode(b, code))
        BY <1>7, SoxCount
    <2> QED BY <1>5, <2>1
<1>11. /\ Sox!Cardinality(Bad(a)) = Sox!Cardinality(Bad(b))
       /\ Sox!Cardinality(Dual(a)) = Sox!Cardinality(Dual(b))
       /\ Sox!Cardinality(ViolationsOf(a)) = Sox!Cardinality(ViolationsOf(b))
    BY <1>6, <1>7, SoxCount
<1> HIDE DEF ByCode
<1> QED BY <1>4, <1>9, <1>10, <1>11 DEF f, h

-----------------------------------------------------------------------------
(* tax_compliance: no total, no cell and no number of anomalies depends on *)
(* the order of the transactions.                                          *)
TotalOf(c, direction) == {i \in DOMAIN c : /\ c[i].included_in_totals
                                           /\ c[i].vat_direction = direction}
AmountIn(c) == [i \in DOMAIN c |-> c[i].amount]

RaisedIn(c, p) == UNION {{i} \X Tax!anomalies(c[i], p) : i \in DOMAIN c}

AnomalyCodes == {"unrecognized_transaction_type", "unrecognized_treatment",
                 "treatment_rate_mismatch", "unexpected_standard_rate"}

LEMMA AnomalyCodesAreFinite == IsFiniteSet(AnomalyCodes)
<1>1. \A x : IsFiniteSet({x})
    BY FS_Singleton
<1>2. IsFiniteSet({"unrecognized_transaction_type"} \cup {"unrecognized_treatment"}
                  \cup {"treatment_rate_mismatch"} \cup {"unexpected_standard_rate"})
    BY <1>1, FS_Union
<1>3. AnomalyCodes = {"unrecognized_transaction_type"} \cup {"unrecognized_treatment"}
                     \cup {"treatment_rate_mismatch"} \cup {"unexpected_standard_rate"}
    BY DEF AnomalyCodes
<1> QED BY <1>2, <1>3, Zenon

LEMMA ComputedRearranged ==
    ASSUME NEW rows, NEW again, NEW s, NEW n, Rearranged(rows, again, s, n)
    PROVE  Rearranged(ComputedFrom(rows), ComputedFrom(again), s, n)
<1>1. \A book : /\ DOMAIN ComputedFrom(book) = DOMAIN book
                /\ \A i \in DOMAIN book :
                      ComputedFrom(book)[i] = Tax!ComputedTransaction(book[i])
    BY DEF ComputedFrom
<1>2. ASSUME NEW k \in 1 .. n PROVE ComputedFrom(again)[k] = ComputedFrom(rows)[s[k]]
    <2>1. again[k] = rows[s[k]] /\ k \in DOMAIN again /\ s[k] \in DOMAIN rows
        BY DEF Rearranged
    <2> QED BY <1>1, <2>1
<1> QED BY <1>1, <1>2 DEF Rearranged

(* A sum over some of the transactions, restricted to them first.          *)
LEMMA RestrictedSum ==
    ASSUME NEW f, NEW A, IsFiniteSet(A), \A i \in A : f[i] \in Int,
           NEW g, DOMAIN g = A, \A i \in A : g[i] = f[i]
    PROVE  Tax!SumFunction(g) = SumFunctionOnSet(f, A)
<1>1. \A i \in A : g[i] \in Int
    OBVIOUS
<1>2. SumFunctionOnSet(g, A) = SumFunctionOnSet(f, A)
    BY <1>1, SumsAgree
<1>3. Tax!SumFunction(g) = SumFunctionOnSet(g, DOMAIN g)
    BY ProvisionSums
<1> QED BY <1>2, <1>3

LEMMA SameTotals ==
    ASSUME NEW c, NEW d, NEW s, NEW n, Rearranged(c, d, s, n), Computed(c, n), Computed(d, n),
           NEW direction
    PROVE  Tax!VatTotal(c, direction) = Tax!VatTotal(d, direction)
<1> DEFINE A == TotalOf(c, direction)
           B == TotalOf(d, direction)
           f == VatOf(c)
           h == VatOf(d)
           g == [i \in A |-> c[i].computed_vat]
           e == [i \in B |-> d[i].computed_vat]
<1>1. Moved(A, B, s, n)
    BY DEF Moved, Rearranged, TotalOf
<1>2. /\ \A i \in A : f[i] \in Int /\ g[i] = f[i]
      /\ \A i \in B : h[i] \in Int /\ e[i] = h[i] /\ h[i] = f[s[i]]
      /\ DOMAIN g = A /\ DOMAIN e = B
    BY DEF TotalOf, VatOf, Computed, Rearranged
<1>3. /\ Tax!VatTotal(c, direction) = Tax!SumFunction(g)
      /\ Tax!VatTotal(d, direction) = Tax!SumFunction(e)
    BY DEF Tax!VatTotal, TotalOf
<1> HIDE DEF A, B, f, h, g, e
<1>4. IsFiniteSet(A) /\ IsFiniteSet(B)
    BY <1>1, MovedCount
<1>5. /\ \A i \in A : f[i] \in Int
      /\ \A i \in A : g[i] = f[i]
      /\ \A i \in B : h[i] \in Int
      /\ \A i \in B : e[i] = h[i]
      /\ \A i \in B : h[i] = f[s[i]]
    BY <1>2
<1>6. SumFunctionOnSet(f, A) = SumFunctionOnSet(h, B)
    BY <1>1, <1>5, MovedSum
<1>7. Tax!SumFunction(g) = SumFunctionOnSet(f, A)
    BY <1>2, <1>4, <1>5, RestrictedSum
<1>8. Tax!SumFunction(e) = SumFunctionOnSet(h, B)
    BY <1>2, <1>4, <1>5, RestrictedSum
<1> QED BY <1>3, <1>6, <1>7, <1>8

LEMMA SameBreakdown ==
    ASSUME NEW c, NEW d, NEW s, NEW n, Rearranged(c, d, s, n), Computed(c, n), Computed(d, n)
    PROVE  Tax!breakdown(c) = Tax!breakdown(d)
<1> DEFINE Cell(x, A) == [count  |-> Tax!Cardinality(A),
                          amount |-> Tax!SumFunction([i \in A |-> x[i].amount]),
                          vat    |-> Tax!SumFunction([i \in A |-> x[i].computed_vat])]
<1>1. \A x : Tax!breakdown(x) = [cell \in Tax!VAT_TREATMENTS \X Tax!Sides |->
                                    Cell(x, InCell(x, cell))]
    BY DEF Tax!breakdown, InCell
<1>2. ASSUME NEW cell PROVE Cell(c, InCell(c, cell)) = Cell(d, InCell(d, cell))
    <2> DEFINE A == InCell(c, cell)
               B == InCell(d, cell)
               f == VatOf(c)
               h == VatOf(d)
               am == AmountIn(c)
               bm == AmountIn(d)
               fr == [i \in A |-> c[i].computed_vat]
               hr == [i \in B |-> d[i].computed_vat]
               amr == [i \in A |-> c[i].amount]
               bmr == [i \in B |-> d[i].amount]
    <2>1. Moved(A, B, s, n)
        BY DEF Moved, Rearranged, InCell
    <2>2. /\ \A i \in A : f[i] \in Int
          /\ \A i \in A : am[i] \in Int
          /\ \A i \in A : fr[i] = f[i]
          /\ \A i \in A : amr[i] = am[i]
          /\ DOMAIN fr = A /\ DOMAIN amr = A
        BY DEF InCell, VatOf, AmountIn, Computed
    <2>3. /\ \A i \in B : h[i] \in Int
          /\ \A i \in B : bm[i] \in Int
          /\ \A i \in B : hr[i] = h[i]
          /\ \A i \in B : bmr[i] = bm[i]
          /\ \A i \in B : h[i] = f[s[i]]
          /\ \A i \in B : bm[i] = am[s[i]]
          /\ DOMAIN hr = B /\ DOMAIN bmr = B
        BY DEF InCell, VatOf, AmountIn, Computed, Rearranged
    <2> HIDE DEF A, B, f, h, am, bm, fr, hr, amr, bmr
    <2>4. IsFiniteSet(A) /\ IsFiniteSet(B) /\ Cardinality(A) = Cardinality(B)
        BY <2>1, MovedCount
    <2>5. SumFunctionOnSet(f, A) = SumFunctionOnSet(h, B)
        BY <2>1, <2>2, <2>3, MovedSum
    <2>6. SumFunctionOnSet(am, A) = SumFunctionOnSet(bm, B)
        BY <2>1, <2>2, <2>3, MovedSum
    <2>7. Tax!SumFunction(fr) = SumFunctionOnSet(f, A)
        BY <2>2, <2>4, RestrictedSum
    <2>8. Tax!SumFunction(amr) = SumFunctionOnSet(am, A)
        BY <2>2, <2>4, RestrictedSum
    <2>9. Tax!SumFunction(hr) = SumFunctionOnSet(h, B)
        BY <2>3, <2>4, RestrictedSum
    <2>10. Tax!SumFunction(bmr) = SumFunctionOnSet(bm, B)
        BY <2>3, <2>4, RestrictedSum
    <2>11. Tax!Cardinality(A) = Tax!Cardinality(B)
        BY <2>4, ProvisionSums
    <2> QED BY <2>5, <2>6, <2>7, <2>8, <2>9, <2>10, <2>11 DEF A, B, fr, hr, amr, bmr
<1> HIDE DEF Cell
<1> QED BY <1>1, <1>2

LEMMA SameAnomalies ==
    ASSUME NEW c, NEW d, NEW s, NEW n, Rearranged(c, d, s, n), NEW p
    PROVE  /\ IsFiniteSet(RaisedIn(c, p)) /\ IsFiniteSet(RaisedIn(d, p))
           /\ Cardinality(RaisedIn(c, p)) = Cardinality(RaisedIn(d, p))
<1>1. ASSUME NEW x, NEW i PROVE Tax!anomalies(x[i], p) \subseteq AnomalyCodes
    BY DEF Tax!anomalies, AnomalyCodes
<1>2. \A x : RaisedIn(x, p) = {a \in (DOMAIN x) \X AnomalyCodes :
                                  a[2] \in Tax!anomalies(x[a[1]], p)}
    BY <1>1 DEF RaisedIn
<1>3. PairsMoved(RaisedIn(c, p), RaisedIn(d, p), AnomalyCodes, s, n)
    BY <1>2 DEF PairsMoved, Rearranged
<1> QED BY <1>3, AnomalyCodesAreFinite, PairsCount

LEMMA ProvisionOrder ==
    ASSUME NEW p, NEW rows \in Seq(TransactionRows), NEW again \in Seq(TransactionRows),
           Len(again) = Len(rows), NEW s, Rearranged(rows, again, s, Len(rows))
    PROVE  LET first == Tax!compute_provision(rows, p)
               second == Tax!compute_provision(again, p)
           IN  /\ second.net_vat = first.net_vat
               /\ second.by_treatment = first.by_treatment
               /\ Cardinality(second.anomalies) = Cardinality(first.anomalies)
<1> DEFINE n == Len(rows)
           c == ComputedFrom(rows)
           d == ComputedFrom(again)
           Net(x) == Tax!VatTotal(x, "output") - Tax!VatTotal(x, "input")
           Period(net) == {a \in {<<None, "net_refundable_position">>} :
                              p.flag_refundable /\ net < 0}
<1>1. Computed(c, n) /\ Computed(d, n) /\ Rearranged(c, d, s, n)
    <2>1. Computed(c, n)
        BY ComputedLines
    <2>2. Computed(d, Len(again))
        BY ComputedLines
    <2> QED BY <2>1, <2>2, ComputedRearranged
<1>2. \A book : /\ Tax!compute_provision(book, p).net_vat = Net(ComputedFrom(book))
                /\ Tax!compute_provision(book, p).by_treatment
                     = Tax!breakdown(ComputedFrom(book))
                /\ Tax!compute_provision(book, p).anomalies
                     = RaisedIn(ComputedFrom(book), p) \cup Period(Net(ComputedFrom(book)))
    BY DEF Tax!compute_provision, ComputedFrom, RaisedIn
<1>3. Net(c) = Net(d) /\ Tax!breakdown(c) = Tax!breakdown(d)
    BY <1>1, SameTotals, SameBreakdown
<1> DEFINE A == RaisedIn(c, p)
           B == RaisedIn(d, p)
           P == Period(Net(c))
<1>4. IsFiniteSet(A) /\ IsFiniteSet(B) /\ Cardinality(A) = Cardinality(B)
    BY <1>1, SameAnomalies
<1>5. IsFiniteSet(P)
    <2>1. P \in SUBSET {<<None, "net_refundable_position">>}
        OBVIOUS
    <2>2. IsFiniteSet({<<None, "net_refundable_position">>})
        BY FS_Singleton
    <2> HIDE DEF P
    <2> QED BY <2>1, <2>2, FS_Subset
<1>6. A \cap P = {} /\ B \cap P = {}
    <2>1. \A a \in A \cup B : a[1] \in Int
        BY <1>1 DEF RaisedIn, Rearranged
    <2>2. \A a \in P : a[1] = None
        OBVIOUS
    <2> HIDE DEF A, B, P
    <2> QED BY <2>1, <2>2, AbsentAssumption
<1> HIDE DEF A, B, P
<1>7. ASSUME NEW Q, IsFiniteSet(Q), Q \cap P = {}
      PROVE  Cardinality(Q \cup P) = Cardinality(Q) + Cardinality(P)
    <2>1. Cardinality(Q \cup P) = Cardinality(Q) + Cardinality(P) - Cardinality(Q \cap P)
        BY <1>5, <1>7, FS_Union
    <2>2. Cardinality(Q \cap P) = 0
        BY <1>7, FS_EmptySet
    <2>3. Cardinality(Q) \in Nat /\ Cardinality(P) \in Nat
        BY <1>5, <1>7, FS_CardinalityType
    <2> QED BY <2>1, <2>2, <2>3
<1>8. Cardinality(A \cup P) = Cardinality(B \cup P)
    BY <1>4, <1>6, <1>7
<1>9. /\ Tax!compute_provision(rows, p).anomalies = A \cup P
      /\ Tax!compute_provision(again, p).anomalies = B \cup P
    BY <1>2, <1>3 DEF A, B, P
<1>10. /\ Tax!compute_provision(again, p).net_vat = Tax!compute_provision(rows, p).net_vat
       /\ Tax!compute_provision(again, p).by_treatment
            = Tax!compute_provision(rows, p).by_treatment
    BY <1>2, <1>3
<1> QED BY <1>8, <1>9, <1>10

-----------------------------------------------------------------------------
(* close: with no key twice, a file's amounts do not depend on its order.  *)
LEMMA AmountOrder ==
    ASSUME NEW rows, Keyed(rows), NEW again, Len(again) = Len(rows),
           NEW s, Rearranged(rows, again, s, Len(rows))
    PROVE  /\ Keyed(again)
           /\ Close!Keys(again) = Close!Keys(rows)
           /\ \A key : Close!AmountOf(again, key) = Close!AmountOf(rows, key)
<1> DEFINE n == Len(rows)
<1>1. /\ n \in Nat /\ DOMAIN rows = 1 .. n /\ DOMAIN again = 1 .. n
      /\ s \in [1 .. n -> 1 .. n]
      /\ \A k \in 1 .. n : s[s[k]] = k
      /\ \A k \in 1 .. n : again[k] = rows[s[k]]
  BY DEF Rearranged
<1>2. /\ \A i \in 1 .. n : rows[i].amount \in Int
      /\ \A i, j \in 1 .. n : rows[i].key = rows[j].key => i = j
  BY <1>1 DEF Keyed
<1> HIDE DEF n
<1>3. \A k \in 1 .. n : s[k] \in 1 .. n /\ rows[k] = again[s[k]]
  BY <1>1
<1>4. Keyed(again)
  <2>1. \A i \in 1 .. n : again[i].amount \in Int
    BY <1>1, <1>2, <1>3
  <2>2. ASSUME NEW i \in 1 .. n, NEW j \in 1 .. n, again[i].key = again[j].key
        PROVE  i = j
    <3>1. s[i] = s[j]
      BY <2>2, <1>1, <1>2, <1>3
    <3> QED BY <3>1, <1>1
  <2> QED BY <2>1, <2>2, <1>1 DEF Keyed, n
<1>5. Close!Keys(again) = Close!Keys(rows)
  <2>1. Close!Keys(again) \subseteq Close!Keys(rows)
    <3> SUFFICES ASSUME NEW i \in DOMAIN again PROVE again[i].key \in Close!Keys(rows)
      BY DEF Close!Keys
    <3> QED BY <1>1, <1>3 DEF Close!Keys
  <2>2. Close!Keys(rows) \subseteq Close!Keys(again)
    <3> SUFFICES ASSUME NEW i \in DOMAIN rows PROVE rows[i].key \in Close!Keys(again)
      BY DEF Close!Keys
    <3> QED BY <1>1, <1>3 DEF Close!Keys
  <2> QED BY <2>1, <2>2
<1>6. ASSUME NEW key
      PROVE  Close!AmountOf(again, key) = Close!AmountOf(rows, key)
  <2>1. CASE key \notin Close!Keys(rows)
    BY <2>1, <1>4, <1>5, AmountOfRow
  <2>2. CASE key \in Close!Keys(rows)
    <3>1. PICK i \in 1 .. n : rows[i].key = key
      BY <2>2, <1>1 DEF Close!Keys
    <3>2. Close!AmountOf(rows, rows[i].key) = rows[i].amount
      BY <1>1, AmountOfRow
    <3>3. Close!AmountOf(again, again[s[i]].key) = again[s[i]].amount
      BY <1>1, <1>3, <1>4, AmountOfRow
    <3> QED BY <3>1, <3>2, <3>3, <1>3
  <2> QED BY <2>1, <2>2
<1> QED BY <1>4, <1>5, <1>6

(* ... and with that the variances: each is one of two amounts by key.     *)
SameAmounts(rows, again) ==
    /\ Close!Keys(again) = Close!Keys(rows)
    /\ \A key : Close!AmountOf(again, key) = Close!AmountOf(rows, key)

LEMMA VarianceOrder ==
    ASSUME NEW b, NEW c, SameAmounts(b, c), NEW d, NEW e, SameAmounts(d, e), NEW p
    PROVE  Close!compute_variances(c, e, p) = Close!compute_variances(b, d, p)
<1>1. \A key : Close!Presence(c, e, key) = Close!Presence(b, d, key)
  BY DEF Close!Presence, SameAmounts
<1>2. \A key : /\ Close!AmountOf(c, key) = Close!AmountOf(b, key)
               /\ Close!AmountOf(e, key) = Close!AmountOf(d, key)
  BY DEF SameAmounts
<1>3. \A key : Close!LineVariance(c, e, key, p) = Close!LineVariance(b, d, key, p)
  BY <1>1, <1>2, Zenon DEF Close!LineVariance
<1>4. Close!Keys(c) = Close!Keys(b) /\ Close!Keys(e) = Close!Keys(d)
  BY DEF SameAmounts
<1> QED BY <1>3, <1>4, Zenon DEF Close!compute_variances

-----------------------------------------------------------------------------
(* fpa: with no month of a line twice, its rows are all those of its key.  *)
NoMonthTwice(rows) ==
    \A i, j \in DOMAIN rows :
        rows[i].key = rows[j].key /\ rows[i].period = rows[j].period => i = j

LEMMA RowsOfKey ==
    ASSUME NEW rows, NEW n \in Nat, DOMAIN rows = 1 .. n, NoMonthTwice(rows), NEW key
    PROVE  Fpa!Rows(rows, key) = {i \in DOMAIN rows : rows[i].key = key}
<1>1. ASSUME NEW i \in DOMAIN rows, rows[i].key = key,
             NEW j \in DOMAIN rows, j > i, rows[j].key = key, rows[j].period = rows[i].period
      PROVE  FALSE
  <2>1. i = j
    BY <1>1 DEF NoMonthTwice
  <2> QED BY <2>1, <1>1
<1> QED BY <1>1 DEF Fpa!Rows

LEMMA SameRefusal ==
    ASSUME NEW rows \in Seq(HistoryRows), NEW again \in Seq(HistoryRows),
           Len(again) = Len(rows), NEW s, Rearranged(rows, again, s, Len(rows)), NEW p
    PROVE  /\ Fpa!Periods(again) = Fpa!Periods(rows)
           /\ Fpa!Keys(again) = Fpa!Keys(rows)
           /\ Fpa!Refused(again, p) <=> Fpa!Refused(rows, p)
<1> DEFINE n == Len(rows)
<1>1. /\ n \in Nat /\ DOMAIN rows = 1 .. n /\ DOMAIN again = 1 .. n
      /\ \A k \in 1 .. n : s[k] \in 1 .. n /\ again[k] = rows[s[k]] /\ rows[k] = again[s[k]]
  BY DEF Rearranged
<1>2. Fpa!Periods(again) = Fpa!Periods(rows)
  <2>1. Fpa!Periods(again) \subseteq Fpa!Periods(rows)
    <3> SUFFICES ASSUME NEW i \in DOMAIN again PROVE again[i].period \in Fpa!Periods(rows)
      BY DEF Fpa!Periods
    <3> QED BY <1>1 DEF Fpa!Periods
  <2>2. Fpa!Periods(rows) \subseteq Fpa!Periods(again)
    <3> SUFFICES ASSUME NEW i \in DOMAIN rows PROVE rows[i].period \in Fpa!Periods(again)
      BY DEF Fpa!Periods
    <3> QED BY <1>1 DEF Fpa!Periods
  <2> QED BY <2>1, <2>2
<1>3. Fpa!Keys(again) = Fpa!Keys(rows)
  <2>1. Fpa!Keys(again) \subseteq Fpa!Keys(rows)
    <3> SUFFICES ASSUME NEW i \in DOMAIN again PROVE again[i].key \in Fpa!Keys(rows)
      BY DEF Fpa!Keys
    <3> QED BY <1>1 DEF Fpa!Keys
  <2>2. Fpa!Keys(rows) \subseteq Fpa!Keys(again)
    <3> SUFFICES ASSUME NEW i \in DOMAIN rows PROVE rows[i].key \in Fpa!Keys(again)
      BY DEF Fpa!Keys
    <3> QED BY <1>1 DEF Fpa!Keys
  <2> QED BY <2>1, <2>2
<1>4. again = << >> <=> rows = << >>
  <2>1. /\ Len(rows) = 0 <=> rows = << >>
        /\ Len(again) = 0 <=> again = << >>
    OBVIOUS
  <2> QED BY <2>1
<1> QED BY <1>2, <1>3, <1>4 DEF Fpa!Refused

(* The newest row is the same one, wherever it is.                         *)
LEMMA SameBase ==
    ASSUME NEW rows, Dated(rows), NoMonthTwice(rows), NEW again, Dated(again),
           NoMonthTwice(again), NEW s, Rearranged(rows, again, s, Len(rows)),
           NEW key \in Fpa!Keys(rows), key \in Fpa!Keys(again)
    PROVE  /\ again[Fpa!BaseRow(again, key)] = rows[Fpa!BaseRow(rows, key)]
           /\ Fpa!BaseRow(rows, key) = s[Fpa!BaseRow(again, key)]
<1> DEFINE n == Len(rows)
           b == Fpa!BaseRow(rows, key)
           c == Fpa!BaseRow(again, key)
<1>1. /\ n \in Nat /\ DOMAIN rows = 1 .. n /\ DOMAIN again = 1 .. n
      /\ \A k \in 1 .. n : s[k] \in 1 .. n /\ again[k] = rows[s[k]] /\ rows[k] = again[s[k]]
  BY DEF Rearranged
<1>2. /\ Fpa!Rows(rows, key) = {i \in DOMAIN rows : rows[i].key = key}
      /\ Fpa!Rows(again, key) = {i \in DOMAIN again : again[i].key = key}
  BY <1>1, RowsOfKey
<1>3. /\ b \in Fpa!Rows(rows, key)
      /\ \A j \in Fpa!Rows(rows, key) : rows[j].period <= rows[b].period
  BY NewestRow
<1>4. /\ c \in Fpa!Rows(again, key)
      /\ \A j \in Fpa!Rows(again, key) : again[j].period <= again[c].period
  BY NewestRow
<1> HIDE DEF b, c
<1>5. /\ s[c] \in Fpa!Rows(rows, key) /\ again[c] = rows[s[c]]
      /\ s[b] \in Fpa!Rows(again, key) /\ rows[b] = again[s[b]]
  BY <1>1, <1>2, <1>3, <1>4
<1>6. rows[b].period = again[c].period
  <2>1. rows[b].period \in Int /\ again[c].period \in Int
    BY <1>2, <1>3, <1>4 DEF Dated
  <2>2. again[c].period <= rows[b].period
    BY <1>3, <1>5
  <2>3. rows[b].period <= again[c].period
    BY <1>4, <1>5
  <2> QED BY <2>1, <2>2, <2>3
<1>7. s[c] = b
  BY <1>2, <1>3, <1>5, <1>6 DEF NoMonthTwice
<1> QED BY <1>5, <1>7 DEF b, c

(* A line's category is the one its rows give, if they give one.           *)
Givers(rows, key) == {i \in Fpa!Rows(rows, key) : rows[i].category # None}

LEMMA CategoryGiven ==
    ASSUME NEW rows, Dated(rows), NoMonthTwice(rows), NEW key \in Fpa!Keys(rows),
           rows[Fpa!BaseRow(rows, key)].category = None, Givers(rows, key) # {}
    PROVE  \E i \in Givers(rows, key) : Fpa!Category(rows, key) = rows[i].category
<1> DEFINE G == Givers(rows, key)
           n == Len(rows)
<1>1. /\ n \in Nat /\ DOMAIN rows = 1 .. n
      /\ G \subseteq 1 .. n
  BY RowsOfKey DEF Dated, Givers, Fpa!Rows
<1>2. \A i \in G : Fpa!Place(rows, i) = i
  <2> SUFFICES ASSUME NEW i \in G PROVE Fpa!Place(rows, i) = i
    OBVIOUS
  <2>1. {j \in DOMAIN rows : rows[j].key = rows[i].key /\ rows[j].period = rows[i].period}
          = {i}
    BY <1>1 DEF NoMonthTwice
  <2>2. Fpa!Place(rows, i) = Fpa!Min({i})
    BY <2>1 DEF Fpa!Place
  <2> QED BY <1>1, <2>2 DEF Fpa!Min
<1>3. \E i \in G : \A j \in G : i <= j
  <2>1. IsFiniteSet(G)
    BY <1>1, FirstNumbers, FS_Subset
  <2>2. G \subseteq Int
    BY <1>1
  <2> QED BY <2>1, <2>2, Extremes
<1>4. \E i \in G : \A j \in G : Fpa!Place(rows, i) <= Fpa!Place(rows, j)
  BY <1>2, <1>3
<1> DEFINE first == CHOOSE i \in G : \A j \in G : Fpa!Place(rows, i) <= Fpa!Place(rows, j)
<1>5. first \in G
  BY <1>4
<1>6. Fpa!Category(rows, key) = rows[first].category
  BY Zenon DEF Fpa!Category, Givers
<1> HIDE DEF first
<1> QED BY <1>5, <1>6

-----------------------------------------------------------------------------
(* No two rows that give a blank category another than each other.         *)
LEMMA SameCategory ==
    ASSUME NEW rows, Dated(rows), NoMonthTwice(rows), NEW again, Dated(again),
           NoMonthTwice(again), NEW s, Rearranged(rows, again, s, Len(rows)),
           NEW key \in Fpa!Keys(rows), key \in Fpa!Keys(again), OneCategory(rows, key)
    PROVE  Fpa!Category(again, key) = Fpa!Category(rows, key)
<1> DEFINE n == Len(rows)
           base == rows[Fpa!BaseRow(rows, key)]
           G == Givers(rows, key)
           H == Givers(again, key)
<1>1. /\ n \in Nat /\ DOMAIN rows = 1 .. n /\ DOMAIN again = 1 .. n
      /\ \A k \in 1 .. n : s[k] \in 1 .. n /\ again[k] = rows[s[k]] /\ rows[k] = again[s[k]]
  BY DEF Rearranged
<1>2. /\ Fpa!Rows(rows, key) = {i \in DOMAIN rows : rows[i].key = key}
      /\ Fpa!Rows(again, key) = {i \in DOMAIN again : again[i].key = key}
  BY <1>1, RowsOfKey
<1>3. again[Fpa!BaseRow(again, key)] = base
  BY SameBase
<1>4. /\ \A i \in H : s[i] \in G /\ again[i].category = rows[s[i]].category
      /\ \A i \in G : s[i] \in H
  BY <1>1, <1>2 DEF Givers
<1>5. CASE base.category # None
  <2>1. Fpa!Category(again, key) = base.category
    BY <1>3, <1>5, Zenon DEF Fpa!Category
  <2>2. Fpa!Category(rows, key) = base.category
    BY <1>5, Zenon DEF Fpa!Category
  <2> QED BY <2>1, <2>2
<1>6. CASE G = {}
  <2>1. H = {}
    BY <1>4, <1>6
  <2>2. Fpa!Category(again, key) = base.category
    BY <1>3, <2>1, Zenon DEF Fpa!Category, Givers
  <2>3. Fpa!Category(rows, key) = base.category
    BY <1>6, Zenon DEF Fpa!Category, Givers
  <2> QED BY <2>2, <2>3
<1>7. CASE base.category = None /\ G # {}
  <2>1. H # {}
    BY <1>4, <1>7
  <2>2. PICK i \in G : Fpa!Category(rows, key) = rows[i].category
    BY <1>7, CategoryGiven
  <2>3. PICK j \in H : Fpa!Category(again, key) = again[j].category
    BY <1>3, <1>7, <2>1, CategoryGiven
  <2>4. /\ rows[i].category \in {rows[k].category : k \in Fpa!Rows(rows, key)} \ {None}
        /\ rows[s[j]].category \in {rows[k].category : k \in Fpa!Rows(rows, key)} \ {None}
    BY <1>4 DEF Givers
  <2>5. rows[i].category = rows[s[j]].category
    BY <1>7, <2>4, Zenon DEF OneCategory
  <2> QED BY <1>4, <2>2, <2>3, <2>5
<1> QED BY <1>5, <1>6, <1>7

(* The forecast of the rows in another order is the same.                  *)
LEMMA ForecastOrder ==
    ASSUME NEW rows \in Seq(HistoryRows), NEW again \in Seq(HistoryRows),
           Len(again) = Len(rows), NEW s, Rearranged(rows, again, s, Len(rows)), NEW p,
           ~Fpa!Refused(rows, p) =>
              /\ NoMonthTwice(rows)
              /\ \A key \in Fpa!Keys(rows) : OneCategory(rows, key)
    PROVE  Fpa!project_forecast(again, p) = Fpa!project_forecast(rows, p)
<1>1. /\ Fpa!Periods(again) = Fpa!Periods(rows)
      /\ Fpa!Keys(again) = Fpa!Keys(rows)
      /\ Fpa!Refused(again, p) <=> Fpa!Refused(rows, p)
  BY SameRefusal
<1>2. CASE Fpa!Refused(rows, p)
  <2>1. /\ Fpa!project_forecast(again, p) = ValueError
        /\ Fpa!project_forecast(rows, p) = ValueError
    BY <1>1, <1>2 DEF Fpa!project_forecast
  <2> QED BY <2>1
<1>3. CASE ~Fpa!Refused(rows, p)
  <2> DEFINE n == Len(rows)
             newest == Fpa!Max(Fpa!Periods(rows))
  <2>1. /\ n \in Nat /\ DOMAIN rows = 1 .. n /\ DOMAIN again = 1 .. n
        /\ \A k \in 1 .. n : s[k] \in 1 .. n /\ s[s[k]] = k /\ again[k] = rows[s[k]]
    BY DEF Rearranged
  <2>2. Dated(rows)
    <3>1. \A i \in DOMAIN rows : rows[i] \in HistoryRows /\ rows[i].period # Unreadable
      BY <1>3 DEF Fpa!Refused, Fpa!Periods
    <3> QED BY <3>1, SheetsAssumption DEF Dated, HistoryRows
  <2>3. Dated(again)
    <3>1. \A i \in DOMAIN again : again[i] \in HistoryRows /\ again[i].period # Unreadable
      BY <1>1, <1>3 DEF Fpa!Refused, Fpa!Periods
    <3> QED BY <3>1, SheetsAssumption DEF Dated, HistoryRows
  <2>4. NoMonthTwice(rows)
    BY <1>3
  <2>5. NoMonthTwice(again)
    <3> SUFFICES ASSUME NEW i \in 1 .. n, NEW j \in 1 .. n,
                        again[i].key = again[j].key, again[i].period = again[j].period
                 PROVE  i = j
      BY <2>1 DEF NoMonthTwice
    <3>1. s[i] = s[j]
      BY <2>1, <2>4 DEF NoMonthTwice
    <3> QED BY <2>1, <3>1
  <2>6. ASSUME NEW key \in Fpa!Keys(rows)
        PROVE  /\ again[Fpa!BaseRow(again, key)] = rows[Fpa!BaseRow(rows, key)]
               /\ Fpa!Category(again, key) = Fpa!Category(rows, key)
    <3>1. key \in Fpa!Keys(again) /\ OneCategory(rows, key)
      BY <1>1, <1>3
    <3>2. again[Fpa!BaseRow(again, key)] = rows[Fpa!BaseRow(rows, key)]
      BY <2>2, <2>3, <2>4, <2>5, <3>1, SameBase
    <3>3. Fpa!Category(again, key) = Fpa!Category(rows, key)
      BY <2>2, <2>3, <2>4, <2>5, <3>1, SameCategory
    <3> QED BY <3>2, <3>3
  <2>7. ASSUME NEW key \in Fpa!Keys(rows), NEW k
        PROVE  Projected(again, p, key, k) = Projected(rows, p, key, k)
    <3>1. Fpa!Max(Fpa!Periods(again)) = Fpa!Max(Fpa!Periods(rows))
      BY <1>1, Zenon
    <3> QED BY <2>6, <3>1, Zenon DEF Fpa!ProjectedLine, Projected
  <2>8. /\ IsReport(Fpa!project_forecast(rows, p), rows, p)
        /\ IsReport(Fpa!project_forecast(again, p), again, p)
    <3>1. ~Fpa!Refused(rows, p) /\ ~Fpa!Refused(again, p)
      BY <1>1, <1>3
    <3>2. IsReport(Fpa!project_forecast(rows, p), rows, p)
      BY <3>1, LinesOfReport DEF IsReport
    <3>3. IsReport(Fpa!project_forecast(again, p), again, p)
      BY <3>1, LinesOfReport DEF IsReport
    <3> QED BY <3>2, <3>3
  <2> QED BY <1>1, <2>7, <2>8 DEF IsReport
<1> QED BY <1>2, <1>3

-----------------------------------------------------------------------------
(* reconciliation: the exact pairs are counted by what their lines say.    *)
Named(rows) == {row \in {rows[i] : i \in DOMAIN rows} : row.reference # None}

Pairable(bank, ledger, row) ==
    Min({Cardinality(EqualTo(bank, row)), Cardinality(EqualTo(ledger, row))})

LEMMA ExactCount ==
    ASSUME NEW bank, NEW ledger, Lines(bank), Lines(ledger), NEW exact,
           ExactUpTo(bank, ledger, exact, Len(bank)),
           NEW h, \A row \in Named(bank) : h[row] = Pairable(bank, ledger, row)
    PROVE  SumFunctionOnSet(h, Named(bank)) = Cardinality(exact)
<1> DEFINE K == Named(bank)
           part == [row \in K |-> PairsOfRow(exact, bank, row)]
<1>1. /\ exact \in SUBSET PairsOf(bank, ledger) /\ OnceEach(exact)
      /\ \A pair \in exact : IsExact(bank, ledger, pair)
  BY DEF ExactUpTo
<1>2. IsFiniteSet(exact)
  <2>2. IsFiniteSet(1 .. Len(bank))
    BY FirstNumbers DEF Lines
  <2> DEFINE name == [pair \in exact |-> pair.bank]
  <2>4. name \in Injection(exact, 1 .. Len(bank))
    BY <1>1 DEF Injection, IsInjective, PairsOf, OnceEach
  <2> HIDE DEF name
  <2> QED BY <2>2, <2>4, FS_Injection
<1>3. IsFiniteSet(K)
  <2>1. IsFiniteSet(1 .. Len(bank)) /\ DOMAIN bank = 1 .. Len(bank)
    BY FirstNumbers DEF Lines
  <2>2. IsFiniteSet({bank[i] : i \in 1 .. Len(bank)})
    BY <2>1, FiniteValues
  <2>3. K \subseteq {bank[i] : i \in 1 .. Len(bank)}
    BY <2>1 DEF Named
  <2> HIDE DEF K
  <2> QED BY <2>2, <2>3, FS_Subset
<1>4. part \in [K -> SUBSET exact]
  BY DEF PairsOfRow
<1>5. \A k, l \in K : part[k] \cap part[l] # {} => k = l
  BY DEF PairsOfRow
<1>6. \A pair \in exact : \E k \in K : pair \in part[k]
  <2> SUFFICES ASSUME NEW pair \in exact PROVE \E k \in K : pair \in part[k]
    OBVIOUS
  <2>1. /\ pair.bank \in DOMAIN bank /\ bank[pair.bank].reference # None
    BY <1>1 DEF PairsOf, IsExact, Lines
  <2>2. bank[pair.bank] \in K
    BY <2>1 DEF Named
  <2> QED BY <2>2 DEF PairsOfRow
<1>7. \A k \in K : h[k] = Cardinality(part[k])
  <2> SUFFICES ASSUME NEW k \in K PROVE h[k] = Cardinality(part[k])
    OBVIOUS
  <2>1. k.reference # None
    BY DEF Named
  <2>2. Cardinality(PairsOfRow(exact, bank, k)) = Pairable(bank, ledger, k)
    BY <2>1, AsManyAsThereAre DEF Pairable
  <2> QED BY <2>2
<1> HIDE DEF part, K
<1>8. SumFunctionOnSet(h, K) = Cardinality(exact)
  BY <1>2, <1>3, <1>4, <1>5, <1>6, <1>7, CountGrouped
<1> QED BY <1>8 DEF K

(* What a line says and how often does not depend on the order.            *)
LEMMA NamedOrder ==
    ASSUME NEW rows, NEW again, NEW s, NEW n, Rearranged(rows, again, s, n)
    PROVE  /\ Named(again) = Named(rows)
           /\ \A row : Cardinality(EqualTo(again, row)) = Cardinality(EqualTo(rows, row))
<1>1. /\ n \in Nat /\ DOMAIN rows = 1 .. n /\ DOMAIN again = 1 .. n
      /\ \A k \in 1 .. n : s[k] \in 1 .. n /\ s[s[k]] = k /\ again[k] = rows[s[k]]
      /\ \A k \in 1 .. n : rows[k] = again[s[k]]
  BY DEF Rearranged
<1>2. Named(again) = Named(rows)
  <2>1. {again[i] : i \in 1 .. n} = {rows[i] : i \in 1 .. n}
    BY <1>1
  <2>2. /\ Named(again) = {row \in {again[i] : i \in 1 .. n} : row.reference # None}
        /\ Named(rows) = {row \in {rows[i] : i \in 1 .. n} : row.reference # None}
    BY <1>1 DEF Named
  <2> QED BY <2>1, <2>2
<1>3. ASSUME NEW row
      PROVE  Cardinality(EqualTo(again, row)) = Cardinality(EqualTo(rows, row))
  <2>1. Moved(EqualTo(rows, row), EqualTo(again, row), s, n)
    BY <1>1 DEF Moved, EqualTo
  <2> QED BY <2>1, MovedCount
<1> QED BY <1>2, <1>3

(* The sum of a sheet's amounts does not either.                           *)
LEMMA AmountsOrder ==
    ASSUME NEW rows, NEW again, NEW s, NEW n, Rearranged(rows, again, s, n),
           \A i \in DOMAIN rows : rows[i].amount \in Int
    PROVE  SumOfAmounts(again) = SumOfAmounts(rows)
<1>1. /\ n \in Nat /\ DOMAIN rows = 1 .. n /\ DOMAIN again = 1 .. n
      /\ \A k \in 1 .. n : s[k] \in 1 .. n /\ again[k] = rows[s[k]]
  BY DEF Rearranged
<1> DEFINE D == 1 .. n
           f == [i \in D |-> rows[i].amount]
           g == [i \in D |-> again[i].amount]
<1>2. Moved(D, D, s, n)
  BY <1>1 DEF Moved
<1>3. \A k \in D : f[k] \in Int
  BY <1>1
<1>4. \A k \in D : g[k] = f[s[k]]
  BY <1>1
<1>5. /\ SumOfAmounts(rows) = SumFunctionOnSet(f, D)
      /\ SumOfAmounts(again) = SumFunctionOnSet(g, D)
  <2>1. DOMAIN f = D /\ DOMAIN g = D
    OBVIOUS
  <2>2. /\ SumOfAmounts(rows) = SumFunction(f)
        /\ SumOfAmounts(again) = SumFunction(g)
    BY <1>1 DEF SumOfAmounts
  <2> HIDE DEF D, f, g
  <2> QED BY <2>1, <2>2, SumIsOnDomain
<1> HIDE DEF D, f, g
<1>6. SumFunctionOnSet(f, D) = SumFunctionOnSet(g, D)
  BY <1>2, <1>3, <1>4, MovedSum
<1> QED BY <1>5, <1>6

-----------------------------------------------------------------------------
BankRows == Sheets["reconciliation"]["bank"]
LedgerRows == Sheets["reconciliation"]["ledger"]

(* What a report counts and how far apart its sides are, whatever the run. *)
LEMMA ReportFigures ==
    ASSUME NEW bank \in Seq(BankRows), NEW ledger \in Seq(LedgerRows), NEW days \in Int
    PROVE  LET report == Recon!ReconciliationReport(bank, ledger, days)
           IN  /\ Lines(bank) /\ Lines(ledger)
               /\ \A i \in DOMAIN bank : bank[i].amount \in Int
               /\ \A i \in DOMAIN ledger : ledger[i].amount \in Int
               /\ report.difference = SumOfAmounts(bank) - SumOfAmounts(ledger)
               /\ report.matched_exact_count = Cardinality(Recon!match_exact(bank, ledger))
<1> DEFINE exact == Recon!match_exact(bank, ledger)
           matched == Recon!match_tolerance(bank, ledger, exact, days)
           report == Recon!ReconciliationReport(bank, ledger, days)
           exceptions == report.exceptions
<1>1. /\ Lines(bank) /\ Lines(ledger)
      /\ \A i \in DOMAIN bank : bank[i].amount \in Int
      /\ \A i \in DOMAIN ledger : ledger[i].amount \in Int
  <2>1. \A S : \A s \in Seq(S) : /\ Len(s) \in Nat /\ DOMAIN s = 1 .. Len(s)
                                 /\ \A i \in DOMAIN s : s[i] \in S
    OBVIOUS
  <2> QED BY <2>1, SheetsAssumption DEF Lines, BankRows, LedgerRows
<1>2. ExactUpTo(bank, ledger, exact, Len(bank))
  BY <1>1, ExactPass
<1>3. NearUpTo(bank, ledger, days, exact, matched, Len(bank))
  <2>1. exact \in SUBSET PairsOf(bank, ledger) /\ OnceEach(exact)
    BY <1>2 DEF ExactUpTo
  <2> HIDE DEF exact
  <2> QED BY <1>1, <2>1, NearPass
<1>4. /\ exceptions["bank"] = Recon!Unmatched(Len(bank), matched, "bank")
      /\ exceptions["ledger"] = Recon!Unmatched(Len(ledger), matched, "ledger")
      /\ report.difference = Recon!SideTotal(bank, matched, exceptions, "bank")
                               - Recon!SideTotal(ledger, matched, exceptions, "ledger")
  BY DEF Recon!ReconciliationReport, Recon!match_transactions
<1>5. report.matched_exact_count
        = Recon!Cardinality({pair \in matched : pair.match_type = "exact"})
  BY DEF Recon!ReconciliationReport, Recon!match_transactions
<1> HIDE DEF exact, matched, report, exceptions
<1>6. Recon!SideTotal(bank, matched, exceptions, "bank") = SumOfAmounts(bank)
  <2>1. \A pair \in matched : pair["bank"] \in 1 .. Len(bank)
    BY <1>3 DEF NearUpTo, PairsOf
  <2>2. \A p, q \in matched : p["bank"] = q["bank"] => p = q
    BY <1>3 DEF NearUpTo, OnceEach
  <2> QED BY <1>1, <1>4, <2>1, <2>2, SideAddsUp DEF Lines
<1>7. Recon!SideTotal(ledger, matched, exceptions, "ledger") = SumOfAmounts(ledger)
  <2>1. \A pair \in matched : pair["ledger"] \in 1 .. Len(ledger)
    BY <1>3 DEF NearUpTo, PairsOf
  <2>2. \A p, q \in matched : p["ledger"] = q["ledger"] => p = q
    BY <1>3 DEF NearUpTo, OnceEach
  <2> QED BY <1>1, <1>4, <2>1, <2>2, SideAddsUp DEF Lines
<1>8. {pair \in matched : pair.match_type = "exact"} = exact
  <2>1. \A pair \in exact : pair \in matched /\ pair.match_type = "exact"
    BY <1>2, <1>3 DEF ExactUpTo, NearUpTo, IsExact
  <2>2. \A pair \in matched \ exact : pair.match_type = "tolerance"
    BY <1>3 DEF NearUpTo, IsNear
  <2> QED BY <2>1, <2>2
<1>9. \A S : Recon!Cardinality(S) = Cardinality(S)
  BY DEF Recon!Cardinality, Cardinality
<1> QED BY <1>1, <1>4, <1>5, <1>6, <1>7, <1>8, <1>9 DEF report, exact

(* Neither depends on the order of the lines.                              *)
LEMMA ReportOrder ==
    ASSUME NEW bank \in Seq(BankRows), NEW ledger \in Seq(LedgerRows),
           NEW bank2 \in Seq(BankRows), NEW ledger2 \in Seq(LedgerRows), NEW days \in Int,
           NEW s, Rearranged(bank, bank2, s, Len(bank)),
           NEW t, Rearranged(ledger, ledger2, t, Len(ledger))
    PROVE  LET report == Recon!ReconciliationReport(bank, ledger, days)
               other == Recon!ReconciliationReport(bank2, ledger2, days)
           IN  /\ other.matched_exact_count = report.matched_exact_count
               /\ other.difference = report.difference
<1> DEFINE exact == Recon!match_exact(bank, ledger)
           exact2 == Recon!match_exact(bank2, ledger2)
           h == [row \in Named(bank) |-> Pairable(bank, ledger, row)]
<1>1. /\ Lines(bank) /\ Lines(ledger)
      /\ \A i \in DOMAIN bank : bank[i].amount \in Int
      /\ \A i \in DOMAIN ledger : ledger[i].amount \in Int
      /\ Lines(bank2) /\ Lines(ledger2)
  BY ReportFigures
<1>2. /\ ExactUpTo(bank, ledger, exact, Len(bank))
      /\ ExactUpTo(bank2, ledger2, exact2, Len(bank2))
  BY <1>1, ExactPass
<1>3. /\ Named(bank2) = Named(bank)
      /\ \A row : Cardinality(EqualTo(bank2, row)) = Cardinality(EqualTo(bank, row))
      /\ \A row : Cardinality(EqualTo(ledger2, row)) = Cardinality(EqualTo(ledger, row))
  BY NamedOrder
<1>4. \A row \in Named(bank) : h[row] = Pairable(bank, ledger, row)
  OBVIOUS
<1>5. \A row \in Named(bank2) : h[row] = Pairable(bank2, ledger2, row)
  BY <1>3 DEF Pairable
<1> HIDE DEF exact, exact2, h
<1>6. SumFunctionOnSet(h, Named(bank)) = Cardinality(exact)
  BY <1>1, <1>2, <1>4, ExactCount
<1>7. SumFunctionOnSet(h, Named(bank2)) = Cardinality(exact2)
  BY <1>1, <1>2, <1>5, ExactCount
<1>8. Cardinality(exact2) = Cardinality(exact)
  BY <1>3, <1>6, <1>7
<1>9. /\ SumOfAmounts(bank2) = SumOfAmounts(bank)
      /\ SumOfAmounts(ledger2) = SumOfAmounts(ledger)
  BY <1>1, AmountsOrder
<1> QED BY <1>8, <1>9, ReportFigures DEF exact, exact2

(* Every sheet is its own rearrangement.                                   *)
LEMMA RearrangedSame ==
    ASSUME NEW X, NEW rows \in Seq(X)
    PROVE  \E s : Rearranged(rows, rows, s, Len(rows))
<1> DEFINE s == [k \in 1 .. Len(rows) |-> k]
<1>1. Len(rows) \in Nat /\ DOMAIN rows = 1 .. Len(rows)
  OBVIOUS
<1>2. Rearranged(rows, rows, s, Len(rows))
  BY <1>1 DEF Rearranged
<1> QED BY <1>2

-----------------------------------------------------------------------------
(* regulatory_change: how many are ahead of each, of ranked records, are   *)
(* the numbers from 0 on, so how many are surfaced depends on how many     *)
(* there are and on nothing else.                                          *)
LEMMA AheadOrNot ==
    ASSUME NEW R, RankedSet(R), NEW r \in R, NEW s \in R, r # s
    PROVE  /\ Cardinality(Ahead(R, r)) \in 0 .. Cardinality(R) - 1
           /\ Cardinality(Ahead(R, r)) # Cardinality(Ahead(R, s))
<1>1. /\ IsFiniteSet(R)
      /\ \A x \in R : x.score \in Nat /\ x.control_id \in Nat
      /\ \A x, y \in R : x.control_id = y.control_id => x = y
  BY DEF RankedSet
<1>2. ASSUME NEW x \in R
      PROVE  /\ IsFiniteSet(Ahead(R, x)) /\ Ahead(R, x) \in SUBSET R
             /\ x \notin Ahead(R, x) /\ Cardinality(Ahead(R, x)) \in Nat
  <2>1. Ahead(R, x) \in SUBSET R
    BY DEF Ahead
  <2>2. ~Reg!Before(x, x)
    BY <1>1 DEF Reg!Before
  <2> QED BY <1>1, <2>1, <2>2, FS_Subset, FS_CardinalityType DEF Ahead
<1>3. ASSUME NEW x \in R, NEW y \in R, Reg!Before(x, y)
      PROVE  Cardinality(Ahead(R, x)) < Cardinality(Ahead(R, y))
  <2>1. Ahead(R, x) \subseteq Ahead(R, y)
    <3> SUFFICES ASSUME NEW z \in R, Reg!Before(z, x) PROVE Reg!Before(z, y)
      BY DEF Ahead
    <3> QED BY <1>1, <1>3 DEF Reg!Before
  <2>2. x \in Ahead(R, y) /\ x \notin Ahead(R, x)
    BY <1>2, <1>3 DEF Ahead
  <2>3. /\ Cardinality(Ahead(R, x)) <= Cardinality(Ahead(R, y))
        /\ Cardinality(Ahead(R, x)) # Cardinality(Ahead(R, y))
    BY <1>2, <2>1, <2>2, FS_Subset
  <2>4. Cardinality(Ahead(R, x)) \in Nat /\ Cardinality(Ahead(R, y)) \in Nat
    BY <1>2
  <2> QED BY <2>3, <2>4
<1>4. Reg!Before(r, s) \/ Reg!Before(s, r)
  <2>1. r.control_id # s.control_id
    BY <1>1
  <2> QED BY <1>1, <2>1 DEF Reg!Before
<1>5. Cardinality(Ahead(R, r)) # Cardinality(Ahead(R, s))
  <2>1. Cardinality(Ahead(R, r)) \in Nat /\ Cardinality(Ahead(R, s)) \in Nat
    BY <1>2
  <2> QED BY <1>3, <1>4, <2>1
<1>6. Cardinality(Ahead(R, r)) \in 0 .. Cardinality(R) - 1
  <2>1. /\ Ahead(R, r) \in SUBSET (R \ {r})
        /\ IsFiniteSet(R \ {r}) /\ Cardinality(R \ {r}) = Cardinality(R) - 1
    BY <1>1, <1>2, FS_RemoveElement
  <2>2. Cardinality(Ahead(R, r)) <= Cardinality(R \ {r})
    BY <2>1, FS_Subset
  <2>3. Cardinality(Ahead(R, r)) \in Nat /\ Cardinality(R) \in Nat
    BY <1>1, <1>2, FS_CardinalityType
  <2> QED BY <2>1, <2>2, <2>3
<1> QED BY <1>5, <1>6

Surfaced(R, kept) == {r \in R : Cardinality(Ahead(R, r)) < kept}

LEMMA SurfacedAreCounted ==
    ASSUME NEW R, RankedSet(R), NEW kept \in Int
    PROVE  Cardinality(Surfaced(R, kept))
             = Cardinality({k \in 0 .. Cardinality(R) - 1 : k < kept})
<1> DEFINE D == 0 .. Cardinality(R) - 1
           rank == [r \in R |-> Cardinality(Ahead(R, r))]
           T == {k \in D : k < kept}
           F == Surfaced(R, kept)
           some == [r \in F |-> rank[r]]
<1>1. IsFiniteSet(R) /\ Cardinality(R) \in Nat
  BY FS_CardinalityType DEF RankedSet
<1>2. IsFiniteSet(D) /\ Cardinality(D) = Cardinality(R)
  <2> DEFINE m == Cardinality(R)
  <2>1. m \in Nat
    BY <1>1
  <2> HIDE DEF m
  <2>2. 0 \in Int /\ m - 1 \in Int
    BY <2>1
  <2>3. /\ IsFiniteSet(0 .. m - 1)
        /\ Cardinality(0 .. m - 1) = IF 0 > m - 1 THEN 0 ELSE m - 1 - 0 + 1
    BY <2>2, FS_Interval
  <2>4. Cardinality(0 .. m - 1) = m
    BY <2>1, <2>3
  <2> QED BY <2>3, <2>4 DEF m
<1>3. rank \in Injection(R, D)
  <2>1. ASSUME NEW r \in R PROVE rank[r] \in D
    <3>1. CASE R = {r}
      <4>1. Ahead(R, r) = {}
        <5>1. r.score \in Nat /\ r.control_id \in Nat
          BY DEF RankedSet
        <5>2. ~Reg!Before(r, r)
          BY <5>1 DEF Reg!Before
        <5> QED BY <3>1, <5>2 DEF Ahead
      <4>2. Cardinality(R) = 1 /\ Cardinality(Ahead(R, r)) = 0
        BY <3>1, <4>1, FS_Singleton, FS_EmptySet
      <4> QED BY <4>2
    <3>2. CASE R # {r}
      <4>1. PICK s \in R : r # s
        BY <3>2
      <4> QED BY <4>1, AheadOrNot
    <3> QED BY <3>1, <3>2
  <2>2. \A r, s \in R : rank[r] = rank[s] => r = s
    BY AheadOrNot
  <2> HIDE DEF D
  <2>3. rank \in [R -> D]
    BY <2>1
  <2> HIDE DEF rank
  <2> QED BY <2>2, <2>3 DEF Injection, IsInjective
<1>4. rank \in Surjection(R, D)
  <2> HIDE DEF D, rank
  <2> QED BY <1>2, <1>3, FS_Injection
<1>5. \A r \in F : rank[r] = Cardinality(Ahead(R, r)) /\ rank[r] < kept
  BY DEF Surfaced
<1>6. \A r \in R : rank[r] < kept => r \in F
  BY DEF Surfaced
<1>7. F \subseteq R /\ \A r \in F : some[r] = rank[r]
  BY DEF Surfaced
<1>8. some \in [F -> T]
  <2>1. \A r \in F : rank[r] \in T
    BY <1>3, <1>5, <1>7 DEF Injection
  <2> QED BY <2>1
<1> HIDE DEF D, rank, F
<1>9. some \in Injection(F, T)
  <2>1. \A r, s \in F : some[r] = some[s] => r = s
    BY <1>3, <1>7 DEF Injection, IsInjective
  <2> HIDE DEF some, T
  <2> QED BY <1>8, <2>1 DEF Injection, IsInjective
<1>10. some \in Surjection(F, T)
  <2>1. ASSUME NEW k \in T PROVE \E r \in F : some[r] = k
    <3>1. k \in D /\ k < kept
      OBVIOUS
    <3>2. PICK r \in R : rank[r] = k
      BY <1>4, <3>1 DEF Surjection
    <3>3. r \in F
      BY <1>6, <3>1, <3>2
    <3> QED BY <1>7, <3>2, <3>3
  <2> HIDE DEF some, T
  <2> QED BY <1>8, <2>1 DEF Surjection
<1>11. IsFiniteSet(T)
  BY <1>2, FS_Subset
<1> HIDE DEF some
<1>12. Cardinality(F) = Cardinality(T)
  BY <1>9, <1>10, <1>11, FS_Injection
<1> QED BY <1>12 DEF F, T, D

-----------------------------------------------------------------------------
(* The controls' records are counted by their places.                      *)
PlacesFound(p, rows) == {i \in DOMAIN rows : RelevanceOf(p, rows[i], i).relevant}

AtPlaces(p, rows, S) == {RelevanceOf(p, rows[i], i) : i \in S}

LEMMA CountedByPlace ==
    ASSUME NEW p \in Policies["regulatory_change"], NEW rows, NEW S, IsFiniteSet(S)
    PROVE  Cardinality(AtPlaces(p, rows, S)) = Cardinality(S)
<1> DEFINE f == [i \in S |-> RelevanceOf(p, rows[i], i)]
           T == AtPlaces(p, rows, S)
<1>1. \A i \in S : f[i].control_id = i
  BY RelevanceIsCounted
<1>2. T = {f[i] : i \in S} /\ f \in [S -> T]
  BY DEF AtPlaces
<1> HIDE DEF f, T
<1>3. f \in Bijection(S, T)
  <2>1. \A i, j \in S : f[i] = f[j] => i = j
    BY <1>1
  <2>2. \A t \in T : \E i \in S : f[i] = t
    BY <1>2
  <2> QED BY <1>2, <2>1, <2>2 DEF Bijection, Injection, Surjection, IsInjective
<1>4. ExistsBijection(S, T)
  BY <1>3 DEF ExistsBijection
<1>5. Cardinality(T) = Cardinality(S)
  BY <1>4, FS_Bijection
<1> QED BY <1>5 DEF T

LEMMA FoundAtPlaces ==
    ASSUME NEW p, NEW rows
    PROVE  Found(p, rows) = AtPlaces(p, rows, PlacesFound(p, rows))
BY DEF Found, AtPlaces, PlacesFound

(* A control is as relevant wherever it is.                                *)
LEMMA PlaceIsIrrelevant ==
    ASSUME NEW p, NEW control, NEW i, NEW j
    PROVE  /\ RelevanceOf(p, control, i).score = RelevanceOf(p, control, j).score
           /\ RelevanceOf(p, control, i).relevant = RelevanceOf(p, control, j).relevant
BY DEF RelevanceOf, Reg!ControlRelevance

LEMMA FoundOrder ==
    ASSUME NEW p \in Policies["regulatory_change"], NEW X, NEW rows \in Seq(X),
           NEW again \in Seq(X), NEW s, NEW n, Rearranged(rows, again, s, n)
    PROVE  /\ Cardinality(Found(p, again)) = Cardinality(Found(p, rows))
           /\ \A r \in Found(p, again) : \E q \in Found(p, rows) : r.score = q.score
<1> DEFINE A == PlacesFound(p, rows)
           B == PlacesFound(p, again)
<1>1. /\ n \in Nat /\ DOMAIN rows = 1 .. n /\ DOMAIN again = 1 .. n
      /\ \A k \in 1 .. n : s[k] \in 1 .. n /\ again[k] = rows[s[k]]
  BY DEF Rearranged
<1>2. \A k \in 1 .. n :
         /\ RelevanceOf(p, again[k], k).score = RelevanceOf(p, rows[s[k]], s[k]).score
         /\ RelevanceOf(p, again[k], k).relevant = RelevanceOf(p, rows[s[k]], s[k]).relevant
  BY <1>1, PlaceIsIrrelevant
<1>3. Moved(A, B, s, n)
  BY <1>1, <1>2 DEF Moved, PlacesFound
<1>4. IsFiniteSet(A) /\ IsFiniteSet(B) /\ Cardinality(A) = Cardinality(B)
  BY <1>3, MovedCount
<1> HIDE DEF A, B
<1>5. Cardinality(Found(p, again)) = Cardinality(Found(p, rows))
  <2>1. /\ Found(p, rows) = AtPlaces(p, rows, A)
        /\ Found(p, again) = AtPlaces(p, again, B)
    BY FoundAtPlaces DEF A, B
  <2>2. /\ Cardinality(AtPlaces(p, rows, A)) = Cardinality(A)
        /\ Cardinality(AtPlaces(p, again, B)) = Cardinality(B)
    BY <1>4, CountedByPlace
  <2> QED BY <1>4, <2>1, <2>2
<1>6. ASSUME NEW r \in Found(p, again)
      PROVE  \E q \in Found(p, rows) : r.score = q.score
  <2>1. PICK k \in 1 .. n : r = RelevanceOf(p, again[k], k) /\ r.relevant
    BY <1>1 DEF Found
  <2>2. RelevanceOf(p, rows[s[k]], s[k]).relevant /\ s[k] \in DOMAIN rows
    BY <1>1, <1>2, <2>1
  <2>3. RelevanceOf(p, rows[s[k]], s[k]) \in Found(p, rows)
    BY <2>2 DEF Found
  <2> QED BY <1>2, <2>1, <2>3
<1> QED BY <1>5, <1>6

LEMMA VerdictOrder ==
    ASSUME NEW p \in Policies["regulatory_change"], NEW X, NEW rows \in Seq(X),
           NEW again \in Seq(X), NEW s, NEW n, Rearranged(rows, again, s, n), NEW strong
    PROVE  Verdict(Found(p, again), strong) = Verdict(Found(p, rows), strong)
<1> DEFINE R == Found(p, rows)
           Q == Found(p, again)
<1>1. RankedSet(R) /\ RankedSet(Q)
  BY FoundIsRanked
<1>2. \A r \in Q : \E q \in R : r.score = q.score
  BY FoundOrder
<1>3. \A r \in R : \E q \in Q : r.score = q.score
  BY RearrangedBack, FoundOrder
<1> HIDE DEF R, Q
<1>4. CASE R = {}
  <2>1. Q = {}
    BY <1>2, <1>4
  <2> QED BY <1>4, <2>1 DEF R, Q
<1>5. CASE R # {}
  <2>1. Q # {}
    BY <1>3, <1>5
  <2>2. /\ Best(R) \in R /\ \A r \in R : r.score <= Best(R).score
        /\ Best(Q) \in Q /\ \A r \in Q : r.score <= Best(Q).score
    BY <1>1, <1>5, <2>1, BestIsFirst
  <2>3. Best(R).score \in Nat /\ Best(Q).score \in Nat
    BY <1>1, <2>2 DEF RankedSet
  <2>4. Best(Q).score <= Best(R).score
    BY <1>2, <2>2
  <2>5. Best(R).score <= Best(Q).score
    BY <1>3, <2>2
  <2>6. Best(Q).score = Best(R).score
    BY <2>3, <2>4, <2>5
  <2> QED BY <1>5, <2>1, <2>6 DEF Verdict, R, Q
<1> QED BY <1>4, <1>5

(* What a run reports, in these terms.                                     *)
Kept(R, most) == IF most >= 0 THEN most ELSE Cardinality(R) + most

LEMMA SummaryOfRun ==
    ASSUME NEW p, NEW rows
    PROVE  LET verdict == Verdict(Found(p, rows), p.strong_overlap)
               most == p.max_controls_surfaced
           IN  Reg!summary(Reg!assess_impact(p.requirement, rows, p))
                 = [control_count |-> Cardinality(AtPlaces(p, rows, DOMAIN rows)),
                    relevant_control_count |->
                        Cardinality(Surfaced(Found(p, rows), Kept(Found(p, rows), most))),
                    coverage_verdict |-> verdict,
                    gap_flagged |-> verdict # "apparent_coverage"]
<1> DEFINE terms == Reg!key_terms(p.requirement, p.extra_stopwords)
           all == {Reg!ControlRelevance(terms, rows[i], i, p) : i \in DOMAIN rows}
           some == {r \in all : r.relevant}
           kept == IF p.max_controls_surfaced >= 0 THEN p.max_controls_surfaced
                   ELSE Reg!Cardinality(some) + p.max_controls_surfaced
           surfaced == {r \in some : Reg!Cardinality({s \in some : Reg!Before(s, r)}) < kept}
           impact == Reg!assess_impact(p.requirement, rows, p)
<1>1. all = AtPlaces(p, rows, DOMAIN rows)
  BY Zenon DEF AtPlaces, RelevanceOf, Terms
<1>2. some = Found(p, rows)
  BY Zenon DEF Found, RelevanceOf, Terms
<1>3. kept = Kept(some, p.max_controls_surfaced)
  <2> HIDE DEF some
  <2> QED BY TriageCounts, Zenon DEF Kept
<1>4. surfaced = Surfaced(some, kept)
  <2> HIDE DEF some, kept
  <2> QED BY TriageCounts DEF Surfaced, Ahead
<1>5. /\ impact.relevances = all
      /\ impact.relevant_controls = surfaced
      /\ impact.gap_flagged = (impact.coverage_verdict # "apparent_coverage")
  BY DEF Reg!assess_impact
<1>6. impact.coverage_verdict = Verdict(Found(p, rows), p.strong_overlap)
  BY VerdictOfRun
<1> HIDE DEF all, some, kept, surfaced, impact
<1>7. Reg!summary(impact)
        = [control_count |-> Cardinality(all), relevant_control_count |-> Cardinality(surfaced),
           coverage_verdict |-> impact.coverage_verdict, gap_flagged |-> impact.gap_flagged]
  BY <1>5, TriageCounts DEF Reg!summary
<1> QED BY <1>1, <1>2, <1>3, <1>4, <1>5, <1>6, <1>7 DEF impact

-----------------------------------------------------------------------------
LEMMA TriageOrder ==
    ASSUME NEW p \in Policies["regulatory_change"], NEW X, NEW rows \in Seq(X),
           NEW again \in Seq(X), NEW s, NEW n, Rearranged(rows, again, s, n)
    PROVE  Reg!summary(Reg!assess_impact(p.requirement, again, p))
             = Reg!summary(Reg!assess_impact(p.requirement, rows, p))
<1> DEFINE R == Found(p, rows)
           Q == Found(p, again)
           most == p.max_controls_surfaced
<1>1. Cardinality(AtPlaces(p, again, DOMAIN again)) = Cardinality(AtPlaces(p, rows, DOMAIN rows))
  <2>1. /\ IsFiniteSet(DOMAIN rows) /\ IsFiniteSet(DOMAIN again)
        /\ DOMAIN rows = DOMAIN again
    BY FirstNumbers DEF Rearranged
  <2>2. /\ Cardinality(AtPlaces(p, again, DOMAIN again)) = Cardinality(DOMAIN again)
        /\ Cardinality(AtPlaces(p, rows, DOMAIN rows)) = Cardinality(DOMAIN rows)
    BY <2>1, CountedByPlace
  <2> QED BY <2>1, <2>2
<1>2. Verdict(Q, p.strong_overlap) = Verdict(R, p.strong_overlap)
  BY VerdictOrder
<1>3. Cardinality(Surfaced(Q, Kept(Q, most))) = Cardinality(Surfaced(R, Kept(R, most)))
  <2>1. RankedSet(R) /\ RankedSet(Q)
    BY FoundIsRanked
  <2>2. Cardinality(Q) = Cardinality(R)
    BY FoundOrder
  <2>3. most \in Int
    BY PoliciesAssumption
  <2> HIDE DEF R, Q, most
  <2>4. Cardinality(R) \in Nat
    BY <2>1, FS_CardinalityType DEF RankedSet
  <2>5. Kept(Q, most) = Kept(R, most) /\ Kept(R, most) \in Int
    BY <2>2, <2>3, <2>4 DEF Kept
  <2> DEFINE kept == Kept(R, most)
  <2> HIDE DEF kept
  <2>6. /\ Cardinality(Surfaced(R, kept))
             = Cardinality({k \in 0 .. Cardinality(R) - 1 : k < kept})
        /\ Cardinality(Surfaced(Q, kept))
             = Cardinality({k \in 0 .. Cardinality(Q) - 1 : k < kept})
    BY <2>1, <2>5, SurfacedAreCounted DEF kept
  <2>7. Cardinality(Surfaced(Q, kept)) = Cardinality(Surfaced(R, kept))
    BY <2>2, <2>6, Zenon
  <2> QED BY <2>5, <2>7 DEF kept
<1> HIDE DEF R, Q, most
<1> QED BY <1>1, <1>2, <1>3, SummaryOfRun DEF R, Q, most

-----------------------------------------------------------------------------
(* One sheet with two of its rows changed round.                           *)
Swapped(book, sheet, swapped) == [book EXCEPT ![sheet] = swapped]

LEMMA SwappedSheets ==
    ASSUME TypeOK, NEW sheet \in DOMAIN sheets, NEW swapped \in Swaps(sheets[sheet])
    PROVE  LET book == Swapped(sheets, sheet, swapped)
           IN  /\ DOMAIN sheets = DOMAIN Sheets[agent] /\ policy \in Policies[agent]
               /\ DOMAIN book = DOMAIN sheets
               /\ \A other \in DOMAIN sheets :
                     /\ book[other] = IF other = sheet THEN swapped ELSE sheets[other]
                     /\ sheets[other] \in Seq(Sheets[agent][other])
                     /\ book[other] \in Seq(Sheets[agent][other])
                     /\ Len(book[other]) = Len(sheets[other])
                     /\ \E s : Rearranged(sheets[other], book[other], s, Len(sheets[other]))
<1> DEFINE book == Swapped(sheets, sheet, swapped)
<1>1. /\ DOMAIN sheets = DOMAIN Sheets[agent] /\ policy \in Policies[agent]
      /\ \A other \in DOMAIN sheets : sheets[other] \in Seq(Sheets[agent][other])
  BY DEF TypeOK
<1>2. DOMAIN book = DOMAIN sheets
  BY DEF Swapped
<1>3. \A other \in DOMAIN sheets :
         book[other] = IF other = sheet THEN swapped ELSE sheets[other]
  BY DEF Swapped
<1> HIDE DEF book
<1>4. ASSUME NEW other \in DOMAIN sheets
      PROVE  /\ book[other] \in Seq(Sheets[agent][other])
             /\ Len(book[other]) = Len(sheets[other])
             /\ \E s : Rearranged(sheets[other], book[other], s, Len(sheets[other]))
  <2> DEFINE X == Sheets[agent][other]
  <2>1. sheets[other] \in Seq(X)
    BY <1>1
  <2> HIDE DEF X
  <2>2. CASE other = sheet
    <3>1. book[other] \in Swaps(sheets[other])
      BY <1>3, <2>2
    <3> QED BY <2>1, <3>1, SwapRearranges DEF X
  <2>3. CASE other # sheet
    <3>1. book[other] = sheets[other]
      BY <1>3, <2>3
    <3> QED BY <2>1, <3>1, RearrangedSame DEF X
  <2> QED BY <2>2, <2>3
<1> QED BY <1>1, <1>2, <1>3, <1>4 DEF book

-----------------------------------------------------------------------------
(* What a run of the agents says of the sheets and of the swapped ones.    *)
LEMMA OrderOfAgings ==
    ASSUME TypeOK, agent = "ar_collections",
           NEW sheet \in DOMAIN sheets, NEW swapped \in Swaps(sheets[sheet])
    PROVE  Figures(Swapped(sheets, sheet, swapped)) = Figures(sheets)
<1> DEFINE book == Swapped(sheets, sheet, swapped)
           rows == sheets["invoices"]
           again == book["invoices"]
           n == Len(rows)
           a == AR!compute_aging(rows, AsOf, policy)
           b == AR!compute_aging(again, AsOf, policy)
<1>1. /\ rows \in Seq(InvoiceRows) /\ again \in Seq(InvoiceRows) /\ Len(again) = n
      /\ \E s : Rearranged(rows, again, s, n)
  BY SwappedSheets, SheetsAssumption DEF InvoiceRows
<1> HIDE DEF book
<1>2. Figures(sheets) = AR!summary(a) /\ Figures(book) = AR!summary(b)
  BY DEF Figures, Agings
<1> HIDE DEF rows, again
<1>3. Aged(a, n) /\ Aged(b, n) /\ Len(a) = Len(b)
  BY <1>1, AgingLines, AgingLength
<1>4. PICK s : Rearranged(rows, again, s, n)
  BY <1>1
<1>5. Rearranged(a, b, s, n)
  BY <1>4, AgingsRearranged
<1> HIDE DEF a, b, n
<1>6. AR!summary(a) = AR!summary(b)
  BY <1>3, <1>5, AgingOrder
<1> QED BY <1>2, <1>6 DEF book

LEMMA OrderOfTests ==
    ASSUME TypeOK, agent = "controls_sox",
           NEW sheet \in DOMAIN sheets, NEW swapped \in Swaps(sheets[sheet])
    PROVE  Figures(Swapped(sheets, sheet, swapped)) = Figures(sheets)
<1> DEFINE book == Swapped(sheets, sheet, swapped)
           rows == sheets["entries"]
           again == book["entries"]
           n == Len(rows)
           a == Sox!check_segregation_of_duties(rows, policy)
           b == Sox!check_segregation_of_duties(again, policy)
<1>1. /\ rows \in Seq(EntryRows) /\ again \in Seq(EntryRows) /\ Len(again) = n
      /\ \E s : Rearranged(rows, again, s, n)
  BY SwappedSheets, SheetsAssumption DEF EntryRows
<1> HIDE DEF book
<1>2. Figures(sheets) = Sox!summary(a) /\ Figures(book) = Sox!summary(b)
  BY DEF Figures, Tests
<1> HIDE DEF rows, again
<1>3. PICK s : Rearranged(rows, again, s, n)
  BY <1>1
<1>4. /\ Rearranged(a, b, s, n) /\ Len(a) = Len(b)
      /\ \A i \in DOMAIN a : a[i].amount \in Int
  BY <1>1, <1>3, TestsRearranged
<1> HIDE DEF a, b, n
<1>5. Sox!summary(a) = Sox!summary(b)
  BY <1>4, TestOrder
<1> QED BY <1>2, <1>5 DEF book

LEMMA OrderOfProvision ==
    ASSUME TypeOK, agent = "tax_compliance",
           NEW sheet \in DOMAIN sheets, NEW swapped \in Swaps(sheets[sheet])
    PROVE  Figures(Swapped(sheets, sheet, swapped)) = Figures(sheets)
<1> DEFINE book == Swapped(sheets, sheet, swapped)
           rows == sheets["transactions"]
           again == book["transactions"]
           first == Tax!compute_provision(rows, policy)
           second == Tax!compute_provision(again, policy)
<1>1. /\ rows \in Seq(TransactionRows) /\ again \in Seq(TransactionRows)
      /\ Len(again) = Len(rows) /\ \E s : Rearranged(rows, again, s, Len(rows))
  BY SwappedSheets, SheetsAssumption DEF TransactionRows
<1> HIDE DEF book
<1>2. /\ Figures(sheets)
           = <<first.net_vat, first.by_treatment, Cardinality(first.anomalies)>>
      /\ Figures(book)
           = <<second.net_vat, second.by_treatment, Cardinality(second.anomalies)>>
  BY DEF Figures, Provision
<1> HIDE DEF rows, again
<1>3. PICK s : Rearranged(rows, again, s, Len(rows))
  BY <1>1
<1>4. /\ second.net_vat = first.net_vat
      /\ second.by_treatment = first.by_treatment
      /\ Cardinality(second.anomalies) = Cardinality(first.anomalies)
  BY <1>1, <1>3, ProvisionOrder
<1> HIDE DEF first, second
<1> QED BY <1>2, <1>4 DEF book

LEMMA OrderOfImpact ==
    ASSUME TypeOK, agent = "regulatory_change",
           NEW sheet \in DOMAIN sheets, NEW swapped \in Swaps(sheets[sheet])
    PROVE  Figures(Swapped(sheets, sheet, swapped)) = Figures(sheets)
<1> DEFINE book == Swapped(sheets, sheet, swapped)
           rows == sheets["controls"]
           again == book["controls"]
           X == Sheets[agent]["controls"]
<1>1. /\ rows \in Seq(X) /\ again \in Seq(X) /\ policy \in Policies["regulatory_change"]
      /\ \E s : Rearranged(rows, again, s, Len(rows))
  BY SwappedSheets, SheetsAssumption
<1> HIDE DEF book
<1>2. /\ Figures(sheets) = Reg!summary(Reg!assess_impact(policy.requirement, rows, policy))
      /\ Figures(book) = Reg!summary(Reg!assess_impact(policy.requirement, again, policy))
  BY DEF Figures, Impact
<1> HIDE DEF rows, again, X
<1>3. Reg!summary(Reg!assess_impact(policy.requirement, again, policy))
        = Reg!summary(Reg!assess_impact(policy.requirement, rows, policy))
  BY <1>1, TriageOrder
<1> QED BY <1>2, <1>3 DEF book

LEMMA OrderOfReconciliation ==
    ASSUME TypeOK, agent = "reconciliation",
           NEW sheet \in DOMAIN sheets, NEW swapped \in Swaps(sheets[sheet])
    PROVE  Figures(Swapped(sheets, sheet, swapped)) = Figures(sheets)
<1> DEFINE book == Swapped(sheets, sheet, swapped)
           bank == sheets["bank"]
           ledger == sheets["ledger"]
           bank2 == book["bank"]
           ledger2 == book["ledger"]
           days == policy.tolerance_days
           report == Recon!ReconciliationReport(bank, ledger, days)
           other == Recon!ReconciliationReport(bank2, ledger2, days)
<1>1. /\ bank \in Seq(BankRows) /\ bank2 \in Seq(BankRows)
      /\ ledger \in Seq(LedgerRows) /\ ledger2 \in Seq(LedgerRows) /\ days \in Int
      /\ \E s : Rearranged(bank, bank2, s, Len(bank))
      /\ \E t : Rearranged(ledger, ledger2, t, Len(ledger))
  BY SwappedSheets, SheetsAssumption, PoliciesAssumption DEF BankRows, LedgerRows
<1> HIDE DEF book
<1>2. /\ Figures(sheets) = <<report.matched_exact_count, report.difference>>
      /\ Figures(book) = <<other.matched_exact_count, other.difference>>
  BY DEF Figures, Reconciliation
<1> HIDE DEF bank, ledger, bank2, ledger2, days
<1>3. /\ other.matched_exact_count = report.matched_exact_count
      /\ other.difference = report.difference
  BY <1>1, ReportOrder
<1> HIDE DEF report, other
<1> QED BY <1>2, <1>3 DEF book

-----------------------------------------------------------------------------
LEMMA OrderOfVariances ==
    ASSUME TypeOK, agent = "close", DistinctLines(sheets),
           NEW sheet \in DOMAIN sheets, NEW swapped \in Swaps(sheets[sheet])
    PROVE  Figures(Swapped(sheets, sheet, swapped)) = Figures(sheets)
<1> DEFINE book == Swapped(sheets, sheet, swapped)
           b == sheets["budget"]
           c == book["budget"]
           d == sheets["actuals"]
           e == book["actuals"]
<1>1. /\ b \in Seq(Sheets["close"]["budget"]) /\ d \in Seq(Sheets["close"]["actuals"])
      /\ Len(c) = Len(b) /\ \E s : Rearranged(b, c, s, Len(b))
      /\ Len(e) = Len(d) /\ \E s : Rearranged(d, e, s, Len(d))
  BY SwappedSheets, SheetsAssumption
<1>2. /\ NoDuplicates(b, LAMBDA line : line.key)
      /\ NoDuplicates(d, LAMBDA line : line.key)
  BY DEF DistinctLines, Is
<1>3. /\ \A i, j \in DOMAIN b : b[i].key = b[j].key => i = j
      /\ \A i, j \in DOMAIN d : d[i].key = d[j].key => i = j
  BY <1>2 DEF NoDuplicates
<1> HIDE DEF book
<1>4. /\ Figures(sheets) = Close!compute_variances(b, d, policy)
      /\ Figures(book) = Close!compute_variances(c, e, policy)
  BY DEF Figures, Variances
<1> HIDE DEF b, c, d, e
<1>5. Keyed(b) /\ Keyed(d)
  <2>1. \A S : \A s \in Seq(S) : /\ Len(s) \in Nat /\ DOMAIN s = 1 .. Len(s)
                                 /\ \A i \in DOMAIN s : s[i] \in S
    OBVIOUS
  <2> QED BY <1>1, <1>3, <2>1, SheetsAssumption DEF Keyed
<1>6. SameAmounts(b, c) /\ SameAmounts(d, e)
  BY <1>1, <1>5, AmountOrder DEF SameAmounts
<1> QED BY <1>4, <1>6, VarianceOrder DEF book

LEMMA OrderOfForecast ==
    ASSUME TypeOK, agent = "fpa", DistinctLines(sheets),
           NEW sheet \in DOMAIN sheets, NEW swapped \in Swaps(sheets[sheet])
    PROVE  Figures(Swapped(sheets, sheet, swapped)) = Figures(sheets)
<1> DEFINE book == Swapped(sheets, sheet, swapped)
           rows == sheets["history"]
           again == book["history"]
<1>1. /\ rows \in Seq(HistoryRows) /\ again \in Seq(HistoryRows)
      /\ Len(again) = Len(rows) /\ \E s : Rearranged(rows, again, s, Len(rows))
  BY SwappedSheets, SheetsAssumption DEF HistoryRows
<1>2. ~Fpa!Refused(rows, policy) =>
         /\ NoDuplicates(rows, LAMBDA line : <<line.key, line.period>>)
         /\ \A key \in Fpa!Keys(rows) : OneCategory(rows, key)
  BY DEF DistinctLines, Is
<1> HIDE DEF book
<1>3. /\ Figures(sheets) = Fpa!project_forecast(rows, policy)
      /\ Figures(book) = Fpa!project_forecast(again, policy)
  BY DEF Figures, Projection
<1> HIDE DEF rows, again
<1>4. ~Fpa!Refused(rows, policy) => NoMonthTwice(rows)
  <2> SUFFICES ASSUME ~Fpa!Refused(rows, policy) PROVE NoMonthTwice(rows)
    OBVIOUS
  <2>1. \A i, j \in DOMAIN rows :
           <<rows[i].key, rows[i].period>> = <<rows[j].key, rows[j].period>> => i = j
    BY <1>2 DEF NoDuplicates
  <2> QED BY <2>1 DEF NoMonthTwice
<1>5. Fpa!project_forecast(again, policy) = Fpa!project_forecast(rows, policy)
  BY <1>1, <1>2, <1>4, ForecastOrder
<1> QED BY <1>3, <1>5 DEF book

LEMMA OrderHolds == TypeOK => OrderIsIrrelevant
<1> SUFFICES ASSUME TypeOK, DistinctLines(sheets),
                    NEW sheet \in DOMAIN sheets, NEW swapped \in Swaps(sheets[sheet])
             PROVE  Figures(Swapped(sheets, sheet, swapped)) = Figures(sheets)
  BY Zenon DEF OrderIsIrrelevant, Swapped
<1>1. agent \in {"reconciliation", "ar_collections", "close", "controls_sox", "expense",
                 "tax_compliance", "fpa", "regulatory_change", "ap"}
  BY SheetsAssumption DEF TypeOK
<1>2. CASE agent \in {"expense", "ap"}
  BY <1>2 DEF Figures
<1> QED BY <1>1, <1>2, OrderOfAgings, OrderOfTests, OrderOfProvision, OrderOfImpact,
           OrderOfReconciliation, OrderOfVariances, OrderOfForecast

(* The order of the rows in a file changes no total, no flag and no figure *)
(* of a run: of the agings, the variances, the tests, the provision and    *)
(* the forecast nothing, of the triage the counts and the verdict, of the  *)
(* reconciliation the number of exact pairs and the difference (which near *)
(* line is taken does depend on it) -- for sheets of any length, and for   *)
(* budgets and histories in which no line is there twice.                  *)
THEOREM OrderNeverMatters == BackSpec => []OrderIsIrrelevant
<1> QED BY TypeCorrect, OrderHolds, PTL
=============================================================================
