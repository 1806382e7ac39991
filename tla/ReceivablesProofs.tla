--------------------------- MODULE ReceivablesProofs ---------------------------
(****************************************************************************)
(* Theorems about Receivables, for every set of customers, documents and    *)
(* requests, every credit limit and every choice of endpoints.              *)
(****************************************************************************)
EXTENDS Receivables, FiniteSetTheorems, TLAPS

--------------------------------------------------------------------------------
(* Induction, by a least counterexample: a set of sets, or of numbers, that   *)
(* is not empty has a smallest one (WFMin).                                   *)

\* A set of numbers that has 0, and with each number the next, has them all.
LEMMA NatSet ==
  ASSUME NEW A \in SUBSET Nat, 0 \in A, \A n \in A : n + 1 \in A
  PROVE  A = Nat
<1> SUFFICES ASSUME Nat \ A # {} PROVE FALSE
  OBVIOUS
<1>1. IsWellFoundedOn(OpToRel(<, Nat), Nat)
  BY NatLessThanWellFounded
<1>2. \E x \in Nat \ A : \A y \in Nat \ A : ~ (<<y, x>> \in OpToRel(<, Nat))
  <2>1. Nat \ A \subseteq Nat
    OBVIOUS
  <2> QED BY <1>1, <2>1, WFMin
<1>3. PICK x \in Nat \ A : \A y \in Nat \ A : ~ (y < x)
  BY <1>2 DEF OpToRel
<1>4. x # 0 /\ x - 1 \in Nat /\ x - 1 < x
  BY <1>3
<1>5. x - 1 \in A
  BY <1>3, <1>4
<1> QED BY <1>4, <1>5, <1>3

\* A set of subsets of a finite set that has every set whose smaller sets it has, has all.
LEMMA SubsetInduction ==
  ASSUME NEW S, IsFiniteSet(S), NEW F \in SUBSET (SUBSET S),
         \A T \in SUBSET S : (\A x \in T : T \ {x} \in F) => T \in F
  PROVE  F = SUBSET S
<1> DEFINE A == {n \in Nat : \A T \in SUBSET S : Cardinality(T) <= n => T \in F}
<1>0. \A T \in SUBSET S : IsFiniteSet(T) /\ Cardinality(T) \in Nat
  BY FS_Subset, FS_CardinalityType
<1>1. 0 \in A
  <2> SUFFICES ASSUME NEW T \in SUBSET S, Cardinality(T) <= 0 PROVE T \in F
    OBVIOUS
  <2>1. T = {}
    BY <1>0, FS_EmptySet
  <2> QED BY <2>1
<1>2. ASSUME NEW n \in A PROVE n + 1 \in A
  <2> SUFFICES ASSUME NEW T \in SUBSET S, Cardinality(T) <= n + 1 PROVE T \in F
    OBVIOUS
  <2>1. ASSUME NEW x \in T PROVE T \ {x} \in F
    <3>1. Cardinality(T \ {x}) = Cardinality(T) - 1
      BY <1>0, FS_RemoveElement
    <3>2. Cardinality(T \ {x}) <= n /\ T \ {x} \in SUBSET S
      BY <1>0, <3>1
    <3> QED BY <3>2
  <2> QED BY <2>1
<1>3. A = Nat
  <2> HIDE DEF A
  <2>1. A \in SUBSET Nat
    BY DEF A
  <2> QED BY <1>1, <1>2, <2>1, NatSet
<1>4. ASSUME NEW T \in SUBSET S PROVE T \in F
  <2>1. Cardinality(T) \in A /\ Cardinality(T) <= Cardinality(T)
    BY <1>0, <1>3
  <2> QED BY <2>1
<1> QED BY <1>4

--------------------------------------------------------------------------------
(* The sum of a function over a set is a recursive function over the subsets  *)
(* of the set, which takes elements out in an order of its own.               *)

Element(s) == CHOOSE x \in s : TRUE

\* What a sum has to be, if g says what the smaller ones are.
SumOf(g, f, s) == IF s = {} THEN 0 ELSE f[Element(s)] + g[s \ {Element(s)}]

IsSum(g, f, S) == g = [s \in SUBSET S |-> SumOf(g, f, s)]

\* The sum is the value of the recursive function at the whole set.
LEMMA SumDef ==
  ASSUME NEW f, NEW S
  PROVE  SumFunctionOnSet(f, S) = (CHOOSE g : IsSum(g, f, S))[S]
BY DEF SumFunctionOnSet, FoldFunctionOnSet, MapThenFoldSet, IsSum, SumOf, Element

\* The element that a sum takes out first is one of the set.
LEMMA ElementIn == \A s : s # {} => Element(s) \in s
BY DEF Element

\* There is such a function: it is built for the sets of up to n elements, for each n.
LEMMA SumExists ==
  ASSUME NEW f, NEW S, IsFiniteSet(S)
  PROVE  \E g : IsSum(g, f, S)
<1> DEFINE Up(g, n) == \A s \in SUBSET S : Cardinality(s) <= n => g[s] = SumOf(g, f, s)
           A == {n \in Nat : \E g : Up(g, n)}
<1>0. /\ \A s \in SUBSET S : IsFiniteSet(s) /\ Cardinality(s) \in Nat
      /\ \A s \in SUBSET S : s # {} =>
           /\ s \ {Element(s)} \in SUBSET S
           /\ Cardinality(s \ {Element(s)}) = Cardinality(s) - 1
  <2>1. \A s \in SUBSET S : IsFiniteSet(s) /\ Cardinality(s) \in Nat
    BY FS_Subset, FS_CardinalityType
  <2>2. ASSUME NEW s \in SUBSET S, s # {}
        PROVE  /\ s \ {Element(s)} \in SUBSET S
               /\ Cardinality(s \ {Element(s)}) = Cardinality(s) - 1
    BY <2>1, <2>2, ElementIn, FS_RemoveElement
  <2> QED BY <2>1, <2>2
<1>1. 0 \in A
  <2>1. Up([s \in SUBSET S |-> 0], 0)
    <3> SUFFICES ASSUME NEW s \in SUBSET S, Cardinality(s) <= 0
                 PROVE  SumOf([t \in SUBSET S |-> 0], f, s) = 0
      OBVIOUS
    <3>1. s = {}
      BY <1>0, FS_EmptySet
    <3> QED BY <3>1 DEF SumOf
  <2> QED BY <2>1
<1>2. ASSUME NEW n \in A PROVE n + 1 \in A
  <2>1. PICK g : Up(g, n)
    OBVIOUS
  <2> DEFINE h == [s \in SUBSET S |-> IF Cardinality(s) <= n THEN g[s] ELSE SumOf(g, f, s)]
  <2>2. \A s \in SUBSET S : h[s] = IF Cardinality(s) <= n THEN g[s] ELSE SumOf(g, f, s)
    OBVIOUS
  <2>3. ASSUME NEW s \in SUBSET S, Cardinality(s) <= n + 1
        PROVE  h[s] = SumOf(h, f, s)
    <3>1. h[s] = SumOf(g, f, s)
      BY <2>1, <2>2
    <3>2. s # {} => h[s \ {Element(s)}] = g[s \ {Element(s)}]
      <4> HIDE DEF h, A, Up
      <4> SUFFICES ASSUME s # {} PROVE h[s \ {Element(s)}] = g[s \ {Element(s)}]
        OBVIOUS
      <4>1. n \in Nat
        BY <1>2 DEF A
      <4>2. Cardinality(s \ {Element(s)}) <= n
        BY <1>0, <2>3, <4>1
      <4> QED BY <1>0, <2>2, <4>2
    <3> HIDE DEF h
    <3> QED BY <3>1, <3>2 DEF SumOf
  <2>4. Up(h, n + 1)
    BY <2>3
  <2>5. n + 1 \in Nat
    OBVIOUS
  <2> QED BY <2>4, <2>5
<1>3. A = Nat
  <2> HIDE DEF A
  <2>1. A \in SUBSET Nat
    BY DEF A
  <2> QED BY <1>1, <1>2, <2>1, NatSet
<1>4. PICK g : Up(g, Cardinality(S))
  <2>1. Cardinality(S) \in A
    BY <1>3, FS_CardinalityType
  <2> QED BY <2>1
<1>5. \A s \in SUBSET S : g[s] = SumOf(g, f, s)
  <2>1. \A s \in SUBSET S : Cardinality(s) <= Cardinality(S)
    BY FS_Subset
  <2> QED BY <1>4, <2>1
<1> DEFINE h == [s \in SUBSET S |-> g[s]]
<1>6. IsSum(h, f, S)
  <2>1. \A s \in SUBSET S : SumOf(h, f, s) = SumOf(g, f, s)
    BY <1>0 DEF SumOf
  <2>2. h = [s \in SUBSET S |-> SumOf(h, f, s)]
    BY <1>5, <2>1
  <2> QED BY <2>2 DEF IsSum
<1> QED BY <1>6

\* The function for a subset is the function for the set, as far as it goes.
LEMMA SumUnique ==
  ASSUME NEW f, NEW S, IsFiniteSet(S), NEW T \in SUBSET S, NEW g, NEW h,
         IsSum(g, f, S), IsSum(h, f, T)
  PROVE  g[T] = h[T]
<1> DEFINE F == {s \in SUBSET T : g[s] = h[s]}
<1>1. \A s \in SUBSET T : g[s] = SumOf(g, f, s) /\ h[s] = SumOf(h, f, s)
  <2>1. \A s \in SUBSET S : g[s] = SumOf(g, f, s)
    BY Zenon DEF IsSum
  <2>2. \A s \in SUBSET T : h[s] = SumOf(h, f, s)
    BY Zenon DEF IsSum
  <2> QED BY <2>1, <2>2
<1>2. ASSUME NEW s \in SUBSET T, \A x \in s : s \ {x} \in F PROVE s \in F
  <2>1. s # {} => g[s \ {Element(s)}] = h[s \ {Element(s)}]
    BY <1>2, ElementIn
  <2>2. SumOf(g, f, s) = SumOf(h, f, s)
    BY <2>1 DEF SumOf
  <2> QED BY <1>1, <2>2
<1>3. F = SUBSET T
  <2> HIDE DEF F
  <2>1. F \in SUBSET (SUBSET T) /\ IsFiniteSet(T)
    BY FS_Subset DEF F
  <2> QED BY <1>2, <2>1, SubsetInduction
<1> QED BY <1>3

--------------------------------------------------------------------------------
(* Sums.                                                                      *)

\* A sum is one of its values and the sum of the others.
LEMMA SumUnfold ==
  ASSUME NEW f, NEW S, IsFiniteSet(S)
  PROVE  SumFunctionOnSet(f, S) =
           IF S = {} THEN 0
           ELSE f[Element(S)] + SumFunctionOnSet(f, S \ {Element(S)})
<1>1. PICK g : IsSum(g, f, S) /\ SumFunctionOnSet(f, S) = g[S]
  <2>1. IsSum(CHOOSE g : IsSum(g, f, S), f, S)
    BY SumExists
  <2> QED BY <2>1, SumDef
<1>2. g[S] = SumOf(g, f, S)
  <2>1. \A s \in SUBSET S : g[s] = SumOf(g, f, s)
    BY <1>1, Zenon DEF IsSum
  <2> QED BY <2>1
<1>3. CASE S = {}
  BY <1>1, <1>2, <1>3 DEF SumOf
<1>4. CASE S # {}
  <2>1. S \ {Element(S)} \in SUBSET S /\ IsFiniteSet(S \ {Element(S)})
    BY FS_RemoveElement
  <2>2. PICK h : /\ IsSum(h, f, S \ {Element(S)})
                 /\ SumFunctionOnSet(f, S \ {Element(S)}) = h[S \ {Element(S)}]
    <3>1. IsSum(CHOOSE h : IsSum(h, f, S \ {Element(S)}), f, S \ {Element(S)})
      BY <2>1, SumExists
    <3> QED BY <3>1, SumDef
  <2>3. g[S \ {Element(S)}] = h[S \ {Element(S)}]
    BY <1>1, <2>1, <2>2, SumUnique
  <2> QED BY <1>1, <1>2, <1>4, <2>2, <2>3 DEF SumOf
<1> QED BY <1>3, <1>4

\* A sum over nothing.
LEMMA SumEmpty == \A f : SumFunctionOnSet(f, {}) = 0
BY SumUnfold, FS_EmptySet

\* A sum of numbers is a number.
LEMMA SumType ==
  ASSUME NEW S, IsFiniteSet(S), NEW f, \A x \in S : f[x] \in Int
  PROVE  SumFunctionOnSet(f, S) \in Int
<1> DEFINE F == {T \in SUBSET S : SumFunctionOnSet(f, T) \in Int}
<1>1. ASSUME NEW T \in SUBSET S, \A x \in T : T \ {x} \in F PROVE T \in F
  <2>1. IsFiniteSet(T)
    BY FS_Subset
  <2>2. CASE T = {}
    BY <2>2, SumEmpty
  <2>3. CASE T # {}
    <3>1. Element(T) \in T
      BY <2>3, ElementIn
    <3>2. SumFunctionOnSet(f, T \ {Element(T)}) \in Int /\ f[Element(T)] \in Int
      BY <1>1, <3>1
    <3> QED BY <2>1, <2>3, <3>2, SumUnfold
  <2> QED BY <2>2, <2>3
<1>2. F = SUBSET S
  <2> HIDE DEF F
  <2>1. F \in SUBSET (SUBSET S)
    BY DEF F
  <2> QED BY <1>1, <2>1, SubsetInduction
<1> QED BY <1>2

\* Any of the values may be taken out.
LEMMA SumRemove ==
  ASSUME NEW S, IsFiniteSet(S), NEW f, \A x \in S : f[x] \in Int, NEW x \in S
  PROVE  SumFunctionOnSet(f, S) = f[x] + SumFunctionOnSet(f, S \ {x})
<1> DEFINE F == {T \in SUBSET S : \A y \in T :
                   SumFunctionOnSet(f, T) = f[y] + SumFunctionOnSet(f, T \ {y})}
<1>0. \A T \in SUBSET S : IsFiniteSet(T) /\ SumFunctionOnSet(f, T) \in Int
  <2> SUFFICES ASSUME NEW T \in SUBSET S
               PROVE  IsFiniteSet(T) /\ SumFunctionOnSet(f, T) \in Int
    OBVIOUS
  <2>1. IsFiniteSet(T)
    BY FS_Subset
  <2> QED BY <2>1, SumType
<1>1. ASSUME NEW T \in SUBSET S, \A y \in T : T \ {y} \in F PROVE T \in F
  <2> SUFFICES ASSUME NEW y \in T
               PROVE  SumFunctionOnSet(f, T) = f[y] + SumFunctionOnSet(f, T \ {y})
    OBVIOUS
  <2>1. PICK e \in T :
          /\ e = Element(T)
          /\ SumFunctionOnSet(f, T) = f[e] + SumFunctionOnSet(f, T \ {e})
    <3>1. T # {} /\ Element(T) \in T
      BY ElementIn
    <3> QED BY <1>0, <3>1, SumUnfold
  <2>2. CASE y = e
    BY <2>1, <2>2
  <2>3. CASE y # e
    <3>1. SumFunctionOnSet(f, T \ {e}) = f[y] + SumFunctionOnSet(f, (T \ {e}) \ {y})
      BY <1>1, <2>3
    <3>2. SumFunctionOnSet(f, T \ {y}) = f[e] + SumFunctionOnSet(f, (T \ {y}) \ {e})
      BY <1>1, <2>3
    <3>3. (T \ {e}) \ {y} = (T \ {y}) \ {e}
      OBVIOUS
    <3>4. PICK a \in Int, b \in Int, rest \in Int :
            a = f[e] /\ b = f[y] /\ rest = SumFunctionOnSet(f, (T \ {e}) \ {y})
      BY <1>0
    <3>5. SumFunctionOnSet(f, T) = a + (b + rest)
      BY <2>1, <3>1, <3>4
    <3>6. f[y] + SumFunctionOnSet(f, T \ {y}) = b + (a + rest)
      BY <3>2, <3>3, <3>4
    <3> QED BY <3>5, <3>6
  <2> QED BY <2>2, <2>3
<1>2. F = SUBSET S
  <2> HIDE DEF F
  <2>1. F \in SUBSET (SUBSET S)
    BY DEF F
  <2> QED BY <1>1, <2>1, SubsetInduction
<1> QED BY <1>2

\* What is to be shown of the sum over S is shown of all its subsets, one value at a time.
LEMMA SumInduction ==
  ASSUME NEW S, IsFiniteSet(S), NEW F \in SUBSET (SUBSET S), {} \in F,
         \A T \in F : \A x \in S \ T : T \cup {x} \in F
  PROVE  S \in F
<1>1. ASSUME NEW T \in SUBSET S, \A x \in T : T \ {x} \in F PROVE T \in F
  <2>1. CASE T = {}
    BY <2>1
  <2>2. CASE T # {}
    <3>1. PICK x \in T : TRUE
      BY <2>2
    <3>2. T \ {x} \in F /\ x \in S \ (T \ {x}) /\ (T \ {x}) \cup {x} = T
      BY <1>1
    <3> QED BY <3>2
  <2> QED BY <2>1, <2>2
<1>2. F = SUBSET S
  BY <1>1, SubsetInduction
<1> QED BY <1>2

\* One value more.
LEMMA SumAdd ==
  ASSUME NEW S, IsFiniteSet(S), NEW f, \A y \in S : f[y] \in Int,
         NEW x, x \notin S, f[x] \in Int
  PROVE  SumFunctionOnSet(f, S \cup {x}) = SumFunctionOnSet(f, S) + f[x]
<1>1. IsFiniteSet(S \cup {x}) /\ (S \cup {x}) \ {x} = S
  BY FS_AddElement
<1>2. SumFunctionOnSet(f, S \cup {x}) = f[x] + SumFunctionOnSet(f, (S \cup {x}) \ {x})
  BY <1>1, SumRemove
<1>3. PICK a \in Int, b \in Int : a = f[x] /\ b = SumFunctionOnSet(f, S)
  BY SumType
<1>4. SumFunctionOnSet(f, S \cup {x}) = a + b
  BY <1>1, <1>2, <1>3
<1> QED BY <1>3, <1>4

\* The values at the elements are all that matters.
LEMMA SumSame ==
  ASSUME NEW S, IsFiniteSet(S), NEW f, NEW g,
         \A x \in S : f[x] \in Int /\ f[x] = g[x]
  PROVE  SumFunctionOnSet(f, S) = SumFunctionOnSet(g, S)
<1> DEFINE F == {T \in SUBSET S : SumFunctionOnSet(f, T) = SumFunctionOnSet(g, T)}
<1>1. {} \in F
  BY SumEmpty
<1>2. ASSUME NEW T \in F, NEW x \in S \ T PROVE T \cup {x} \in F
  <2>1. IsFiniteSet(T) /\ T \subseteq S /\ SumFunctionOnSet(f, T) = SumFunctionOnSet(g, T)
    BY FS_Subset
  <2>2. /\ SumFunctionOnSet(f, T \cup {x}) = SumFunctionOnSet(f, T) + f[x]
        /\ SumFunctionOnSet(g, T \cup {x}) = SumFunctionOnSet(g, T) + g[x]
    BY <2>1, SumAdd
  <2> QED BY <2>1, <2>2
<1> HIDE DEF F
<1>3. F \in SUBSET (SUBSET S)
  BY DEF F
<1>4. S \in F
  BY <1>1, <1>2, <1>3, SumInduction
<1> QED BY <1>4 DEF F

\* A sum of natural numbers is one.
LEMMA SumNat ==
  ASSUME NEW S, IsFiniteSet(S), NEW f, \A x \in S : f[x] \in Nat
  PROVE  SumFunctionOnSet(f, S) \in Nat
<1> DEFINE F == {T \in SUBSET S : SumFunctionOnSet(f, T) \in Nat}
<1>1. {} \in F
  BY SumEmpty
<1>2. ASSUME NEW T \in F, NEW x \in S \ T PROVE T \cup {x} \in F
  <2>1. IsFiniteSet(T) /\ T \subseteq S /\ SumFunctionOnSet(f, T) \in Nat /\ f[x] \in Nat
    BY FS_Subset
  <2>2. SumFunctionOnSet(f, T \cup {x}) = SumFunctionOnSet(f, T) + f[x]
    BY <2>1, SumAdd
  <2>3. SumFunctionOnSet(f, T \cup {x}) \in Nat
    BY <2>1, <2>2
  <2> QED BY <2>1, <2>3
<1> HIDE DEF F
<1>3. F \in SUBSET (SUBSET S)
  BY DEF F
<1>4. S \in F
  BY <1>1, <1>2, <1>3, SumInduction
<1> QED BY <1>4 DEF F

\* The sums over two sets that share nothing.
LEMMA SumUnion ==
  ASSUME NEW S, IsFiniteSet(S), NEW T, IsFiniteSet(T), S \cap T = {},
         NEW f, \A x \in S \cup T : f[x] \in Int
  PROVE  SumFunctionOnSet(f, S \cup T) = SumFunctionOnSet(f, S) + SumFunctionOnSet(f, T)
<1> DEFINE F == {U \in SUBSET T :
                   /\ IsFiniteSet(S \cup U)
                   /\ SumFunctionOnSet(f, S \cup U)
                        = SumFunctionOnSet(f, S) + SumFunctionOnSet(f, U)}
<1>0. SumFunctionOnSet(f, S) \in Int
  BY SumType
<1>1. {} \in F
  <2>1. S \cup {} = S /\ SumFunctionOnSet(f, {}) = 0
    BY SumEmpty
  <2> QED BY <1>0, <2>1
<1>2. ASSUME NEW U \in F, NEW x \in T \ U PROVE U \cup {x} \in F
  <2>1. /\ IsFiniteSet(U) /\ U \subseteq T /\ f[x] \in Int /\ x \notin S \cup U
        /\ IsFiniteSet(S \cup U)
        /\ SumFunctionOnSet(f, S \cup U)
             = SumFunctionOnSet(f, S) + SumFunctionOnSet(f, U)
    BY FS_Subset
  <2>2. /\ SumFunctionOnSet(f, U \cup {x}) = SumFunctionOnSet(f, U) + f[x]
        /\ SumFunctionOnSet(f, U) \in Int
    BY <2>1, SumAdd, SumType
  <2>3. SumFunctionOnSet(f, (S \cup U) \cup {x}) = SumFunctionOnSet(f, S \cup U) + f[x]
    BY <2>1, SumAdd
  <2>4. IsFiniteSet((S \cup U) \cup {x}) /\ S \cup (U \cup {x}) = (S \cup U) \cup {x}
    BY <2>1, FS_AddElement
  <2>5. SumFunctionOnSet(f, S \cup (U \cup {x}))
          = SumFunctionOnSet(f, S) + SumFunctionOnSet(f, U \cup {x})
    <3>1. PICK a \in Int, b \in Int, c \in Int :
            a = SumFunctionOnSet(f, S) /\ b = SumFunctionOnSet(f, U) /\ c = f[x]
      BY <1>0, <2>1, <2>2
    <3>2. SumFunctionOnSet(f, S \cup (U \cup {x})) = (a + b) + c
      BY <2>1, <2>3, <2>4, <3>1
    <3>3. SumFunctionOnSet(f, U \cup {x}) = b + c
      BY <2>2, <3>1
    <3> QED BY <3>1, <3>2, <3>3
  <2>6. U \cup {x} \in SUBSET T
    BY <2>1
  <2> QED BY <2>4, <2>5, <2>6
<1> HIDE DEF F
<1>3. F \in SUBSET (SUBSET T)
  BY DEF F
<1>4. T \in F
  BY <1>1, <1>2, <1>3, SumInduction
<1> QED BY <1>4 DEF F

\* Sums are added value by value.
LEMMA SumPlus ==
  ASSUME NEW S, IsFiniteSet(S), NEW f, NEW g, NEW h,
         \A x \in S : f[x] \in Int /\ g[x] \in Int /\ h[x] = f[x] + g[x]
  PROVE  SumFunctionOnSet(h, S) = SumFunctionOnSet(f, S) + SumFunctionOnSet(g, S)
<1> DEFINE F == {T \in SUBSET S :
                   SumFunctionOnSet(h, T) = SumFunctionOnSet(f, T) + SumFunctionOnSet(g, T)}
<1>1. {} \in F
  BY SumEmpty
<1>2. ASSUME NEW T \in F, NEW x \in S \ T PROVE T \cup {x} \in F
  <2>1. /\ IsFiniteSet(T) /\ T \subseteq S
        /\ SumFunctionOnSet(h, T) = SumFunctionOnSet(f, T) + SumFunctionOnSet(g, T)
        /\ \A y \in T \cup {x} : f[y] \in Int /\ g[y] \in Int /\ h[y] \in Int
    BY FS_Subset
  <2>2. /\ SumFunctionOnSet(f, T \cup {x}) = SumFunctionOnSet(f, T) + f[x]
        /\ SumFunctionOnSet(g, T \cup {x}) = SumFunctionOnSet(g, T) + g[x]
        /\ SumFunctionOnSet(h, T \cup {x}) = SumFunctionOnSet(h, T) + h[x]
    BY <2>1, SumAdd
  <2>3. SumFunctionOnSet(f, T) \in Int /\ SumFunctionOnSet(g, T) \in Int
    BY <2>1, SumType
  <2>4. SumFunctionOnSet(h, T \cup {x})
          = SumFunctionOnSet(f, T \cup {x}) + SumFunctionOnSet(g, T \cup {x})
    BY <2>1, <2>2, <2>3
  <2> QED BY <2>1, <2>4
<1> HIDE DEF F
<1>3. F \in SUBSET (SUBSET S)
  BY DEF F
<1>4. S \in F
  BY <1>1, <1>2, <1>3, SumInduction
<1> QED BY <1>4 DEF F

\* One value changes, and the sum by as much.
LEMMA SumChange ==
  ASSUME NEW S, IsFiniteSet(S), NEW f, NEW g, NEW x \in S,
         \A y \in S : f[y] \in Int /\ g[y] \in Int /\ (y # x => g[y] = f[y])
  PROVE  SumFunctionOnSet(g, S) = SumFunctionOnSet(f, S) + (g[x] - f[x])
<1>1. IsFiniteSet(S \ {x})
  BY FS_RemoveElement
<1>2. /\ SumFunctionOnSet(f, S) = f[x] + SumFunctionOnSet(f, S \ {x})
      /\ SumFunctionOnSet(g, S) = g[x] + SumFunctionOnSet(g, S \ {x})
  BY SumRemove
<1>3. SumFunctionOnSet(f, S \ {x}) = SumFunctionOnSet(g, S \ {x})
  BY <1>1, SumSame
<1>4. SumFunctionOnSet(f, S \ {x}) \in Int
  BY <1>1, SumType
<1> QED BY <1>2, <1>3, <1>4

\* The same number for all elements.
LEMMA SumConstant ==
  ASSUME NEW S, IsFiniteSet(S), NEW f, NEW n \in Int, \A x \in S : f[x] = n
  PROVE  SumFunctionOnSet(f, S) = n * Cardinality(S)
<1> DEFINE F == {T \in SUBSET S : SumFunctionOnSet(f, T) = n * Cardinality(T)}
<1>1. {} \in F
  BY SumEmpty, FS_EmptySet
<1>2. ASSUME NEW T \in F, NEW x \in S \ T PROVE T \cup {x} \in F
  <2>1. IsFiniteSet(T) /\ T \subseteq S /\ SumFunctionOnSet(f, T) = n * Cardinality(T)
    BY FS_Subset
  <2>2. SumFunctionOnSet(f, T \cup {x}) = SumFunctionOnSet(f, T) + n
    BY <2>1, SumAdd
  <2>3. Cardinality(T) \in Nat /\ Cardinality(T \cup {x}) = Cardinality(T) + 1
    BY <2>1, FS_CardinalityType, FS_AddElement
  <2>4. n * (Cardinality(T) + 1) = n * Cardinality(T) + n
    BY <2>3
  <2>5. SumFunctionOnSet(f, T \cup {x}) = n * Cardinality(T \cup {x})
    BY <2>1, <2>2, <2>3, <2>4
  <2> QED BY <2>1, <2>5
<1> HIDE DEF F
<1>3. F \in SUBSET (SUBSET S)
  BY DEF F
<1>4. S \in F
  BY <1>1, <1>2, <1>3, SumInduction
<1> QED BY <1>4 DEF F

\* A sum over some of the elements: the others count as nothing.
LEMMA SumSome ==
  ASSUME NEW S, IsFiniteSet(S), NEW T \in SUBSET S, NEW f, NEW g,
         \A x \in S : f[x] \in Int /\ g[x] = IF x \in T THEN f[x] ELSE 0
  PROVE  SumFunctionOnSet(f, T) = SumFunctionOnSet(g, S)
<1>1. IsFiniteSet(T) /\ IsFiniteSet(S \ T)
  BY FS_Subset
<1>2. SumFunctionOnSet(f, T) = SumFunctionOnSet(g, T)
  BY <1>1, SumSame
<1>3. SumFunctionOnSet(g, S \ T) = 0
  <2>1. SumFunctionOnSet(g, S \ T) = 0 * Cardinality(S \ T)
    BY <1>1, SumConstant
  <2> QED BY <1>1, <2>1, FS_CardinalityType
<1>4. SumFunctionOnSet(g, T \cup (S \ T))
        = SumFunctionOnSet(g, T) + SumFunctionOnSet(g, S \ T)
  BY <1>1, SumUnion
<1>5. T \cup (S \ T) = S
  OBVIOUS
<1>6. PICK a \in Int : a = SumFunctionOnSet(g, T)
  BY <1>1, SumType
<1>7. SumFunctionOnSet(g, S) = a + 0
  BY <1>3, <1>4, <1>5, <1>6
<1> QED BY <1>2, <1>6, <1>7

\* Smaller values have a smaller sum.
LEMMA SumLess ==
  ASSUME NEW S, IsFiniteSet(S), NEW f, NEW g,
         \A x \in S : f[x] \in Int /\ g[x] \in Int /\ f[x] <= g[x]
  PROVE  SumFunctionOnSet(f, S) <= SumFunctionOnSet(g, S)
<1> DEFINE h == [x \in S |-> g[x] - f[x]]
<1>1. SumFunctionOnSet(h, S) \in Nat
  BY SumNat
<1>2. SumFunctionOnSet(g, S) = SumFunctionOnSet(f, S) + SumFunctionOnSet(h, S)
  BY SumPlus
<1>3. SumFunctionOnSet(f, S) \in Int
  BY SumType
<1> HIDE DEF h
<1> QED BY <1>1, <1>2, <1>3

--------------------------------------------------------------------------------
\* The rows handlers write are rows again.

\* Totals are positive amounts.
LEMMA TotalType == \A i \in Invoices : Total[i] \in Nat
BY DocumentsAssumption

\* A draft is a row.
LEMMA DraftRowType == \A i \in Invoices : DraftRow(i) \in Row
BY TotalType DEF DraftRow, Row, Statuses

\* A payment that fits what was read leaves a row.
LEMMA SettleType ==
  ASSUME NEW row \in Row, NEW seen \in Row, NEW a \in Nat, a <= seen.balance
  PROVE  Settle(row, seen, a) \in Row
<1> DEFINE status == IF seen.balance = a THEN "paid"
                     ELSE IF seen.paid + a > 0 THEN "partially_paid"
                     ELSE seen.status
<1>1. status \in Statuses
  BY DEF Row, Statuses
<1>2. seen.paid + a \in Nat /\ seen.balance - a \in Nat
  BY DEF Row
<1> HIDE DEF status
<1>3. [row EXCEPT !.paid = seen.paid + a, !.balance = seen.balance - a,
                  !.status = status] \in Row
  BY <1>1, <1>2 DEF Row
<1> QED
  BY <1>3 DEF Settle, status

\* A bounce that takes back at most what was paid leaves a row.
LEMMA ReopenType ==
  ASSUME NEW row \in Row, NEW a \in Nat, NEW total \in Nat, a <= row.paid
  PROVE  Reopen(row, a, total) \in Row
<1> DEFINE status == IF row.balance + a = total THEN "posted" ELSE "partially_paid"
<1>1. status \in Statuses
  BY DEF Statuses
<1>2. row.paid - a \in Nat /\ row.balance + a \in Nat
  BY DEF Row
<1> HIDE DEF status
<1>3. [row EXCEPT !.paid = row.paid - a, !.balance = row.balance + a,
                  !.status = status] \in Row
  BY <1>1, <1>2 DEF Row
<1> QED
  BY <1>3 DEF Reopen, status

\* A cheque changes state within its row.
LEMMA ReceiptType ==
  ASSUME NEW row \in ReceiptRow, NEW state \in ReceiptStates
  PROVE  /\ [row EXCEPT !.state = state] \in ReceiptRow
         /\ [row EXCEPT !.state = state, !.bounced = TRUE] \in ReceiptRow
BY DEF ReceiptRow

\* What is allocated to an invoice is an amount or nothing.
LEMMA AllocationType ==
  ASSUME NEW alloc \in Allocations, NEW i \in Invoices
  PROVE  alloc[i] \in Nat
<1>1. alloc[i] \in Amounts \cup {0}
  BY DEF Allocations
<1>2. Amounts \cup {0} \subseteq Nat
  BY ParametersAssumption
<1> QED
  BY <1>1, <1>2

\* The operation of a transaction tells which record it is.
LEMMA TxnKind ==
  ASSUME NEW t \in Transactions
  PROVE  /\ t.op \in {"post", "void", "writeoff", "reverse"} => t \in InvoiceTxn
         /\ t.op = "pay" => t \in PayTxn
         /\ t.op = "credit" => t \in CreditTxn
         /\ t.op \in {"clear", "bounce"} => t \in ChequeTxn
BY DEF Transactions, Idle, InvoiceTxn, PayTxn, CreditTxn, ChequeTxn

--------------------------------------------------------------------------------
\* Type correctness

\* The initial state has its types.
LEMMA InitType == Init => TypeOK
<1> SUFFICES ASSUME Init PROVE TypeOK
  OBVIOUS
<1>1. inv \in [Invoices -> Row]
  BY DraftRowType DEF Init
<1>2. cn \in [CreditNotes -> CreditNoteRow]
  BY DEF Init, NoCreditNote, CreditNoteRow
<1>3. receipt \in [Receipts -> ReceiptRow]
  BY DEF Init, NoReceipt, ReceiptRow, ReceiptStates, Allocations
<1>4. txn \in [Requests -> Transactions]
  BY DEF Init, Transactions
<1> QED
  BY <1>1, <1>2, <1>3, <1>4 DEF Init, TypeOK

\* What POST /payments has read when its checks have passed.
LEMMA PayTxnType ==
  ASSUME TypeOK, NEW s \in Requests,
         NEW c \in Customers, NEW state \in {"cash", "deposited"},
         NEW amount \in Amounts, NEW alloc \in Allocations,
         RequestPay(s, c, state, amount, alloc)
  PROVE  [op |-> "pay", customer |-> c, state |-> state, amount |-> amount,
          alloc |-> alloc, seen |-> Seen(alloc)] \in PayTxn
<1>1. Seen(alloc) \in [Invoices -> Row]
  BY DraftRowType DEF TypeOK, Seen
<1>2. ASSUME NEW i \in Invoices
      PROVE  alloc[i] <= Seen(alloc)[i].balance
  <2>1. alloc[i] \in Nat
    BY AllocationType
  <2>2. CASE alloc[i] > 0
    BY <2>2 DEF RequestPay, CanAllocate, Seen
  <2>3. CASE alloc[i] = 0
    BY <1>1, <2>3 DEF Row
  <2> QED
    BY <2>1, <2>2, <2>3
<1>3. amount \in Nat
  BY ParametersAssumption
<1> QED
  BY <1>1, <1>2, <1>3 DEF PayTxn

\* A request only adds a well-formed transaction.
LEMMA RequestType ==
  ASSUME TypeOK, NEW s \in Requests, Request(s)
  PROVE  TypeOK'
<1>1. ASSUME NEW t \in Transactions, Begin(s, t)
      PROVE  TypeOK'
  BY <1>1 DEF TypeOK, Begin, ledger
<1>2. ASSUME NEW i \in Invoices,
             RequestPost(s, i) \/ RequestVoid(s, i) \/ RequestWriteOff(s, i)
               \/ RequestReverse(s, i)
      PROVE  TypeOK'
  <2>1. PICK op \in {"post", "void", "writeoff", "reverse"} :
          Begin(s, [op |-> op, inv |-> i, seen |-> inv[i]])
    BY <1>2 DEF RequestPost, RequestVoid, RequestWriteOff, RequestReverse
  <2>2. [op |-> op, inv |-> i, seen |-> inv[i]] \in Transactions
    BY DEF TypeOK, Transactions, InvoiceTxn
  <2> QED
    BY <1>1, <2>1, <2>2
<1>3. ASSUME NEW c \in Customers, NEW state \in {"cash", "deposited"},
             NEW amount \in Amounts, NEW alloc \in Allocations,
             RequestPay(s, c, state, amount, alloc)
      PROVE  TypeOK'
  <2> DEFINE t == [op |-> "pay", customer |-> c, state |-> state, amount |-> amount,
                   alloc |-> alloc, seen |-> Seen(alloc)]
  <2>1. Begin(s, t)
    BY <1>3 DEF RequestPay
  <2>4. t \in PayTxn
    BY <1>3, PayTxnType
  <2> QED
    BY <1>1, <2>1, <2>4 DEF Transactions
<1>4. ASSUME NEW c \in CreditNotes, RequestCredit(s, c)
      PROVE  TypeOK'
  BY <1>1, <1>4 DEF RequestCredit, Transactions, CreditTxn
<1>5. ASSUME NEW r \in Receipts, RequestClear(s, r) \/ RequestBounce(s, r)
      PROVE  TypeOK'
  BY <1>1, <1>5 DEF RequestClear, RequestBounce, Transactions, ChequeTxn
<1> QED
  BY <1>2, <1>3, <1>4, <1>5 DEF Request

\* A commit writes rows from rows of the same type, read before or now.
LEMMA CommitType ==
  ASSUME TypeOK, NEW s \in Requests, Commit(s)
  PROVE  TypeOK'
<1> DEFINE t == txn[s]
<1>1. t \in Transactions /\ Idle \in Transactions
  BY DEF TypeOK, Transactions
<1>2. ASSUME t.op \in {"post", "void", "writeoff", "reverse"}
      PROVE  t.inv \in Invoices /\ t.seen \in Row
  BY <1>1, <1>2, TxnKind DEF InvoiceTxn
<1>3. CASE CommitPost(s) \/ CommitPostRefused(s)
  <2>1. t.inv \in Invoices
    BY <1>2, <1>3 DEF CommitPost, CommitPostRefused
  <2>2. ar' \in [Invoices -> Int]
    BY <1>3, <2>1, TotalType DEF CommitPost, CommitPostRefused, TypeOK
  <2>3. inv' \in [Invoices -> Row]
    <3> DEFINE entry == inv[t.inv].entry + 1
    <3>1. [inv[t.inv] EXCEPT !.status = "posted", !.entry = entry] \in Row
      <4>1. inv[t.inv] \in Row /\ entry \in Nat
        BY <2>1 DEF TypeOK, Row
      <4> HIDE DEF entry
      <4> QED
        BY <4>1 DEF Row, Statuses
    <3> QED
      BY <1>3, <2>1, <3>1 DEF CommitPost, CommitPostRefused, TypeOK
  <2> QED
    BY <1>1, <1>3, <2>2, <2>3
    DEF CommitPost, CommitPostRefused, PostJournal, Finish, TypeOK
<1>4. CASE CommitVoid(s)
  <2>1. t.inv \in Invoices /\ t.seen \in Row
    BY <1>2, <1>4 DEF CommitVoid
  <2>2. ar' \in [Invoices -> Int]
    BY <1>4, <2>1, TotalType DEF CommitVoid, TypeOK
  <2>3. inv' \in [Invoices -> Row]
    <3>1. [inv[t.inv] EXCEPT !.status = "void", !.balance = 0] \in Row
      BY <2>1 DEF TypeOK, Row, Statuses
    <3> QED
      BY <1>4, <2>1, <3>1 DEF CommitVoid, TypeOK
  <2>4. reversed' \in [Invoices -> SUBSET Nat]
    BY <1>4, <2>1 DEF CommitVoid, TypeOK, Row
  <2> QED
    BY <1>1, <1>4, <2>2, <2>3, <2>4 DEF CommitVoid, PostJournal, Finish, TypeOK
<1>5. CASE CommitWriteOff(s)
  <2>1. t.inv \in Invoices /\ t.seen \in Row
    BY <1>2, <1>5 DEF CommitWriteOff
  <2>2. ar' \in [Invoices -> Int]
    BY <1>5, <2>1 DEF CommitWriteOff, TypeOK, Row
  <2>3. inv' \in [Invoices -> Row]
    <3>1. [inv[t.inv] EXCEPT !.status = "written_off", !.balance = 0,
                             !.writeoff = t.seen.balance] \in Row
      BY <2>1 DEF TypeOK, Row, Statuses
    <3> QED
      BY <1>5, <2>1, <3>1 DEF CommitWriteOff, TypeOK
  <2> QED
    BY <1>1, <1>5, <2>2, <2>3 DEF CommitWriteOff, PostJournal, Finish, TypeOK
<1>6. CASE CommitReverse(s)
  <2>1. t.inv \in Invoices /\ t.seen \in Row
    BY <1>2, <1>6 DEF CommitReverse
  <2>2. ar' \in [Invoices -> Int]
    BY <1>6, <2>1 DEF CommitReverse, TypeOK, Row
  <2>3. inv' \in [Invoices -> Row]
    <3>1. [inv[t.inv] EXCEPT
             !.status = IF t.seen.paid > 0 THEN "partially_paid" ELSE "posted",
             !.balance = t.seen.writeoff,
             !.writeoff = 0] \in Row
      BY <2>1 DEF TypeOK, Row, Statuses
    <3> QED
      BY <1>6, <2>1, <3>1 DEF CommitReverse, TypeOK
  <2> QED
    BY <1>1, <1>6, <2>2, <2>3 DEF CommitReverse, PostJournal, Finish, TypeOK
<1>7. ASSUME NEW r \in Receipts, CommitPay(s, r)
      PROVE  TypeOK'
  <2>1. t \in PayTxn
    BY <1>1, <1>7, TxnKind DEF CommitPay
  <2>2. /\ t.alloc \in Allocations
        /\ t.seen \in [Invoices -> Row]
        /\ t.amount \in Nat
        /\ t.customer \in Customers
        /\ t.state \in {"cash", "deposited"}
        /\ \A i \in Invoices : t.alloc[i] <= t.seen[i].balance
    BY <2>1 DEF PayTxn
  <2>3. ar' \in [Invoices -> Int]
    BY <1>7, <2>2, AllocationType DEF CommitPay, TypeOK
  <2>4. clearing' \in [Receipts -> Int] /\ bank' \in [Receipts -> Int]
    BY <1>7, <2>2 DEF CommitPay, TypeOK
  <2>5. receipt' \in [Receipts -> ReceiptRow]
    BY <1>7, <2>2 DEF CommitPay, TypeOK, ReceiptRow, ReceiptStates
  <2>6. inv' \in [Invoices -> Row]
    <3>1. ASSUME NEW i \in Invoices
          PROVE  Settle(inv[i], t.seen[i], t.alloc[i]) \in Row
      BY <2>2, AllocationType, SettleType DEF TypeOK
    <3> QED
      BY <1>7, <3>1 DEF CommitPay, TypeOK
  <2> QED
    BY <1>1, <1>7, <2>3, <2>4, <2>5, <2>6 DEF CommitPay, PostJournal, Finish, TypeOK
<1>8. CASE CommitCredit(s)
  <2> DEFINE c == t.cn
  <2>1. c \in CreditNotes
    BY <1>1, <1>8, TxnKind DEF CommitCredit, CreditTxn
  <2>2. cn[c] \in CreditNoteRow
    BY <2>1 DEF TypeOK
  <2>3. /\ Applied(c) \in Nat
        /\ cn[c].invoice # None =>
             cn[c].invoice \in Invoices /\ Applied(c) <= inv[cn[c].invoice].balance
    BY <2>2 DEF Applied, TypeOK, CreditNoteRow, Row
  <2>4. cn' \in [CreditNotes -> CreditNoteRow]
    BY <1>8, <2>1, <2>2, <2>3 DEF CommitCredit, TypeOK, CreditNoteRow
  <2>5. standing' \in [CreditNotes -> Int]
    BY <1>8, <2>1, <2>2, <2>3 DEF CommitCredit, TypeOK, CreditNoteRow
  <2>6. ar' \in [Invoices -> Int]
    BY <1>8, <2>1, <2>3 DEF CommitCredit, TypeOK
  <2>7. inv' \in [Invoices -> Row]
    <3> DEFINE i == cn[c].invoice
    <3>1. CASE i = None
      BY <1>8, <3>1 DEF CommitCredit, TypeOK
    <3>2. CASE i # None
      <4>1. Settle(inv[i], inv[i], Applied(c)) \in Row
        BY <2>3, <3>2, SettleType DEF TypeOK
      <4>2. inv' = [inv EXCEPT ![i] = Settle(inv[i], inv[i], Applied(c))]
        BY <1>8, <3>2 DEF CommitCredit
      <4> QED
        BY <4>1, <4>2 DEF TypeOK
    <3> QED
      BY <3>1, <3>2
  <2> QED
    BY <1>1, <1>8, <2>4, <2>5, <2>6, <2>7 DEF CommitCredit, PostJournal, Finish, TypeOK
<1>9. CASE CommitClear(s)
  <2>1. t.receipt \in Receipts
    BY <1>1, <1>9, TxnKind DEF CommitClear, ChequeTxn
  <2>2. receipt' \in [Receipts -> ReceiptRow]
    <3>1. [receipt[t.receipt] EXCEPT !.state = "cleared"] \in ReceiptRow
      BY <2>1, ReceiptType DEF TypeOK, ReceiptStates
    <3> QED
      BY <1>9, <2>1, <3>1 DEF CommitClear, TypeOK
  <2>3. clearing' \in [Receipts -> Int] /\ bank' \in [Receipts -> Int]
    BY <1>9, <2>1 DEF CommitClear, TypeOK, ReceiptRow
  <2> QED
    BY <1>1, <1>9, <2>2, <2>3 DEF CommitClear, PostJournal, Finish, TypeOK
<1>10. CASE CommitBounce(s)
  <2> DEFINE r == t.receipt
             alloc == receipt[r].alloc
  <2>1. r \in Receipts
    BY <1>1, <1>10, TxnKind DEF CommitBounce, ChequeTxn
  <2>2. alloc \in Allocations /\ receipt[r].amount \in Nat
    BY <2>1 DEF TypeOK, ReceiptRow
  <2>3. receipt' \in [Receipts -> ReceiptRow]
    <3>1. [receipt[r] EXCEPT !.state = "bounced", !.bounced = TRUE] \in ReceiptRow
      BY <2>1, ReceiptType DEF TypeOK, ReceiptStates
    <3> QED
      BY <1>10, <2>1, <3>1 DEF CommitBounce, TypeOK
  <2>4. clearing' \in [Receipts -> Int]
    BY <1>10, <2>1, <2>2 DEF CommitBounce, TypeOK
  <2>5. ar' \in [Invoices -> Int]
    BY <1>10, <2>2, AllocationType DEF CommitBounce, TypeOK
  <2>6. inv' \in [Invoices -> Row]
    <3>1. ASSUME NEW i \in Invoices
          PROVE  Reopen(inv[i], alloc[i], Total[i]) \in Row
      <4>1. alloc[i] <= inv[i].paid
        BY <1>10 DEF CommitBounce
      <4> QED
        BY <2>2, <4>1, AllocationType, ReopenType, TotalType DEF TypeOK
    <3> QED
      BY <1>10, <3>1 DEF CommitBounce, TypeOK
  <2>7. hold' \in [Customers -> BOOLEAN]
    BY <1>10 DEF CommitBounce, TypeOK
  <2> QED
    BY <1>1, <1>10, <2>3, <2>4, <2>5, <2>6, <2>7
    DEF CommitBounce, PostJournal, Finish, TypeOK
<1> QED
  BY <1>3, <1>4, <1>5, <1>6, <1>7, <1>8, <1>9, <1>10 DEF Commit

\* Every step keeps the types.
LEMMA NextType == TypeOK /\ [Next]_vars => TypeOK'
<1> SUFFICES ASSUME TypeOK, [Next]_vars PROVE TypeOK'
  OBVIOUS
<1>1. ASSUME NEW s \in Requests, Rollback(s) PROVE TypeOK'
  BY <1>1 DEF Rollback, Finish, TypeOK, Transactions, ledger
<1>2. ASSUME NEW c \in CreditNotes, NEW i \in Invoices \cup {None},
             NEW total \in Amounts, CreateCreditNote(c, i, total)
      PROVE  TypeOK'
  <2>1. [status |-> "draft", invoice |-> i, total |-> total, applied |-> 0]
          \in CreditNoteRow
    BY ParametersAssumption DEF CreditNoteRow
  <2> QED
    BY <1>2, <2>1 DEF CreateCreditNote, TypeOK, ledger
<1>3. ASSUME NEW S \in SUBSET Receipts, FlagStale(S) PROVE TypeOK'
  <2>1. ASSUME NEW r \in Receipts
        PROVE  [receipt[r] EXCEPT !.state = "stale"] \in ReceiptRow
    BY ReceiptType DEF TypeOK, ReceiptStates
  <2> QED
    BY <1>3, <2>1 DEF FlagStale, TypeOK, ledger
<1>4. ASSUME NEW c \in Customers, NEW held \in BOOLEAN, SetHold(c, held)
      PROVE  TypeOK'
  BY <1>4 DEF SetHold, TypeOK, ledger
<1>5. CASE UNCHANGED vars
  BY <1>5 DEF vars, ledger, TypeOK
<1> QED
  BY <1>1, <1>2, <1>3, <1>4, <1>5, RequestType, CommitType DEF Next, Elsewhere

\* Every reachable state is well typed, however many requests are in flight: a
\* payment written from rows that are out of date, or a bounce that takes a
\* payment back, never drives paid or balance_due below zero.
THEOREM TypeCorrect == Spec => []TypeOK
BY InitType, NextType, PTL DEF Spec

--------------------------------------------------------------------------------
\* One request at a time: the control account ties to the invoices

\* Before any request everything is a draft and ties.
LEMMA SerialInit == Init => SerialInv
<1> SUFFICES ASSUME Init PROVE SerialInv
  OBVIOUS
<1>1. \A i \in Invoices :
        /\ inv[i].status = "draft"
        /\ inv[i].balance = Total[i]
        /\ reversed[i] = {}
        /\ ar[i] = 0
  BY DEF Init, DraftRow
<1>2. ReceivableTies /\ SettledRows
  BY <1>1 DEF ReceivableTies, SettledRows
<1>3. DocumentsNameIssued
  BY DEF Init, DocumentsNameIssued, NoReceipt, NoCreditNote
<1>4. \A s \in Requests : ReadIsCurrent(txn[s])
  BY DEF Init, ReadIsCurrent, Idle
<1> QED
  BY <1>2, <1>3, <1>4 DEF SerialInv

\* The request that has finished was the only one.
LEMMA NothingInFlight ==
  ASSUME TypeOK, OneRequestAtATime, NEW s \in Requests, Finish(s)
  PROVE  \A t \in Requests : ReadIsCurrent(txn[t])'
BY DEF TypeOK, OneRequestAtATime, Finish, ReadIsCurrent, Idle

\* What a request has just read is current.
LEMMA SerialRequest ==
  ASSUME TypeOK, SerialInv, OneRequestAtATime, NEW s \in Requests, Request(s)
  PROVE  SerialInv'
<1>1. ASSUME NEW t \in Transactions, Begin(s, t), ReadIsCurrent(t)
      PROVE  SerialInv'
  <2>1. /\ UNCHANGED <<inv, reversed, cn, receipt, ar>>
        /\ txn' = [txn EXCEPT ![s] = t]
    BY <1>1 DEF Begin, ledger
  <2>2. ReceivableTies' /\ SettledRows' /\ DocumentsNameIssued'
    BY <2>1 DEF SerialInv, ReceivableTies, SettledRows, DocumentsNameIssued
  <2>3. ASSUME NEW u \in Requests PROVE ReadIsCurrent(txn[u])'
    <3>1. txn'[u] = t
      BY <2>1 DEF TypeOK, OneRequestAtATime
    <3> QED
      BY <1>1, <2>1, <3>1 DEF ReadIsCurrent
  <2> QED
    BY <2>2, <2>3 DEF SerialInv
<1>2. ASSUME NEW i \in Invoices,
             RequestPost(s, i) \/ RequestVoid(s, i) \/ RequestWriteOff(s, i)
               \/ RequestReverse(s, i)
      PROVE  SerialInv'
  <2>1. PICK op \in {"post", "void", "writeoff", "reverse"} :
          /\ Begin(s, [op |-> op, inv |-> i, seen |-> inv[i]])
          /\ op = "post" => inv[i].status = "draft"
          /\ op \in {"void", "writeoff"} => inv[i].status \in Collectable
          /\ op = "reverse" => inv[i].status = "written_off"
    BY <1>2 DEF RequestPost, RequestVoid, RequestWriteOff, RequestReverse
  <2>2. [op |-> op, inv |-> i, seen |-> inv[i]] \in Transactions
    BY DEF TypeOK, Transactions, InvoiceTxn
  <2>3. ReadIsCurrent([op |-> op, inv |-> i, seen |-> inv[i]])
    BY <2>1 DEF ReadIsCurrent
  <2> QED
    BY <1>1, <2>1, <2>2, <2>3
<1>3. ASSUME NEW c \in Customers, NEW state \in {"cash", "deposited"},
             NEW amount \in Amounts, NEW alloc \in Allocations,
             RequestPay(s, c, state, amount, alloc)
      PROVE  SerialInv'
  <2> DEFINE t == [op |-> "pay", customer |-> c, state |-> state, amount |-> amount,
                   alloc |-> alloc, seen |-> Seen(alloc)]
  <2>1. Begin(s, t)
    BY <1>3 DEF RequestPay
  <2>2. \A i \in Invoices :
          alloc[i] > 0 => Seen(alloc)[i] = inv[i] /\ inv[i].status \in Collectable
    BY <1>3 DEF RequestPay, CanAllocate, Seen
  <2>3. ReadIsCurrent(t)
    BY <2>2 DEF ReadIsCurrent
  <2>4. t \in Transactions
    BY <1>3, <2>1, PayTxnType DEF Transactions
  <2> QED
    BY <1>1, <2>1, <2>3, <2>4
<1>4. ASSUME NEW c \in CreditNotes, RequestCredit(s, c)
      PROVE  SerialInv'
  <2>1. [op |-> "credit", cn |-> c] \in Transactions
    BY DEF Transactions, CreditTxn
  <2>2. ReadIsCurrent([op |-> "credit", cn |-> c])
    BY DEF ReadIsCurrent
  <2> QED
    BY <1>1, <1>4, <2>1, <2>2 DEF RequestCredit
<1>5. ASSUME NEW r \in Receipts, RequestClear(s, r) \/ RequestBounce(s, r)
      PROVE  SerialInv'
  <2>1. PICK op \in {"clear", "bounce"} : Begin(s, [op |-> op, receipt |-> r])
    BY <1>5 DEF RequestClear, RequestBounce
  <2>2. [op |-> op, receipt |-> r] \in Transactions
    BY DEF Transactions, ChequeTxn
  <2>3. ReadIsCurrent([op |-> op, receipt |-> r])
    BY DEF ReadIsCurrent
  <2> QED
    BY <1>1, <2>1, <2>2, <2>3
<1> QED
  BY <1>2, <1>3, <1>4, <1>5 DEF Request

\* A settlement of a row as it is now keeps it tied, whoever pays.
LEMMA SettleTies ==
  ASSUME NEW row \in Row, NEW a \in Nat, a <= row.balance,
         row.status \notin {"draft", "written_off"} \/ (row.status = "written_off" /\ a = row.balance)
  PROVE  /\ Settle(row, row, a).balance = row.balance - a
         /\ Settle(row, row, a).status \notin {"draft", "written_off"}
         /\ Settle(row, row, a).entry = row.entry
BY DEF Settle, Row

\* Documents keep naming issued invoices when no invoice becomes a draft again.
LEMMA IssuedStays ==
  ASSUME TypeOK, DocumentsNameIssued, UNCHANGED <<cn, receipt>>,
         \A i \in Invoices : inv[i].status # "draft" => inv'[i].status # "draft"
  PROVE  DocumentsNameIssued'
BY NoneAssumption DEF DocumentsNameIssued, TypeOK, CreditNoteRow

\* A commit writes what its only reader will find, on both sides at once.
LEMMA SerialCommit ==
  ASSUME TypeOK, SerialInv, OneRequestAtATime, NEW s \in Requests, Commit(s)
  PROVE  SerialInv'
<1> DEFINE t == txn[s]
<1>1. t \in Transactions
  BY DEF TypeOK
<1>2. ReadIsCurrent(t)
  BY DEF SerialInv
<1>3. (\A u \in Requests : ReadIsCurrent(txn[u]))'
  <2>1. Finish(s)
    BY DEF Commit, CommitPost, CommitPostRefused, CommitVoid, CommitWriteOff,
           CommitReverse, CommitPay, CommitCredit, CommitClear, CommitBounce
  <2> QED
    BY <2>1, NothingInFlight
<1>4. /\ ReceivableTies
      /\ SettledRows
      /\ DocumentsNameIssued
  BY DEF SerialInv
<1>5. ASSUME t.op \in {"post", "void", "writeoff", "reverse"}
      PROVE  t.inv \in Invoices /\ t.seen = inv[t.inv] /\ t.seen \in Row
  BY <1>1, <1>2, <1>5, TxnKind DEF InvoiceTxn, ReadIsCurrent
<1>6. CASE CommitPost(s)
  <2>1. /\ t.inv \in Invoices
        /\ inv[t.inv].status = "draft"
        /\ UNCHANGED <<reversed, cn, receipt>>
        /\ inv' = [inv EXCEPT ![t.inv].status = "posted", ![t.inv].entry = @ + 1]
        /\ ar' = [ar EXCEPT ![t.inv] = @ + Total[t.inv]]
    BY <1>2, <1>5, <1>6 DEF CommitPost, ReadIsCurrent
  <2>2. /\ inv'[t.inv].status = "posted"
        /\ inv'[t.inv].balance = Total[t.inv]
        /\ reversed[t.inv] = {}
    BY <1>4, <2>1 DEF TypeOK, Row, SettledRows
  <2>3. t.inv \notin StockInvoices => ar'[t.inv] = Total[t.inv]
    BY <1>4, <2>1, <2>2, TotalType DEF TypeOK, ReceivableTies
  <2>4. \A i \in Invoices \ {t.inv} : inv'[i] = inv[i] /\ ar'[i] = ar[i]
    BY <2>1 DEF TypeOK
  <2>5. ReceivableTies'
    BY <1>4, <2>1, <2>2, <2>3, <2>4 DEF ReceivableTies
  <2>6. SettledRows'
    BY <1>4, <2>1, <2>2, <2>4 DEF SettledRows
  <2>7. DocumentsNameIssued'
    BY <1>4, <2>1, <2>2, <2>4, IssuedStays
  <2> QED
    BY <1>3, <2>5, <2>6, <2>7 DEF SerialInv
\* The stock refusal moves only the account of an invoice that is left out.
<1>7. CASE CommitPostRefused(s)
  <2>1. /\ t.inv \in StockInvoices
        /\ UNCHANGED <<inv, reversed, cn, receipt>>
        /\ ar' = [ar EXCEPT ![t.inv] = @ + Total[t.inv]]
    BY <1>7 DEF CommitPostRefused
  <2>2. ReceivableTies'
    BY <1>4, <2>1 DEF TypeOK, ReceivableTies
  <2>3. SettledRows' /\ DocumentsNameIssued'
    BY <1>4, <2>1 DEF SettledRows, DocumentsNameIssued
  <2> QED
    BY <1>3, <2>2, <2>3 DEF SerialInv
\* The voided invoice is left out from now on: its entry is reversed.
<1>8. CASE CommitVoid(s)
  <2>1. /\ t.inv \in Invoices
        /\ t.seen = inv[t.inv]
        /\ inv[t.inv].status \in Collectable
        /\ UNCHANGED <<cn, receipt>>
        /\ inv' = [inv EXCEPT ![t.inv].status = "void", ![t.inv].balance = 0]
        /\ ar' = [ar EXCEPT ![t.inv] = @ - Total[t.inv]]
        /\ reversed' = [reversed EXCEPT ![t.inv] = @ \cup {t.seen.entry}]
    BY <1>2, <1>5, <1>8 DEF CommitVoid, ReadIsCurrent
  <2>2. /\ inv'[t.inv].status = "void"
        /\ inv'[t.inv].entry \in reversed'[t.inv]
    BY <2>1 DEF TypeOK, Row
  <2>3. \A i \in Invoices \ {t.inv} :
          inv'[i] = inv[i] /\ ar'[i] = ar[i] /\ reversed'[i] = reversed[i]
    BY <2>1 DEF TypeOK
  <2>4. ReceivableTies'
    BY <1>4, <2>2, <2>3 DEF ReceivableTies
  <2>5. SettledRows'
    BY <1>4, <2>2, <2>3 DEF SettledRows
  <2>6. DocumentsNameIssued'
    BY <1>4, <2>1, <2>2, <2>3, IssuedStays
  <2> QED
    BY <1>3, <2>4, <2>5, <2>6 DEF SerialInv
<1>9. CASE CommitWriteOff(s)
  <2>1. /\ t.inv \in Invoices
        /\ t.seen = inv[t.inv]
        /\ inv[t.inv].status \in Collectable
        /\ UNCHANGED <<reversed, cn, receipt>>
        /\ inv' = [inv EXCEPT ![t.inv].status = "written_off", ![t.inv].balance = 0,
                              ![t.inv].writeoff = inv[t.inv].balance]
        /\ ar' = [ar EXCEPT ![t.inv] = @ - inv[t.inv].balance]
    BY <1>2, <1>5, <1>9 DEF CommitWriteOff, ReadIsCurrent
  <2>2. /\ inv'[t.inv].status = "written_off"
        /\ inv'[t.inv].balance = 0
        /\ inv'[t.inv].entry = inv[t.inv].entry
        /\ ar'[t.inv] = ar[t.inv] - inv[t.inv].balance
    BY <2>1 DEF TypeOK, Row
  <2>3. \A i \in Invoices \ {t.inv} : inv'[i] = inv[i] /\ ar'[i] = ar[i]
    BY <2>1 DEF TypeOK
  <2>4. inv[t.inv].balance - inv[t.inv].balance = 0 /\ inv[t.inv].status # "draft"
    BY <2>1 DEF TypeOK, Row, Collectable
  <2>5. ReceivableTies'
    BY <1>4, <2>1, <2>2, <2>3, <2>4, ZenonT(30) DEF ReceivableTies
  <2>6. SettledRows'
    BY <1>4, <2>1, <2>2, <2>3 DEF SettledRows
  <2>7. DocumentsNameIssued'
    BY <1>4, <2>1, <2>2, <2>3, IssuedStays
  <2> QED
    BY <1>3, <2>5, <2>6, <2>7 DEF SerialInv
\* The write-off comes back on top of a balance of zero.
<1>10. CASE CommitReverse(s)
  <2> DEFINE status == IF inv[t.inv].paid > 0 THEN "partially_paid" ELSE "posted"
  <2>1. /\ t.inv \in Invoices
        /\ t.seen = inv[t.inv]
        /\ inv[t.inv].status = "written_off"
        /\ UNCHANGED <<reversed, cn, receipt>>
        /\ inv' = [inv EXCEPT ![t.inv].status = status,
                              ![t.inv].balance = inv[t.inv].writeoff,
                              ![t.inv].writeoff = 0]
        /\ ar' = [ar EXCEPT ![t.inv] = @ + inv[t.inv].writeoff]
    BY <1>2, <1>5, <1>10 DEF CommitReverse, ReadIsCurrent
  <2>2. /\ inv'[t.inv].status \in {"partially_paid", "posted"}
        /\ inv'[t.inv].balance = inv[t.inv].writeoff
        /\ inv'[t.inv].entry = inv[t.inv].entry
        /\ ar'[t.inv] = ar[t.inv] + inv[t.inv].writeoff
    BY <2>1 DEF TypeOK, Row
  <2>3. \A i \in Invoices \ {t.inv} : inv'[i] = inv[i] /\ ar'[i] = ar[i]
    BY <2>1 DEF TypeOK
  <2>4. inv[t.inv].balance = 0 /\ 0 + inv[t.inv].writeoff = inv[t.inv].writeoff
    BY <1>4, <2>1 DEF TypeOK, Row, SettledRows
  <2>5. ReceivableTies'
    <3> SUFFICES ASSUME NEW i \in Invoices \ StockInvoices,
                        inv'[i].entry \notin reversed'[i]
                 PROVE  ar'[i] = IF inv'[i].status = "draft" THEN 0 ELSE inv'[i].balance
      BY DEF ReceivableTies
    <3>1. CASE i = t.inv
      <4>1. ar[i] = 0
        BY <1>4, <2>1, <2>2, <2>4, <3>1 DEF ReceivableTies
      <4> QED
        BY <2>2, <2>4, <3>1, <4>1
    <3>2. CASE i # t.inv
      BY <1>4, <2>1, <2>3, <3>2 DEF ReceivableTies
    <3> QED
      BY <3>1, <3>2
  <2>6. SettledRows'
    BY <1>4, <2>1, <2>2, <2>3, ZenonT(30) DEF SettledRows
  <2>7. DocumentsNameIssued'
    BY <1>4, <2>1, <2>2, <2>3, IssuedStays
  <2> QED
    BY <1>3, <2>5, <2>6, <2>7 DEF SerialInv
\* A payment settles the rows it has read, which are the rows as they are.
<1>11. ASSUME NEW r \in Receipts, CommitPay(s, r)
       PROVE  SerialInv'
  <2>1. t \in PayTxn
    BY <1>1, <1>11, TxnKind DEF CommitPay
  <2>2. /\ UNCHANGED <<reversed, cn>>
        /\ ar' = [i \in Invoices |-> ar[i] - t.alloc[i]]
        /\ inv' = [i \in Invoices |-> IF t.alloc[i] > 0
                                      THEN Settle(inv[i], t.seen[i], t.alloc[i])
                                      ELSE inv[i]]
        /\ \A q \in Receipts : receipt'[q].alloc \in {receipt[q].alloc, t.alloc}
    BY <1>11 DEF CommitPay, TypeOK
  <2>3. ASSUME NEW i \in Invoices, t.alloc[i] > 0
        PROVE  /\ inv[i].status \in Collectable
               /\ inv'[i].status \notin {"draft", "written_off"}
               /\ inv'[i].balance = inv[i].balance - t.alloc[i]
               /\ inv'[i].entry = inv[i].entry
               /\ ar'[i] = ar[i] - t.alloc[i]
    <3>1. t.seen[i] = inv[i] /\ inv[i].status \in Collectable
      BY <1>2, <1>11, <2>3 DEF ReadIsCurrent, CommitPay
    <3>2. inv[i] \in Row /\ t.alloc[i] \in Nat /\ t.alloc[i] <= inv[i].balance
      BY <2>1, <3>1, AllocationType DEF PayTxn, TypeOK
    <3>3. inv'[i] = Settle(inv[i], inv[i], t.alloc[i])
      BY <2>2, <2>3, <3>1
    <3> QED
      BY <2>2, <3>1, <3>2, <3>3, SettleTies DEF Collectable
  <2>4. ASSUME NEW i \in Invoices, ~(t.alloc[i] > 0)
        PROVE  inv'[i] = inv[i] /\ ar'[i] = ar[i]
    <3>1. t.alloc[i] = 0
      BY <2>1, <2>4, AllocationType DEF PayTxn
    <3> QED
      BY <2>2, <2>4, <3>1 DEF TypeOK
  <2>5. ReceivableTies'
    <3> SUFFICES ASSUME NEW i \in Invoices \ StockInvoices,
                        inv'[i].entry \notin reversed'[i]
                 PROVE  ar'[i] = IF inv'[i].status = "draft" THEN 0 ELSE inv'[i].balance
      BY DEF ReceivableTies
    <3>1. CASE t.alloc[i] > 0
      <4>1. ar[i] = inv[i].balance
        BY <1>4, <2>2, <2>3, <3>1 DEF ReceivableTies, Collectable
      <4> QED
        BY <2>3, <3>1, <4>1
    <3>2. CASE ~(t.alloc[i] > 0)
      BY <1>4, <2>2, <2>4, <3>2 DEF ReceivableTies
    <3> QED
      BY <3>1, <3>2
  <2>6. SettledRows'
    BY <1>4, <2>2, <2>3, <2>4 DEF SettledRows
  <2>7. DocumentsNameIssued'
    <3>1. ASSUME NEW i \in Invoices, inv[i].status # "draft"
          PROVE  inv'[i].status # "draft"
      BY <2>3, <2>4, <3>1
    <3>2. ASSUME NEW q \in Receipts, NEW i \in Invoices, receipt'[q].alloc[i] > 0
          PROVE  inv'[i].status # "draft"
      BY <1>4, <2>2, <2>3, <3>1, <3>2 DEF DocumentsNameIssued
    <3>3. ASSUME NEW c \in CreditNotes, cn'[c].invoice # None
          PROVE  inv'[cn'[c].invoice].status # "draft"
      BY <1>4, <2>2, <3>1, <3>3 DEF DocumentsNameIssued, TypeOK, CreditNoteRow
    <3> QED
      BY <3>2, <3>3 DEF DocumentsNameIssued
  <2> QED
    BY <1>3, <2>5, <2>6, <2>7 DEF SerialInv
\* A credit note settles its invoice as it is after the lock.
<1>12. CASE CommitCredit(s)
  <2> DEFINE c == t.cn
             i == cn[c].invoice
  <2>1. c \in CreditNotes /\ cn[c] \in CreditNoteRow
    BY <1>1, <1>12, TxnKind DEF CommitCredit, CreditTxn, TypeOK
  <2>2. /\ UNCHANGED <<reversed, receipt>>
        /\ \A d \in CreditNotes : cn'[d].invoice = cn[d].invoice
    BY <1>12, <2>1 DEF CommitCredit, TypeOK, CreditNoteRow
  <2>3. CASE i = None
    <3>1. UNCHANGED <<inv, ar, reversed, receipt>>
      BY <1>12, <2>3 DEF CommitCredit
    <3>2. ReceivableTies' /\ SettledRows'
      BY <1>4, <3>1 DEF ReceivableTies, SettledRows
    <3>3. DocumentsNameIssued'
      BY <1>4, <2>2, <3>1 DEF DocumentsNameIssued
    <3> QED
      BY <1>3, <3>2, <3>3 DEF SerialInv
  <2>4. CASE i # None
    <3> DEFINE a == Applied(c)
    <3>1. /\ i \in Invoices
          /\ inv[i] \in Row
          /\ inv[i].status # "draft"
      BY <1>4, <2>1, <2>4 DEF TypeOK, CreditNoteRow, DocumentsNameIssued
    <3>2. a \in Nat /\ a <= inv[i].balance
      BY <2>1, <2>4, <3>1 DEF Applied, CreditNoteRow, Row
    <3>3. /\ inv' = [inv EXCEPT ![i] = Settle(inv[i], inv[i], a)]
          /\ ar' = [ar EXCEPT ![i] = @ - a]
      BY <1>12, <2>4 DEF CommitCredit
    <3>4. inv[i].status = "written_off" => a = inv[i].balance
      BY <1>4, <3>1, <3>2 DEF SettledRows
    <3>5. /\ inv'[i].status \notin {"draft", "written_off"}
          /\ inv'[i].balance = inv[i].balance - a
          /\ inv'[i].entry = inv[i].entry
          /\ ar'[i] = ar[i] - a
      <4> HIDE DEF a
      <4>1. inv'[i] = Settle(inv[i], inv[i], a) /\ ar'[i] = ar[i] - a
        BY <3>1, <3>3 DEF TypeOK
      <4> QED
        BY <3>1, <3>2, <3>4, <4>1, SettleTies
    <3>6. \A j \in Invoices \ {i} : inv'[j] = inv[j] /\ ar'[j] = ar[j]
      BY <3>1, <3>3 DEF TypeOK
    <3>7. ReceivableTies'
      <4> SUFFICES ASSUME NEW j \in Invoices \ StockInvoices,
                          inv'[j].entry \notin reversed'[j]
                   PROVE  ar'[j] = IF inv'[j].status = "draft" THEN 0 ELSE inv'[j].balance
        BY DEF ReceivableTies
      <4>1. CASE j = i
        <5>1. ar[i] = inv[i].balance
          BY <1>4, <2>2, <3>1, <3>5, <4>1 DEF ReceivableTies
        <5> QED
          BY <3>5, <4>1, <5>1
      <4>2. CASE j # i
        BY <1>4, <2>2, <3>6, <4>2 DEF ReceivableTies
      <4> QED
        BY <4>1, <4>2
    <3>8. SettledRows'
      BY <1>4, <2>2, <3>5, <3>6 DEF SettledRows
    <3>9. DocumentsNameIssued'
      <4>1. \A j \in Invoices : inv[j].status # "draft" => inv'[j].status # "draft"
        BY <3>5, <3>6
      <4>2. ASSUME NEW r \in Receipts, NEW j \in Invoices, receipt'[r].alloc[j] > 0
            PROVE  inv'[j].status # "draft"
        BY <1>4, <2>2, <4>1, <4>2 DEF DocumentsNameIssued
      <4>3. ASSUME NEW d \in CreditNotes, cn'[d].invoice # None
            PROVE  inv'[cn'[d].invoice].status # "draft"
        BY <1>4, <2>2, <4>1, <4>3 DEF DocumentsNameIssued, TypeOK, CreditNoteRow
      <4> QED
        BY <4>2, <4>3 DEF DocumentsNameIssued
    <3> QED
      BY <1>3, <3>7, <3>8, <3>9 DEF SerialInv
  <2> QED
    BY <2>3, <2>4
<1>13. CASE CommitClear(s)
  <2>1. /\ UNCHANGED <<inv, reversed, cn, ar>>
        /\ \A r \in Receipts : receipt'[r].alloc = receipt[r].alloc
    <3>1. t.receipt \in Receipts
      BY <1>1, <1>13, TxnKind DEF CommitClear, ChequeTxn
    <3> QED
      BY <1>13, <3>1 DEF CommitClear, TypeOK, ReceiptRow
  <2>2. ReceivableTies' /\ SettledRows'
    BY <1>4, <2>1 DEF ReceivableTies, SettledRows
  <2>3. DocumentsNameIssued'
    BY <1>4, <2>1 DEF DocumentsNameIssued
  <2> QED
    BY <1>3, <2>2, <2>3 DEF SerialInv
\* A bounce gives back to the account what it gives back to the balance.
<1>14. CASE CommitBounce(s)
  <2> DEFINE alloc == receipt[t.receipt].alloc
  <2>1. t.receipt \in Receipts /\ alloc \in Allocations
    BY <1>1, <1>14, TxnKind DEF CommitBounce, ChequeTxn, TypeOK, ReceiptRow
  <2>2. /\ UNCHANGED <<reversed, cn>>
        /\ ar' = [i \in Invoices |-> ar[i] + alloc[i]]
        /\ inv' = [i \in Invoices |->
                     IF alloc[i] > 0 THEN Reopen(inv[i], alloc[i], Total[i]) ELSE inv[i]]
    BY <1>14 DEF CommitBounce
  <2>3. \A r \in Receipts : receipt'[r].alloc = receipt[r].alloc
    BY <1>14, <2>1 DEF CommitBounce, TypeOK, ReceiptRow
  <2>4. ASSUME NEW i \in Invoices, alloc[i] > 0
        PROVE  /\ inv[i].status # "draft"
               /\ inv'[i].status \notin {"draft", "written_off"}
               /\ inv'[i].balance = inv[i].balance + alloc[i]
               /\ inv'[i].entry = inv[i].entry
               /\ ar'[i] = ar[i] + alloc[i]
    <3>1. inv[i].status # "draft"
      BY <1>4, <2>1, <2>4 DEF DocumentsNameIssued
    <3>2. inv'[i] = Reopen(inv[i], alloc[i], Total[i]) /\ ar'[i] = ar[i] + alloc[i]
      BY <2>2, <2>4
    <3>3. inv[i] \in Row
      BY DEF TypeOK
    <3> HIDE DEF alloc
    <3> QED
      BY <3>1, <3>2, <3>3 DEF Reopen, Row
  <2>5. ASSUME NEW i \in Invoices, ~(alloc[i] > 0)
        PROVE  inv'[i] = inv[i] /\ ar'[i] = ar[i]
    <3>1. alloc[i] = 0
      BY <2>1, <2>5, AllocationType
    <3> QED
      BY <2>2, <2>5, <3>1 DEF TypeOK
  <2>6. ReceivableTies'
    <3> SUFFICES ASSUME NEW i \in Invoices \ StockInvoices,
                        inv'[i].entry \notin reversed'[i]
                 PROVE  ar'[i] = IF inv'[i].status = "draft" THEN 0 ELSE inv'[i].balance
      BY DEF ReceivableTies
    <3>1. CASE alloc[i] > 0
      <4>1. ar[i] = inv[i].balance
        BY <1>4, <2>2, <2>4, <3>1 DEF ReceivableTies
      <4> QED
        BY <2>4, <3>1, <4>1
    <3>2. CASE ~(alloc[i] > 0)
      BY <1>4, <2>2, <2>5, <3>2 DEF ReceivableTies
    <3> QED
      BY <3>1, <3>2
  <2>7. SettledRows'
    BY <1>4, <2>2, <2>4, <2>5 DEF SettledRows
  <2>8. DocumentsNameIssued'
    <3>1. ASSUME NEW i \in Invoices, inv[i].status # "draft"
          PROVE  inv'[i].status # "draft"
      BY <2>4, <2>5, <3>1
    <3>2. ASSUME NEW r \in Receipts, NEW i \in Invoices, receipt'[r].alloc[i] > 0
          PROVE  inv'[i].status # "draft"
      BY <1>4, <2>3, <3>1, <3>2 DEF DocumentsNameIssued
    <3>3. ASSUME NEW c \in CreditNotes, cn'[c].invoice # None
          PROVE  inv'[cn'[c].invoice].status # "draft"
      BY <1>4, <2>2, <3>1, <3>3 DEF DocumentsNameIssued, TypeOK, CreditNoteRow
    <3> QED
      BY <3>2, <3>3 DEF DocumentsNameIssued
  <2> QED
    BY <1>3, <2>6, <2>7, <2>8 DEF SerialInv
<1> QED
  BY <1>6, <1>7, <1>8, <1>9, <1>10, <1>11, <1>12, <1>13, <1>14 DEF Commit

\* Every step keeps the books tied when one request runs at a time.
LEMMA SerialNext ==
  OneRequestAtATime => (TypeOK /\ SerialInv /\ [Next]_vars => SerialInv')
<1> SUFFICES ASSUME OneRequestAtATime, TypeOK, SerialInv, [Next]_vars
             PROVE  SerialInv'
  OBVIOUS
<1>1. ASSUME NEW s \in Requests, Rollback(s) PROVE SerialInv'
  <2>1. Finish(s) /\ UNCHANGED <<inv, reversed, cn, receipt, ar>>
    BY <1>1 DEF Rollback, ledger
  <2>2. (\A t \in Requests : ReadIsCurrent(txn[t]))'
    BY <2>1, NothingInFlight
  <2> QED
    BY <2>1, <2>2 DEF SerialInv, ReceivableTies, SettledRows, DocumentsNameIssued
<1>2. ASSUME UNCHANGED <<inv, reversed, ar, txn>>, DocumentsNameIssued'
      PROVE  SerialInv'
  BY <1>2 DEF SerialInv, ReceivableTies, SettledRows, ReadIsCurrent
<1>3. ASSUME NEW c \in CreditNotes, NEW i \in Invoices \cup {None},
             NEW total \in Amounts, CreateCreditNote(c, i, total)
      PROVE  SerialInv'
  <2>1. \A d \in CreditNotes :
          cn'[d].invoice = cn[d].invoice \/
            (cn'[d].invoice # None => inv[cn'[d].invoice].status # "draft")
    BY <1>3 DEF CreateCreditNote, TypeOK
  <2>2. DocumentsNameIssued'
    BY <1>3, <2>1 DEF CreateCreditNote, DocumentsNameIssued, SerialInv
  <2> QED
    BY <1>2, <1>3, <2>2 DEF CreateCreditNote, ledger
<1>4. ASSUME NEW S \in SUBSET Receipts, FlagStale(S) PROVE SerialInv'
  <2>1. \A r \in Receipts : receipt'[r].alloc = receipt[r].alloc
    BY <1>4 DEF FlagStale, TypeOK, ReceiptRow
  <2>2. DocumentsNameIssued'
    BY <1>4, <2>1 DEF FlagStale, DocumentsNameIssued, SerialInv
  <2> QED
    BY <1>2, <1>4, <2>2 DEF FlagStale, ledger
<1>5. ASSUME NEW c \in Customers, NEW held \in BOOLEAN, SetHold(c, held)
      PROVE  SerialInv'
  BY <1>2, <1>5 DEF SetHold, ledger, DocumentsNameIssued, SerialInv
<1>6. CASE UNCHANGED vars
  BY <1>2, <1>6 DEF vars, ledger, DocumentsNameIssued, SerialInv
<1> QED
  BY <1>1, <1>3, <1>4, <1>5, <1>6, SerialRequest, SerialCommit DEF Next, Elsewhere

\* When requests run one at a time, the AR control account holds for every
\* invoice exactly its balance due, through any sequence of posts, payments,
\* bounces, credit notes, write-offs and their reversals, for any number of
\* customers and documents: what the books lose, they lose to a race, to a void
\* or to a refused stock issue.
THEOREM SerialTies == OneRequestAtATime => (Spec => []ReceivableTies)
<1> SUFFICES ASSUME OneRequestAtATime
             PROVE  Spec => []ReceivableTies
  OBVIOUS
<1>1. Init => TypeOK /\ SerialInv
  BY InitType, SerialInit
<1>2. TypeOK /\ SerialInv /\ [Next]_vars => (TypeOK /\ SerialInv)'
  BY NextType, SerialNext
<1>3. SerialInv => ReceivableTies
  BY DEF SerialInv
<1> QED
  BY <1>1, <1>2, <1>3, PTL DEF Spec

--------------------------------------------------------------------------------
\* Any number of requests: rows add up although updates are lost

\* A settlement moves an amount from due to paid.
LEMMA SettleAddsUp ==
  ASSUME NEW row \in Row, NEW seen \in Row, NEW a \in Nat, NEW total \in Nat,
         seen.paid + seen.balance = total
  PROVE  Settle(row, seen, a).paid + Settle(row, seen, a).balance = total
BY DEF Settle, Row

\* A bounce moves it back.
LEMMA ReopenAddsUp ==
  ASSUME NEW row \in Row, NEW a \in Nat, NEW total \in Nat,
         row.paid + row.balance = total
  PROVE  Reopen(row, a, total).paid + Reopen(row, a, total).balance = total
BY DEF Reopen, Row

\* Drafts add up.
LEMMA RowsInit == Init => RowsInv
<1> SUFFICES ASSUME Init PROVE RowsInv
  OBVIOUS
<1>1. \A i \in Invoices : inv[i].paid = 0 /\ inv[i].balance = Total[i]
  BY DEF Init, DraftRow
<1>2. RowAddsUp
  BY <1>1, TotalType DEF RowAddsUp
<1> QED
  BY <1>2 DEF RowsInv, Init, ReadsAddUp, Idle

\* So do the rows a request reads.
LEMMA RowsRequest ==
  ASSUME TypeOK, RowsInv, NEW s \in Requests, Request(s)
  PROVE  RowsInv'
<1>1. ASSUME NEW t \in Transactions, Begin(s, t),
             t.op = "pay" => \A i \in Invoices : t.seen[i].paid + t.seen[i].balance = Total[i]
      PROVE  RowsInv'
  BY <1>1 DEF Begin, RowsInv, RowAddsUp, ReadsAddUp, TypeOK
<1>2. ASSUME NEW i \in Invoices,
             RequestPost(s, i) \/ RequestVoid(s, i) \/ RequestWriteOff(s, i)
               \/ RequestReverse(s, i)
      PROVE  RowsInv'
  <2>1. PICK op \in {"post", "void", "writeoff", "reverse"} :
          Begin(s, [op |-> op, inv |-> i, seen |-> inv[i]])
    BY <1>2 DEF RequestPost, RequestVoid, RequestWriteOff, RequestReverse
  <2>2. [op |-> op, inv |-> i, seen |-> inv[i]] \in Transactions
    BY DEF TypeOK, Transactions, InvoiceTxn
  <2> QED
    BY <1>1, <2>1, <2>2
<1>3. ASSUME NEW c \in Customers, NEW state \in {"cash", "deposited"},
             NEW amount \in Amounts, NEW alloc \in Allocations,
             RequestPay(s, c, state, amount, alloc)
      PROVE  RowsInv'
  <2> DEFINE t == [op |-> "pay", customer |-> c, state |-> state, amount |-> amount,
                   alloc |-> alloc, seen |-> Seen(alloc)]
  <2>1. Begin(s, t)
    BY <1>3 DEF RequestPay
  <2>2. ASSUME NEW i \in Invoices
        PROVE  Seen(alloc)[i].paid + Seen(alloc)[i].balance = Total[i]
    <3>1. CASE alloc[i] > 0
      BY <3>1 DEF Seen, RowsInv, RowAddsUp
    <3>2. CASE ~(alloc[i] > 0)
      BY <3>2, TotalType DEF Seen, DraftRow
    <3> QED
      BY <3>1, <3>2
  <2>3. t \in Transactions
    BY <1>3, PayTxnType DEF Transactions
  <2> QED
    BY <1>1, <2>1, <2>2, <2>3
<1>4. ASSUME NEW c \in CreditNotes, RequestCredit(s, c)
      PROVE  RowsInv'
  <2>1. [op |-> "credit", cn |-> c] \in Transactions
    BY DEF Transactions, CreditTxn
  <2> QED
    BY <1>1, <1>4, <2>1 DEF RequestCredit
<1>5. ASSUME NEW r \in Receipts, RequestClear(s, r) \/ RequestBounce(s, r)
      PROVE  RowsInv'
  <2>1. PICK op \in {"clear", "bounce"} : Begin(s, [op |-> op, receipt |-> r])
    BY <1>5 DEF RequestClear, RequestBounce
  <2>2. [op |-> op, receipt |-> r] \in Transactions
    BY DEF Transactions, ChequeTxn
  <2> QED
    BY <1>1, <2>1, <2>2
<1> QED
  BY <1>2, <1>3, <1>4, <1>5 DEF Request

\* And the rows a commit writes from them.
LEMMA RowsCommit ==
  ASSUME TypeOK, RowsInv, NothingIsCancelled, NEW s \in Requests, Commit(s)
  PROVE  RowsInv'
<1> DEFINE t == txn[s]
<1>1. t \in Transactions /\ ReadsAddUp(t)
  BY DEF TypeOK, RowsInv
<1>2. t.op \notin {"void", "writeoff", "reverse"}
  BY <1>1 DEF ReadsAddUp, NothingIsCancelled
<1>3. ASSUME RowAddsUp', Finish(s)
      PROVE  RowsInv'
  BY <1>3 DEF Finish, RowsInv, ReadsAddUp, Idle, TypeOK
<1>4. CASE CommitPost(s)
  <2>1. t.inv \in Invoices
    BY <1>1, <1>4, TxnKind DEF CommitPost, InvoiceTxn
  <2>2. \A i \in Invoices : inv'[i].paid = inv[i].paid /\ inv'[i].balance = inv[i].balance
    BY <1>4, <2>1 DEF CommitPost, TypeOK, Row
  <2> QED
    BY <1>3, <1>4, <2>2 DEF CommitPost, RowsInv, RowAddsUp
<1>5. CASE CommitPostRefused(s) \/ CommitClear(s)
  BY <1>3, <1>5 DEF CommitPostRefused, CommitClear, RowsInv, RowAddsUp
<1>6. ASSUME NEW r \in Receipts, CommitPay(s, r)
      PROVE  RowsInv'
  <2>1. t \in PayTxn
    BY <1>1, <1>6, TxnKind DEF CommitPay
  <2>2. ASSUME NEW i \in Invoices
        PROVE  inv'[i].paid + inv'[i].balance = Total[i]
    <3>1. /\ inv[i] \in Row
          /\ t.seen[i] \in Row
          /\ t.alloc[i] \in Nat
          /\ Total[i] \in Nat
          /\ t.seen[i].paid + t.seen[i].balance = Total[i]
          /\ inv[i].paid + inv[i].balance = Total[i]
      BY <1>1, <1>6, <2>1, AllocationType, TotalType
      DEF CommitPay, PayTxn, TypeOK, RowsInv, RowAddsUp, ReadsAddUp
    <3>2. inv'[i] = IF t.alloc[i] > 0 THEN Settle(inv[i], t.seen[i], t.alloc[i])
                    ELSE inv[i]
      BY <1>6 DEF CommitPay
    <3> QED
      BY <3>1, <3>2, SettleAddsUp
  <2> QED
    BY <1>3, <1>6, <2>2 DEF CommitPay, RowAddsUp
<1>7. CASE CommitCredit(s)
  <2> DEFINE c == t.cn
  <2>1. cn[c] \in CreditNoteRow
    BY <1>1, <1>7, TxnKind DEF CommitCredit, CreditTxn, TypeOK
  <2>2. CASE cn[c].invoice = None
    BY <1>3, <1>7, <2>2 DEF CommitCredit, RowsInv, RowAddsUp
  <2>3. CASE cn[c].invoice # None
    <3> DEFINE i == cn[c].invoice
               a == Applied(c)
    <3>1. i \in Invoices /\ inv[i] \in Row
      BY <2>1, <2>3 DEF CreditNoteRow, TypeOK
    <3>2. a \in Nat
      BY <2>1, <2>3, <3>1 DEF Applied, CreditNoteRow, Row
    <3>3. inv' = [inv EXCEPT ![i] = Settle(inv[i], inv[i], a)]
      BY <1>7, <2>3 DEF CommitCredit
    <3>4. Settle(inv[i], inv[i], a).paid + Settle(inv[i], inv[i], a).balance = Total[i]
      BY <3>1, <3>2, SettleAddsUp, TotalType DEF RowsInv, RowAddsUp
    <3>5. RowAddsUp'
      <4> HIDE DEF a
      <4> QED
        BY <3>1, <3>3, <3>4 DEF RowsInv, RowAddsUp, TypeOK
    <3> QED
      BY <1>3, <1>7, <3>5 DEF CommitCredit
  <2> QED
    BY <2>2, <2>3
<1>8. CASE CommitBounce(s)
  <2> DEFINE alloc == receipt[t.receipt].alloc
  <2>1. alloc \in Allocations
    BY <1>1, <1>8, TxnKind DEF CommitBounce, ChequeTxn, TypeOK, ReceiptRow
  <2>2. ASSUME NEW i \in Invoices
        PROVE  inv'[i].paid + inv'[i].balance = Total[i]
    <3>1. /\ inv[i] \in Row
          /\ alloc[i] \in Nat
          /\ Total[i] \in Nat
          /\ inv[i].paid + inv[i].balance = Total[i]
      BY <2>1, AllocationType, TotalType DEF TypeOK, RowsInv, RowAddsUp
    <3>2. inv'[i] = IF alloc[i] > 0 THEN Reopen(inv[i], alloc[i], Total[i]) ELSE inv[i]
      BY <1>8 DEF CommitBounce
    <3> HIDE DEF alloc
    <3> QED
      BY <3>1, <3>2, ReopenAddsUp
  <2> QED
    BY <1>3, <1>8, <2>2 DEF CommitBounce, RowAddsUp
<1> QED
  BY <1>2, <1>4, <1>5, <1>6, <1>7, <1>8
  DEF Commit, CommitVoid, CommitWriteOff, CommitReverse

\* Every step keeps the rows adding up.
LEMMA RowsNext ==
  NothingIsCancelled => (TypeOK /\ RowsInv /\ [Next]_vars => RowsInv')
<1> SUFFICES ASSUME NothingIsCancelled, TypeOK, RowsInv, [Next]_vars
             PROVE  RowsInv'
  OBVIOUS
<1>1. ASSUME NEW s \in Requests, Rollback(s) PROVE RowsInv'
  BY <1>1 DEF Rollback, Finish, RowsInv, RowAddsUp, ReadsAddUp, Idle, TypeOK
<1>2. ASSUME UNCHANGED <<inv, txn>> PROVE RowsInv'
  BY <1>2 DEF RowsInv, RowAddsUp, ReadsAddUp
<1>3. CASE Elsewhere
  BY <1>2, <1>3 DEF Elsewhere, CreateCreditNote, FlagStale, SetHold
<1>4. CASE UNCHANGED vars
  BY <1>2, <1>4 DEF vars
<1> QED
  BY <1>1, <1>3, <1>4, RowsRequest, RowsCommit DEF Next

\* However many payments, credit notes and bounces race, and whatever rows they
\* overwrite with what they read earlier, every invoice row still adds up: a
\* check of the row against itself can never reveal the payment that was lost.
THEOREM RowsAddUp == NothingIsCancelled => (Spec => []RowAddsUp)
<1> SUFFICES ASSUME NothingIsCancelled
             PROVE  Spec => []RowAddsUp
  OBVIOUS
<1>1. Init => TypeOK /\ RowsInv
  BY InitType, RowsInit
<1>2. TypeOK /\ RowsInv /\ [Next]_vars => (TypeOK /\ RowsInv)'
  BY NextType, RowsNext
<1>3. RowsInv => RowAddsUp
  BY DEF RowsInv
<1> QED
  BY <1>1, <1>2, <1>3, PTL DEF Spec

--------------------------------------------------------------------------------
\* Any number of requests: two bounces put a customer on hold

Bounced(c, rows) == {r \in Receipts : rows[r].customer = c /\ rows[r].state = "bounced"}

\* No receipt newly bounced: the count does not grow.
LEMMA BounceCountMonotone ==
  ASSUME NEW c, NEW old, NEW new, Bounced(c, new) \subseteq Bounced(c, old)
  PROVE  BounceCount(c, new) >= 2 => BounceCount(c, old) >= 2
<1>1. IsFiniteSet(Bounced(c, old)) /\ IsFiniteSet(Bounced(c, new))
  BY FS_Subset, FiniteAssumption DEF Bounced
<1>2. Cardinality(Bounced(c, new)) <= Cardinality(Bounced(c, old))
  BY <1>1, FS_Subset
<1>3. Cardinality(Bounced(c, new)) \in Nat /\ Cardinality(Bounced(c, old)) \in Nat
  BY <1>1, FS_CardinalityType
<1>4. BounceCount(c, new) = Cardinality(Bounced(c, new))
      /\ BounceCount(c, old) = Cardinality(Bounced(c, old))
  BY DEF BounceCount, Bounced
<1> QED
  BY <1>2, <1>3, <1>4

\* A step that bounces nothing and lifts no hold keeps the property.
LEMMA NoNewBounce ==
  ASSUME TwoBouncesHold,
         \A r \in Receipts : receipt'[r].state = "bounced" =>
            receipt[r].state = "bounced" /\ receipt'[r].customer = receipt[r].customer,
         \A c \in Customers : hold[c] => hold'[c]
  PROVE  TwoBouncesHold'
<1> SUFFICES ASSUME NEW c \in Customers, BounceCount(c, receipt') >= 2
             PROVE  hold'[c]
  BY DEF TwoBouncesHold
<1>1. Bounced(c, receipt') \subseteq Bounced(c, receipt)
  BY DEF Bounced
<1>2. BounceCount(c, receipt) >= 2
  BY <1>1, BounceCountMonotone
<1> QED
  BY <1>2 DEF TwoBouncesHold

\* The commit of a bounce counts itself and holds the customer at two.
LEMMA BounceHolds ==
  ASSUME TypeOK, TwoBouncesHold, NEW s \in Requests, CommitBounce(s)
  PROVE  TwoBouncesHold'
<1> DEFINE r == txn[s].receipt
           c == receipt[r].customer
<1>1. r \in Receipts
  BY TxnKind DEF CommitBounce, ChequeTxn, TypeOK
<1>2. /\ receipt' = [receipt EXCEPT ![r].state = "bounced", ![r].bounced = TRUE]
      /\ hold' = [hold EXCEPT ![c] = @ \/ SerialBouncer(c, receipt')]
  BY DEF CommitBounce
<1> SUFFICES ASSUME NEW d \in Customers, BounceCount(d, receipt') >= 2
             PROVE  hold'[d]
  BY DEF TwoBouncesHold
<1>3. CASE d = c
  BY <1>2, <1>3 DEF SerialBouncer, TypeOK
<1>4. CASE d # c
  <2>1. \A q \in Receipts : receipt'[q].customer = receipt[q].customer
    BY <1>1, <1>2 DEF TypeOK, ReceiptRow
  <2>2. \A q \in Receipts \ {r} : receipt'[q] = receipt[q]
    BY <1>1, <1>2 DEF TypeOK
  <2>3. Bounced(d, receipt') \subseteq Bounced(d, receipt)
    BY <1>4, <2>1, <2>2 DEF Bounced
  <2>4. BounceCount(d, receipt) >= 2
    BY <2>3, BounceCountMonotone
  <2>5. hold[d]
    BY <2>4 DEF TwoBouncesHold
  <2> QED
    BY <1>2, <1>4, <2>5 DEF TypeOK
<1> QED
  BY <1>3, <1>4

\* Every step keeps bouncing customers on hold.
LEMMA TwoBouncesNext ==
  "unhold" \notin Handlers => (TypeOK /\ TwoBouncesHold /\ [Next]_vars => TwoBouncesHold')
<1> SUFFICES ASSUME "unhold" \notin Handlers, TypeOK, TwoBouncesHold, [Next]_vars
             PROVE  TwoBouncesHold'
  OBVIOUS
<1>1. ASSUME UNCHANGED <<receipt, hold>> PROVE TwoBouncesHold'
  BY <1>1, NoNewBounce
<1>2. ASSUME NEW s \in Requests, Request(s) \/ Rollback(s) PROVE TwoBouncesHold'
  BY <1>1, <1>2 DEF Request, RequestPost, RequestVoid, RequestWriteOff, RequestReverse,
                    RequestPay, RequestCredit, RequestClear, RequestBounce, Begin, Rollback
<1>3. ASSUME NEW s \in Requests,
             \/ CommitPost(s) \/ CommitPostRefused(s) \/ CommitVoid(s)
             \/ CommitWriteOff(s) \/ CommitReverse(s) \/ CommitCredit(s)
      PROVE  TwoBouncesHold'
  BY <1>1, <1>3 DEF CommitPost, CommitPostRefused, CommitVoid, CommitWriteOff,
                    CommitReverse, CommitCredit
<1>4. ASSUME NEW s \in Requests, NEW r \in Receipts, CommitPay(s, r)
      PROVE  TwoBouncesHold'
  <2>1. txn[s] \in PayTxn
    BY <1>4, TxnKind DEF CommitPay, TypeOK
  <2>2. /\ receipt'[r].state # "bounced"
        /\ \A q \in Receipts \ {r} : receipt'[q] = receipt[q]
        /\ UNCHANGED hold
    BY <1>4, <2>1 DEF CommitPay, PayTxn, TypeOK
  <2> QED
    BY <2>2, NoNewBounce
<1>5. ASSUME NEW s \in Requests, CommitClear(s) PROVE TwoBouncesHold'
  <2>1. txn[s].receipt \in Receipts
    BY <1>5, TxnKind DEF CommitClear, ChequeTxn, TypeOK
  <2>2. /\ receipt'[txn[s].receipt].state # "bounced"
        /\ \A q \in Receipts \ {txn[s].receipt} : receipt'[q] = receipt[q]
        /\ UNCHANGED hold
    BY <1>5, <2>1 DEF CommitClear, TypeOK, ReceiptRow
  <2> QED
    BY <2>2, NoNewBounce
<1>6. ASSUME NEW S \in SUBSET Receipts, FlagStale(S) PROVE TwoBouncesHold'
  <2>1. \A r \in Receipts : IF r \in S THEN receipt'[r].state = "stale"
                            ELSE receipt'[r] = receipt[r]
    BY <1>6 DEF FlagStale, TypeOK, ReceiptRow
  <2> QED
    BY <1>6, <2>1, NoNewBounce DEF FlagStale
<1>7. ASSUME NEW c \in Customers, NEW held \in BOOLEAN, SetHold(c, held)
      PROVE  TwoBouncesHold'
  BY <1>7, NoNewBounce DEF SetHold, TypeOK
<1>8. ASSUME NEW c \in CreditNotes, NEW i \in Invoices \cup {None},
             NEW total \in Amounts, CreateCreditNote(c, i, total)
      PROVE  TwoBouncesHold'
  BY <1>1, <1>8 DEF CreateCreditNote
<1>9. CASE UNCHANGED vars
  BY <1>1, <1>9 DEF vars
<1> QED
  BY <1>2, <1>3, <1>4, <1>5, <1>6, <1>7, <1>8, <1>9, BounceHolds
  DEF Next, Elsewhere, Commit

\* Where nobody lifts a hold, a customer with two bounced cheques is on hold
\* after any interleaving of bounces: the count is taken after the journal lock,
\* so of two bounces in flight together the second sees the first.
THEOREM TwoBouncesCaught == "unhold" \notin Handlers => (Spec => []TwoBouncesHold)
<1> SUFFICES ASSUME "unhold" \notin Handlers
             PROVE  Spec => []TwoBouncesHold
  OBVIOUS
<1>1. Init => TypeOK /\ TwoBouncesHold
  <2>1. ASSUME Init, NEW c \in Customers PROVE ~(BounceCount(c, receipt) >= 2)
    <3>1. Bounced(c, receipt) = {}
      BY <2>1 DEF Init, NoReceipt, Bounced
    <3>2. BounceCount(c, receipt) = Cardinality(Bounced(c, receipt))
      BY DEF BounceCount, Bounced
    <3> QED
      BY <3>1, <3>2, FS_EmptySet
  <2> QED
    BY <2>1, InitType DEF TwoBouncesHold
<1>2. TypeOK /\ TwoBouncesHold /\ [Next]_vars => (TypeOK /\ TwoBouncesHold)'
  BY NextType, TwoBouncesNext
<1> QED
  BY <1>1, <1>2, PTL DEF Spec
--------------------------------------------------------------------------------
\* Bank-in-Clearing and the bank tie to the cheques

\* A cheque a request is going to clear or bounce is still in hand, unless another
\* request has bounced it meanwhile, which the unique index notices and POST
\* /cheques/:id/clear does not.
InFlightCheque(t) ==
  /\ t.op \in Handlers \cup {"idle"}
  /\ t.op \in {"clear", "bounce"} =>
       \/ receipt[t.receipt].state \in {"deposited", "stale"}
       \/ receipt[t.receipt].state = "bounced" /\ "clear" \notin Handlers

\* The inductive invariant behind ClearingTies.
ClearingInv ==
  /\ ClearingTies
  /\ \A r \in Receipts : receipt[r].bounced <=> receipt[r].state = "bounced"
  /\ \A s \in Requests : InFlightCheque(txn[s])

\* What a step may do to a cheque that a request in flight has read.
StaysInHand(r) ==
  /\ receipt[r].state \in {"deposited", "stale"} =>
       \/ receipt'[r].state \in {"deposited", "stale"}
       \/ receipt'[r].state = "bounced" /\ "clear" \notin Handlers
  /\ receipt[r].state = "bounced" => receipt'[r].state = "bounced"

\* What a row of a receipt, and its two accounts, must agree on.
ReceiptTies(row, held, arrived) ==
  /\ held = IF row.state \in {"deposited", "stale"} THEN row.amount ELSE 0
  /\ arrived = IF row.state \in {"cash", "cleared"} THEN row.amount ELSE 0
  /\ row.bounced <=> row.state = "bounced"

\* Before any request nothing is received.
LEMMA ClearingInit == Init => ClearingInv
<1> SUFFICES ASSUME Init PROVE ClearingInv
  OBVIOUS
<1>1. \A r \in Receipts : receipt[r].state = "absent" /\ receipt[r].bounced = FALSE
                          /\ clearing[r] = 0 /\ bank[r] = 0
  BY DEF Init, NoReceipt
<1>2. \A s \in Requests : InFlightCheque(txn[s])
  BY DEF Init, Idle, InFlightCheque
<1> QED
  BY <1>1, <1>2 DEF ClearingInv, ClearingTies

\* A request that has ended, or goes on with cheques still in hand, is in order.
LEMMA StillInHand ==
  ASSUME TypeOK, ClearingInv, NEW s \in Requests,
         \/ txn'[s] = Idle
         \/ txn'[s] = txn[s] /\ \A r \in Receipts : StaysInHand(r)
  PROVE  InFlightCheque(txn[s])'
<1>1. CASE txn'[s] = Idle
  BY <1>1 DEF Idle, InFlightCheque
<1>2. CASE txn'[s] = txn[s] /\ \A r \in Receipts : StaysInHand(r)
  <2>1. InFlightCheque(txn[s])
    BY DEF ClearingInv
  <2>2. txn[s].op \in {"clear", "bounce"} => txn[s].receipt \in Receipts
    BY TxnKind DEF TypeOK, ChequeTxn
  <2> QED
    BY <1>2, <2>1, <2>2 DEF InFlightCheque, StaysInHand
<1> QED
  BY <1>1, <1>2

\* When only receipt r moves, its own row decides.
LEMMA OneReceiptMoves ==
  ASSUME ClearingInv, NEW r \in Receipts,
         \A q \in Receipts \ {r} :
           receipt'[q] = receipt[q] /\ clearing'[q] = clearing[q] /\ bank'[q] = bank[q],
         ReceiptTies(receipt'[r], clearing'[r], bank'[r]),
         (\A s \in Requests : InFlightCheque(txn[s]))'
  PROVE  ClearingInv'
<1>1. \A q \in Receipts : ReceiptTies(receipt'[q], clearing'[q], bank'[q])
  BY DEF ClearingInv, ClearingTies, ReceiptTies
<1> QED
  BY <1>1 DEF ClearingInv, ClearingTies, ReceiptTies

\* When no receipt moves, the requests in flight decide.
LEMMA NoReceiptMoves ==
  ASSUME ClearingInv, UNCHANGED <<receipt, clearing, bank>>,
         (\A s \in Requests : InFlightCheque(txn[s]))'
  PROVE  ClearingInv'
BY DEF ClearingInv, ClearingTies

\* A request begins on a cheque it has found in hand.
LEMMA ClearingRequest ==
  ASSUME TypeOK, ClearingInv, NEW s \in Requests, Request(s)
  PROVE  ClearingInv'
<1>1. ASSUME NEW t, Begin(s, t), InFlightCheque(t) PROVE ClearingInv'
  <2>1. /\ UNCHANGED <<receipt, clearing, bank>>
        /\ txn' = [txn EXCEPT ![s] = t]
    BY <1>1 DEF Begin, ledger
  <2>2. ASSUME NEW u \in Requests PROVE InFlightCheque(txn[u])'
    <3>1. txn'[u] = IF u = s THEN t ELSE txn[u]
      BY <2>1 DEF TypeOK
    <3>2. InFlightCheque(txn'[u])
      BY <1>1, <3>1 DEF ClearingInv
    <3> QED
      BY <2>1, <3>2 DEF InFlightCheque
  <2> QED
    BY <2>1, <2>2, NoReceiptMoves
<1>2. ASSUME NEW i \in Invoices,
             RequestPost(s, i) \/ RequestVoid(s, i) \/ RequestWriteOff(s, i)
               \/ RequestReverse(s, i)
      PROVE  ClearingInv'
  <2>1. PICK op \in {"post", "void", "writeoff", "reverse"} :
          Begin(s, [op |-> op, inv |-> i, seen |-> inv[i]])
    BY <1>2 DEF RequestPost, RequestVoid, RequestWriteOff, RequestReverse
  <2>2. InFlightCheque([op |-> op, inv |-> i, seen |-> inv[i]])
    BY <2>1 DEF Begin, InFlightCheque
  <2> QED
    BY <1>1, <2>1, <2>2
<1>3. ASSUME NEW c \in Customers, NEW state \in {"cash", "deposited"},
             NEW amount \in Amounts, NEW alloc \in Allocations,
             RequestPay(s, c, state, amount, alloc)
      PROVE  ClearingInv'
  <2> DEFINE t == [op |-> "pay", customer |-> c, state |-> state, amount |-> amount,
                   alloc |-> alloc, seen |-> Seen(alloc)]
  <2>1. Begin(s, t)
    BY <1>3 DEF RequestPay
  <2>2. InFlightCheque(t)
    BY <2>1 DEF Begin, InFlightCheque
  <2> QED
    BY <1>1, <2>1, <2>2
<1>4. ASSUME NEW c \in CreditNotes, RequestCredit(s, c) PROVE ClearingInv'
  <2>1. Begin(s, [op |-> "credit", cn |-> c])
    BY <1>4 DEF RequestCredit
  <2>2. InFlightCheque([op |-> "credit", cn |-> c])
    BY <2>1 DEF Begin, InFlightCheque
  <2> QED
    BY <1>1, <2>1, <2>2
<1>5. ASSUME NEW r \in Receipts, RequestClear(s, r) \/ RequestBounce(s, r)
      PROVE  ClearingInv'
  <2>1. PICK op \in {"clear", "bounce"} :
          Active(r) /\ Begin(s, [op |-> op, receipt |-> r])
    BY <1>5 DEF RequestClear, RequestBounce
  <2>2. InFlightCheque([op |-> op, receipt |-> r])
    BY <2>1 DEF Begin, InFlightCheque, Active
  <2> QED
    BY <1>1, <2>1, <2>2
<1> QED
  BY <1>2, <1>3, <1>4, <1>5 DEF Request

\* The hypothesis of the theorem: requests run one at a time, or no cheque clears.
NoClearingRace == OneRequestAtATime \/ "clear" \notin Handlers

\* A commit moves the money of a cheque and its state together.
LEMMA ClearingCommit ==
  ASSUME NoClearingRace, TypeOK, ClearingInv, NEW s \in Requests, Commit(s)
  PROVE  ClearingInv'
<1> DEFINE t == txn[s]
<1>1. t \in Transactions /\ InFlightCheque(t) /\ t.op \in Handlers \cup {"idle"}
  BY DEF TypeOK, ClearingInv, InFlightCheque
<1>2. \A u \in Requests : txn'[u] = IF u = s THEN Idle ELSE txn[u]
  <2>1. Finish(s)
    BY DEF Commit, CommitPost, CommitPostRefused, CommitVoid, CommitWriteOff,
           CommitReverse, CommitPay, CommitCredit, CommitClear, CommitBounce
  <2> QED
    BY <2>1 DEF Finish, TypeOK
<1>3. ASSUME UNCHANGED <<receipt, clearing, bank>> PROVE ClearingInv'
  <2>1. \A r \in Receipts : StaysInHand(r)
    BY <1>3 DEF StaysInHand
  <2> QED
    BY <1>2, <1>3, <2>1, StillInHand, NoReceiptMoves
<1>4. CASE CommitPost(s) \/ CommitPostRefused(s) \/ CommitVoid(s) \/ CommitWriteOff(s)
             \/ CommitReverse(s) \/ CommitCredit(s)
  BY <1>3, <1>4 DEF CommitPost, CommitPostRefused, CommitVoid, CommitWriteOff,
                    CommitReverse, CommitCredit
\* A new receipt starts with its money in clearing or in the bank.
<1>5. ASSUME NEW r \in Receipts, CommitPay(s, r) PROVE ClearingInv'
  <2>1. t \in PayTxn
    BY <1>1, <1>5, TxnKind DEF CommitPay
  <2>2. t.state \in {"cash", "deposited"} /\ t.amount \in Nat
    BY <2>1 DEF PayTxn
  <2>3. receipt[r].state = "absent" /\ clearing[r] = 0 /\ bank[r] = 0
    BY <1>5 DEF CommitPay, ClearingInv, ClearingTies
  <2>4. /\ receipt'[r].state = t.state
        /\ receipt'[r].amount = t.amount
        /\ receipt'[r].bounced = FALSE
    BY <1>5 DEF CommitPay, TypeOK
  <2>5. IF t.state = "cash"
        THEN bank'[r] = t.amount /\ clearing'[r] = 0
        ELSE clearing'[r] = t.amount /\ bank'[r] = 0
    BY <1>5, <2>2, <2>3 DEF CommitPay, TypeOK
  <2>6. \A q \in Receipts \ {r} :
          receipt'[q] = receipt[q] /\ clearing'[q] = clearing[q] /\ bank'[q] = bank[q]
    BY <1>5 DEF CommitPay, TypeOK
  <2>7. ReceiptTies(receipt'[r], clearing'[r], bank'[r])
    BY <2>2, <2>4, <2>5 DEF ReceiptTies
  <2>8. \A q \in Receipts : StaysInHand(q)
    BY <2>3, <2>6 DEF StaysInHand
  <2> QED
    BY <1>2, <2>6, <2>7, <2>8, StillInHand, OneReceiptMoves
\* Who clears a cheque is alone, so the cheque is in hand.
<1>6. CASE CommitClear(s)
  <2> DEFINE r == t.receipt
  <2>1. r \in Receipts
    BY <1>1, <1>6, TxnKind DEF CommitClear, ChequeTxn
  <2>2. "clear" \in Handlers
    BY <1>1, <1>6 DEF CommitClear
  <2>3. \A u \in Requests : txn'[u] = Idle
    BY <1>2, <2>2 DEF NoClearingRace, OneRequestAtATime
  <2>4. receipt[r].state \in {"deposited", "stale"}
    BY <1>1, <1>6, <2>2 DEF CommitClear, InFlightCheque
  <2>5. receipt[r].amount \in Nat /\ receipt[r].bounced = FALSE
        /\ clearing[r] = receipt[r].amount /\ bank[r] = 0
    BY <2>1, <2>4 DEF TypeOK, ReceiptRow, ClearingInv, ClearingTies
  <2>6. /\ receipt'[r].state = "cleared"
        /\ receipt'[r].amount = receipt[r].amount
        /\ receipt'[r].bounced = FALSE
    BY <1>6, <2>1, <2>5 DEF CommitClear, TypeOK, ReceiptRow
  <2>7. clearing'[r] = 0 /\ bank'[r] = receipt[r].amount
    BY <1>6, <2>1, <2>5 DEF CommitClear, TypeOK
  <2>8. \A q \in Receipts \ {r} :
          receipt'[q] = receipt[q] /\ clearing'[q] = clearing[q] /\ bank'[q] = bank[q]
    BY <1>6, <2>1 DEF CommitClear, TypeOK
  <2>9. ReceiptTies(receipt'[r], clearing'[r], bank'[r])
    BY <2>6, <2>7 DEF ReceiptTies
  <2> QED
    BY <2>1, <2>3, <2>8, <2>9, StillInHand, OneReceiptMoves
\* Who bounces a cheque is the first to do so.
<1>7. CASE CommitBounce(s)
  <2> DEFINE r == t.receipt
  <2>1. r \in Receipts
    BY <1>1, <1>7, TxnKind DEF CommitBounce, ChequeTxn
  <2>2. receipt[r].state \in {"deposited", "stale"}
    BY <1>1, <1>7, <2>1 DEF CommitBounce, FirstBounce, InFlightCheque, ClearingInv
  <2>3. receipt[r].amount \in Nat /\ clearing[r] = receipt[r].amount /\ bank[r] = 0
    BY <2>1, <2>2 DEF TypeOK, ReceiptRow, ClearingInv, ClearingTies
  <2>4. receipt'[r].state = "bounced" /\ receipt'[r].bounced = TRUE
    BY <1>7, <2>1 DEF CommitBounce, TypeOK, ReceiptRow
  <2>5. clearing'[r] = 0 /\ bank'[r] = 0
    BY <1>7, <2>1, <2>3 DEF CommitBounce, TypeOK
  <2>6. \A q \in Receipts \ {r} :
          receipt'[q] = receipt[q] /\ clearing'[q] = clearing[q] /\ bank'[q] = bank[q]
    BY <1>7, <2>1 DEF CommitBounce, TypeOK
  <2>7. ReceiptTies(receipt'[r], clearing'[r], bank'[r])
    BY <2>4, <2>5 DEF ReceiptTies
  <2>8. ASSUME NEW u \in Requests PROVE InFlightCheque(txn[u])'
    <3>1. CASE u = s
      BY <1>2, <3>1, StillInHand
    <3>2. CASE u # s
      <4>1. "clear" \notin Handlers
        BY <3>2 DEF NoClearingRace, OneRequestAtATime
      <4>2. \A q \in Receipts : StaysInHand(q)
        BY <2>4, <2>6, <4>1 DEF StaysInHand
      <4> QED
        BY <1>2, <3>2, <4>2, StillInHand
    <3> QED
      BY <3>1, <3>2
  <2> QED
    BY <2>1, <2>6, <2>7, <2>8, OneReceiptMoves
<1> QED
  BY <1>4, <1>5, <1>6, <1>7 DEF Commit

\* Every step keeps clearing and bank tied.
LEMMA ClearingNext ==
  NoClearingRace => (TypeOK /\ ClearingInv /\ [Next]_vars => ClearingInv')
<1> SUFFICES ASSUME NoClearingRace, TypeOK, ClearingInv, [Next]_vars
             PROVE  ClearingInv'
  OBVIOUS
<1>1. ASSUME UNCHANGED <<receipt, clearing, bank>>,
             \A s \in Requests : txn'[s] \in {txn[s], Idle}
      PROVE  ClearingInv'
  <2>1. \A r \in Receipts : StaysInHand(r)
    BY <1>1 DEF StaysInHand
  <2> QED
    BY <1>1, <2>1, StillInHand, NoReceiptMoves
<1>2. ASSUME NEW s \in Requests, Rollback(s) PROVE ClearingInv'
  BY <1>1, <1>2 DEF Rollback, Finish, ledger, TypeOK
<1>3. ASSUME NEW c \in CreditNotes, NEW i \in Invoices \cup {None},
             NEW total \in Amounts, CreateCreditNote(c, i, total)
      PROVE  ClearingInv'
  BY <1>1, <1>3 DEF CreateCreditNote, ledger
<1>4. ASSUME NEW S \in SUBSET Receipts, FlagStale(S) PROVE ClearingInv'
  <2>1. \A r \in Receipts :
          /\ receipt'[r].state = IF r \in S THEN "stale" ELSE receipt[r].state
          /\ receipt'[r].amount = receipt[r].amount
          /\ receipt'[r].bounced = receipt[r].bounced
    BY <1>4 DEF FlagStale, TypeOK, ReceiptRow
  <2>2. \A r \in S : receipt[r].state = "deposited"
    BY <1>4 DEF FlagStale, Active
  <2>3. UNCHANGED <<clearing, bank, txn>>
    BY <1>4 DEF FlagStale, ledger
  <2>4. \A r \in Receipts : StaysInHand(r)
    BY <2>1, <2>2 DEF StaysInHand
  <2>5. (\A s \in Requests : InFlightCheque(txn[s]))'
    BY <2>3, <2>4, StillInHand
  <2> QED
    BY <2>1, <2>2, <2>3, <2>5 DEF ClearingInv, ClearingTies
<1>5. ASSUME NEW c \in Customers, NEW held \in BOOLEAN, SetHold(c, held)
      PROVE  ClearingInv'
  BY <1>1, <1>5 DEF SetHold, ledger
<1>6. CASE UNCHANGED vars
  BY <1>1, <1>6 DEF vars, ledger
<1> QED
  BY <1>2, <1>3, <1>4, <1>5, <1>6, ClearingRequest, ClearingCommit DEF Next, Elsewhere

\* The invariant holds in every reachable state.
LEMMA ClearingInvariance == NoClearingRace => (Spec => []ClearingInv)
<1> SUFFICES ASSUME NoClearingRace PROVE Spec => []ClearingInv
  OBVIOUS
<1>1. TypeOK /\ ClearingInv /\ [Next]_vars => ClearingInv'
  BY ClearingNext
<1> QED
  BY <1>1, ClearingInit, TypeCorrect, PTL DEF Spec

\* Bank-in-Clearing holds exactly the cheques still on their way and the bank the
\* money that arrived: when requests run one at a time, and, for any number of
\* requests at once, as long as no cheque is cleared by hand.  Of two bounces of one
\* cheque in flight together the second breaks the unique index and moves nothing.
THEOREM ClearingIsInHand == NoClearingRace => (Spec => []ClearingTies)
<1> SUFFICES ASSUME NoClearingRace PROVE Spec => []ClearingTies
  OBVIOUS
<1>1. ClearingInv => ClearingTies
  BY DEF ClearingInv
<1> QED
  BY <1>1, ClearingInvariance, PTL
--------------------------------------------------------------------------------
\* One request at a time: what is paid is what was collected and credited

\* What a receipt, and a credit note, count for on an invoice.
LiveShare(row, i) == IF row.state \in Live THEN row.alloc[i] ELSE 0
CreditShare(row, i) == IF row.invoice = i THEN row.applied ELSE 0

\* Collected and Credited of given rows.
CollectedOf(rows, i) ==
  SumFunctionOnSet([r \in Receipts |-> rows[r].alloc[i]],
                   {r \in Receipts : rows[r].state \in Live})
CreditedOf(rows, i) ==
  SumFunctionOnSet([c \in CreditNotes |-> rows[c].applied],
                   {c \in CreditNotes : rows[c].invoice = i})

\* The inductive invariant behind PaidIsCollected: only a posted credit note has
\* paid for anything, and one that is about to be posted is still a draft.
PaidInv ==
  /\ PaidIsCollected
  /\ \A c \in CreditNotes : cn[c].status # "posted" => cn[c].applied = 0
  /\ \A s \in Requests : txn[s].op = "credit" => cn[txn[s].cn].status = "draft"

\* The live receipts are the receipts, each counted for its share.
LEMMA CollectedShares ==
  ASSUME NEW rows \in [Receipts -> ReceiptRow], NEW i \in Invoices
  PROVE  /\ \A r \in Receipts : LiveShare(rows[r], i) \in Nat
         /\ CollectedOf(rows, i)
              = SumFunctionOnSet([r \in Receipts |-> LiveShare(rows[r], i)], Receipts)
<1> DEFINE f == [r \in Receipts |-> rows[r].alloc[i]]
           g == [r \in Receipts |-> LiveShare(rows[r], i)]
           T == {r \in Receipts : rows[r].state \in Live}
<1>1. \A r \in Receipts : rows[r].alloc[i] \in Nat
  BY AllocationType DEF ReceiptRow
<1>2. \A r \in Receipts : f[r] \in Int /\ g[r] = IF r \in T THEN f[r] ELSE 0
  BY <1>1 DEF LiveShare
<1>3. \A r \in Receipts : LiveShare(rows[r], i) \in Nat
  BY <1>1 DEF LiveShare
<1>4. CollectedOf(rows, i) = SumFunctionOnSet(f, T)
  BY DEF CollectedOf
<1>5. T \in SUBSET Receipts /\ IsFiniteSet(Receipts)
  BY FiniteAssumption
<1> HIDE DEF f, g, T
<1>6. SumFunctionOnSet(f, T) = SumFunctionOnSet(g, Receipts)
  BY <1>2, <1>5, SumSome
<1> QED
  BY <1>3, <1>4, <1>6 DEF g

\* One receipt that changes its share changes the sum by as much.
LEMMA CollectedChange ==
  ASSUME NEW old \in [Receipts -> ReceiptRow], NEW new \in [Receipts -> ReceiptRow],
         NEW i \in Invoices, NEW r \in Receipts,
         \A q \in Receipts \ {r} : LiveShare(new[q], i) = LiveShare(old[q], i)
  PROVE  CollectedOf(new, i)
           = CollectedOf(old, i) + (LiveShare(new[r], i) - LiveShare(old[r], i))
<1> DEFINE f == [q \in Receipts |-> LiveShare(old[q], i)]
           g == [q \in Receipts |-> LiveShare(new[q], i)]
<1>1. \A q \in Receipts : f[q] \in Int /\ g[q] \in Int /\ (q # r => g[q] = f[q])
  <2>1. \A q \in Receipts : LiveShare(old[q], i) \in Nat /\ LiveShare(new[q], i) \in Nat
    BY CollectedShares
  <2> QED
    BY <2>1
<1>2. f[r] = LiveShare(old[r], i) /\ g[r] = LiveShare(new[r], i)
  OBVIOUS
<1>3. CollectedOf(old, i) = SumFunctionOnSet(f, Receipts)
      /\ CollectedOf(new, i) = SumFunctionOnSet(g, Receipts)
  BY CollectedShares
<1> HIDE DEF f, g
<1>4. SumFunctionOnSet(g, Receipts) = SumFunctionOnSet(f, Receipts) + (g[r] - f[r])
  BY <1>1, FiniteAssumption, SumChange
<1> QED
  BY <1>2, <1>3, <1>4

\* Receipts that keep their shares keep the sum.
LEMMA CollectedSame ==
  ASSUME NEW old \in [Receipts -> ReceiptRow], NEW new \in [Receipts -> ReceiptRow],
         NEW i \in Invoices,
         \A q \in Receipts : LiveShare(new[q], i) = LiveShare(old[q], i)
  PROVE  CollectedOf(new, i) = CollectedOf(old, i)
<1> DEFINE f == [q \in Receipts |-> LiveShare(old[q], i)]
           g == [q \in Receipts |-> LiveShare(new[q], i)]
<1>1. f = g
  OBVIOUS
<1>2. CollectedOf(old, i) = SumFunctionOnSet(f, Receipts)
      /\ CollectedOf(new, i) = SumFunctionOnSet(g, Receipts)
  BY CollectedShares
<1> QED
  BY <1>1, <1>2

\* The same of credit notes.
LEMMA CreditedShares ==
  ASSUME NEW rows \in [CreditNotes -> CreditNoteRow], NEW i \in Invoices
  PROVE  /\ \A c \in CreditNotes : CreditShare(rows[c], i) \in Nat
         /\ CreditedOf(rows, i)
              = SumFunctionOnSet([c \in CreditNotes |-> CreditShare(rows[c], i)], CreditNotes)
<1> DEFINE f == [c \in CreditNotes |-> rows[c].applied]
           g == [c \in CreditNotes |-> CreditShare(rows[c], i)]
           T == {c \in CreditNotes : rows[c].invoice = i}
<1>1. \A c \in CreditNotes : rows[c].applied \in Nat
  BY DEF CreditNoteRow
<1>2. \A c \in CreditNotes : f[c] \in Int /\ g[c] = IF c \in T THEN f[c] ELSE 0
  BY <1>1 DEF CreditShare
<1>3. \A c \in CreditNotes : CreditShare(rows[c], i) \in Nat
  BY <1>1 DEF CreditShare
<1>4. CreditedOf(rows, i) = SumFunctionOnSet(f, T)
  BY DEF CreditedOf
<1>5. T \in SUBSET CreditNotes /\ IsFiniteSet(CreditNotes)
  BY FiniteAssumption
<1> HIDE DEF f, g, T
<1>6. SumFunctionOnSet(f, T) = SumFunctionOnSet(g, CreditNotes)
  BY <1>2, <1>5, SumSome
<1> QED
  BY <1>3, <1>4, <1>6 DEF g

\* One credit note that changes its share changes the sum by as much.
LEMMA CreditedChange ==
  ASSUME NEW old \in [CreditNotes -> CreditNoteRow],
         NEW new \in [CreditNotes -> CreditNoteRow],
         NEW i \in Invoices, NEW c \in CreditNotes,
         \A d \in CreditNotes \ {c} : new[d] = old[d]
  PROVE  CreditedOf(new, i)
           = CreditedOf(old, i) + (CreditShare(new[c], i) - CreditShare(old[c], i))
<1> DEFINE f == [d \in CreditNotes |-> CreditShare(old[d], i)]
           g == [d \in CreditNotes |-> CreditShare(new[d], i)]
<1>1. \A d \in CreditNotes : f[d] \in Int /\ g[d] \in Int /\ (d # c => g[d] = f[d])
  <2>1. \A d \in CreditNotes : CreditShare(old[d], i) \in Nat /\ CreditShare(new[d], i) \in Nat
    BY CreditedShares
  <2> QED
    BY <2>1
<1>2. f[c] = CreditShare(old[c], i) /\ g[c] = CreditShare(new[c], i)
  OBVIOUS
<1>3. CreditedOf(old, i) = SumFunctionOnSet(f, CreditNotes)
      /\ CreditedOf(new, i) = SumFunctionOnSet(g, CreditNotes)
  BY CreditedShares
<1> HIDE DEF f, g
<1>4. SumFunctionOnSet(g, CreditNotes) = SumFunctionOnSet(f, CreditNotes) + (g[c] - f[c])
  BY <1>1, FiniteAssumption, SumChange
<1> QED
  BY <1>2, <1>3, <1>4

\* Sums of shares are amounts.
LEMMA SharesType ==
  ASSUME TypeOK, NEW i \in Invoices
  PROVE  CollectedOf(receipt, i) \in Nat /\ CreditedOf(cn, i) \in Nat
<1>1. receipt \in [Receipts -> ReceiptRow] /\ cn \in [CreditNotes -> CreditNoteRow]
  BY DEF TypeOK
<1> DEFINE f == [r \in Receipts |-> LiveShare(receipt[r], i)]
           g == [c \in CreditNotes |-> CreditShare(cn[c], i)]
<1>2. (\A r \in Receipts : f[r] \in Nat) /\ (\A c \in CreditNotes : g[c] \in Nat)
  BY <1>1, CollectedShares, CreditedShares
<1>3. CollectedOf(receipt, i) = SumFunctionOnSet(f, Receipts)
      /\ CreditedOf(cn, i) = SumFunctionOnSet(g, CreditNotes)
  BY <1>1, CollectedShares, CreditedShares
<1> HIDE DEF f, g
<1> QED
  BY <1>2, <1>3, FiniteAssumption, SumNat

\* PaidIsCollected, before and after a step, in terms of the rows.
LEMMA PaidOf ==
  /\ PaidIsCollected <=>
       \A i \in Invoices : inv[i].paid = CollectedOf(receipt, i) + CreditedOf(cn, i)
  /\ PaidIsCollected' <=>
       \A i \in Invoices : inv'[i].paid = CollectedOf(receipt', i) + CreditedOf(cn', i)
BY DEF PaidIsCollected, Collected, Credited, CollectedOf, CreditedOf

\* Before any request nothing is paid.
LEMMA PaidInit == Init => PaidInv
<1> SUFFICES ASSUME Init PROVE PaidInv
  OBVIOUS
<1>1. (\A c \in CreditNotes : cn[c].status # "posted" => cn[c].applied = 0)
      /\ (\A s \in Requests : txn[s].op # "credit")
  BY DEF Init, NoCreditNote, Idle
<1>2. ASSUME NEW i \in Invoices
      PROVE  inv[i].paid = CollectedOf(receipt, i) + CreditedOf(cn, i)
  <2>1. inv[i].paid = 0
    BY DEF Init, DraftRow
  <2>2. {r \in Receipts : receipt[r].state \in Live} = {}
    BY DEF Init, NoReceipt, Live
  <2>3. {c \in CreditNotes : cn[c].invoice = i} = {}
    BY NoneAssumption DEF Init, NoCreditNote
  <2>4. CollectedOf(receipt, i) = 0 /\ CreditedOf(cn, i) = 0
    BY <2>2, <2>3, SumEmpty DEF CollectedOf, CreditedOf
  <2> QED
    BY <2>1, <2>4
<1> QED
  BY <1>1, <1>2, PaidOf DEF PaidInv

\* Steps that leave paid, the shares of receipts and the credit notes as they are.
LEMMA PaidKept ==
  ASSUME TypeOK, TypeOK', PaidInv, UNCHANGED cn,
         \A i \in Invoices : inv'[i].paid = inv[i].paid,
         \A r \in Receipts, i \in Invoices :
           LiveShare(receipt'[r], i) = LiveShare(receipt[r], i),
         \A s \in Requests :
           txn'[s].op = "credit" => cn[txn'[s].cn].status = "draft"
  PROVE  PaidInv'
<1>1. receipt \in [Receipts -> ReceiptRow] /\ receipt' \in [Receipts -> ReceiptRow]
  BY DEF TypeOK
<1>2. \A i \in Invoices : CollectedOf(receipt', i) = CollectedOf(receipt, i)
  BY <1>1, CollectedSame
<1>3. PaidIsCollected'
  BY <1>2, PaidOf DEF PaidInv
<1> QED
  BY <1>3 DEF PaidInv

\* A request that begins moves nothing.
LEMMA PaidRequest ==
  ASSUME TypeOK, TypeOK', PaidInv, NEW s \in Requests, Request(s)
  PROVE  PaidInv'
<1>1. /\ UNCHANGED <<inv, cn, receipt>>
      /\ \A u \in Requests \ {s} : txn'[u] = txn[u]
  BY DEF Request, RequestPost, RequestVoid, RequestWriteOff, RequestReverse, RequestPay,
         RequestCredit, RequestClear, RequestBounce, Begin, TypeOK
<1>2. txn'[s].op = "credit" => cn[txn'[s].cn].status = "draft"
  BY DEF Request, RequestPost, RequestVoid, RequestWriteOff, RequestReverse, RequestPay,
         RequestCredit, RequestClear, RequestBounce, Begin, TypeOK
<1> QED
  BY <1>1, <1>2, PaidKept DEF PaidInv

\* A commit counts a payment, a credit or a bounce once, on the row and in the sum.
LEMMA PaidCommit ==
  ASSUME OneRequestAtATime, TypeOK, TypeOK', SerialInv, ClearingInv, PaidInv,
         NEW s \in Requests, Commit(s)
  PROVE  PaidInv'
<1> DEFINE t == txn[s]
<1>1. t \in Transactions /\ ReadIsCurrent(t) /\ InFlightCheque(t)
  BY DEF TypeOK, SerialInv, ClearingInv
<1>2. \A u \in Requests : txn'[u].op = "idle"
  <2>1. Finish(s)
    BY DEF Commit, CommitPost, CommitPostRefused, CommitVoid, CommitWriteOff,
           CommitReverse, CommitPay, CommitCredit, CommitClear, CommitBounce
  <2> QED
    BY <2>1 DEF Finish, TypeOK, OneRequestAtATime, Idle
<1>3. /\ receipt \in [Receipts -> ReceiptRow] /\ receipt' \in [Receipts -> ReceiptRow]
      /\ cn \in [CreditNotes -> CreditNoteRow] /\ cn' \in [CreditNotes -> CreditNoteRow]
      /\ inv \in [Invoices -> Row]
  BY DEF TypeOK
<1>4. ASSUME NEW i \in Invoices
      PROVE  /\ inv[i].paid = CollectedOf(receipt, i) + CreditedOf(cn, i)
             /\ CollectedOf(receipt, i) \in Nat
             /\ CreditedOf(cn, i) \in Nat
  BY PaidOf, SharesType DEF PaidInv
<1>5. CASE CommitPost(s) \/ CommitPostRefused(s) \/ CommitVoid(s) \/ CommitWriteOff(s)
             \/ CommitReverse(s)
  <2>1. UNCHANGED <<cn, receipt>>
    BY <1>5 DEF CommitPost, CommitPostRefused, CommitVoid, CommitWriteOff, CommitReverse
  <2>2. ASSUME NEW i \in Invoices PROVE inv'[i].paid = inv[i].paid
    <3>1. CASE CommitPost(s) \/ CommitPostRefused(s)
      BY <1>3, <3>1 DEF CommitPost, CommitPostRefused, Row
    <3>2. CASE CommitVoid(s)
      BY <1>3, <3>2 DEF CommitVoid, Row
    <3>3. CASE CommitWriteOff(s)
      BY <1>3, <3>3 DEF CommitWriteOff, Row
    <3>4. CASE CommitReverse(s)
      BY <1>3, <3>4 DEF CommitReverse, Row
    <3> QED
      BY <1>5, <3>1, <3>2, <3>3, <3>4
  <2> QED
    BY <1>2, <2>1, <2>2, PaidKept
\* The payment is added to what was read, which is what is there.
<1>6. ASSUME NEW r \in Receipts, CommitPay(s, r) PROVE PaidInv'
  <2>1. t \in PayTxn
    BY <1>1, <1>6, TxnKind DEF CommitPay
  <2>2. /\ UNCHANGED cn
        /\ receipt[r].state = "absent"
        /\ receipt'[r].state = t.state /\ receipt'[r].alloc = t.alloc
        /\ \A q \in Receipts \ {r} : receipt'[q] = receipt[q]
    BY <1>6 DEF CommitPay, TypeOK
  <2>3. t.state \in Live /\ t.alloc \in Allocations
    BY <2>1 DEF PayTxn, Live
  <2>4. ASSUME NEW i \in Invoices
        PROVE  inv'[i].paid = CollectedOf(receipt', i) + CreditedOf(cn', i)
    <3>1. t.alloc[i] \in Nat
      BY <2>3, AllocationType
    <3>2. inv'[i].paid = inv[i].paid + t.alloc[i]
      <4>1. CASE t.alloc[i] > 0
        <5>1. t.seen[i] = inv[i]
          BY <1>1, <1>6, <4>1 DEF CommitPay, ReadIsCurrent
        <5>2. inv'[i] = Settle(inv[i], inv[i], t.alloc[i])
          BY <1>6, <4>1, <5>1 DEF CommitPay
        <5>3. inv[i] \in Row
          BY <1>3
        <5> HIDE DEF t
        <5> QED
          BY <5>2, <5>3 DEF Settle, Row
      <4>2. CASE t.alloc[i] = 0
        BY <1>3, <1>6, <4>2 DEF CommitPay, Row
      <4> QED
        BY <3>1, <4>1, <4>2
    <3>3. LiveShare(receipt[r], i) = 0 /\ LiveShare(receipt'[r], i) = t.alloc[i]
      BY <2>2, <2>3 DEF LiveShare, Live
    <3>4. CollectedOf(receipt', i) = CollectedOf(receipt, i) + (t.alloc[i] - 0)
      BY <1>3, <2>2, <3>3, CollectedChange
    <3> QED
      BY <1>4, <2>2, <3>1, <3>2, <3>4
  <2> QED
    BY <1>2, <2>2, <2>4, PaidOf DEF PaidInv
\* A credit note is applied once: it was a draft, which counts for nothing.
<1>7. CASE CommitCredit(s)
  <2> DEFINE c == t.cn
             a == Applied(c)
  <2>1. c \in CreditNotes /\ cn[c].status = "draft" /\ cn[c].applied = 0
    BY <1>1, <1>7, TxnKind DEF CommitCredit, CreditTxn, PaidInv
  <2>2. /\ cn[c].invoice \in Invoices \cup {None}
        /\ a \in Nat
        /\ cn[c].invoice # None => a <= inv[cn[c].invoice].balance
    BY <1>3, <2>1 DEF Applied, CreditNoteRow, Row
  <2>3. /\ UNCHANGED receipt
        /\ cn'[c].status = "posted"
        /\ cn'[c].applied = a
        /\ cn'[c].invoice = cn[c].invoice
        /\ \A d \in CreditNotes \ {c} : cn'[d] = cn[d]
    <3>1. a > 0 \/ a = 0
      BY <2>2
    <3> HIDE DEF a
    <3>2. cn' = [cn EXCEPT ![c].status = "posted", ![c].applied = IF a > 0 THEN a ELSE @]
      BY <1>7 DEF CommitCredit, a
    <3>3. cn[c] \in CreditNoteRow
      BY <1>3, <2>1
    <3> QED
      BY <1>3, <1>7, <2>1, <3>1, <3>2, <3>3 DEF CommitCredit, CreditNoteRow
  <2>4. ASSUME NEW i \in Invoices
        PROVE  inv'[i].paid = inv[i].paid + CreditShare(cn'[c], i)
    <3>1. CASE i = cn[c].invoice
      <4>1. i # None
        BY NoneAssumption
      <4>2. inv'[i] = Settle(inv[i], inv[i], a)
        BY <1>3, <1>7, <3>1, <4>1 DEF CommitCredit
      <4>3. inv[i] \in Row
        BY <1>3
      <4> HIDE DEF a, c
      <4>4. inv'[i].paid = inv[i].paid + a
        BY <2>2, <4>2, <4>3 DEF Settle, Row
      <4>5. CreditShare(cn'[c], i) = a
        BY <2>3, <3>1 DEF CreditShare
      <4> QED
        BY <4>4, <4>5
    <3>2. CASE i # cn[c].invoice
      <4>1. inv'[i] = inv[i]
        BY <1>3, <1>7, <3>2 DEF CommitCredit
      <4>2. CreditShare(cn'[c], i) = 0
        BY <2>3, <3>2 DEF CreditShare
      <4> QED
        BY <1>3, <4>1, <4>2 DEF Row
    <3> QED
      BY <3>1, <3>2
  <2>5. ASSUME NEW i \in Invoices
        PROVE  inv'[i].paid = CollectedOf(receipt', i) + CreditedOf(cn', i)
    <3>1. CreditShare(cn[c], i) = 0 /\ CreditShare(cn'[c], i) \in Nat
      BY <2>1, <2>2, <2>3 DEF CreditShare
    <3>2. CreditedOf(cn', i) = CreditedOf(cn, i) + (CreditShare(cn'[c], i) - 0)
      BY <1>3, <2>1, <2>3, <3>1, CreditedChange
    <3> QED
      BY <1>4, <2>3, <2>4, <3>1, <3>2
  <2> QED
    BY <1>2, <2>3, <2>5, PaidOf DEF PaidInv
<1>8. CASE CommitClear(s)
  <2>1. t.receipt \in Receipts /\ t.op = "clear" /\ "clear" \in Handlers
    BY <1>1, <1>8, TxnKind DEF CommitClear, ChequeTxn, InFlightCheque
  <2>2. receipt[t.receipt].state \in Live
    BY <1>1, <2>1 DEF InFlightCheque, Live
  <2>3. /\ UNCHANGED <<inv, cn>>
        /\ receipt'[t.receipt].state \in Live
        /\ receipt'[t.receipt].alloc = receipt[t.receipt].alloc
        /\ \A q \in Receipts \ {t.receipt} : receipt'[q] = receipt[q]
    BY <1>8, <2>1 DEF CommitClear, TypeOK, ReceiptRow, Live
  <2>4. \A r \in Receipts, i \in Invoices :
          LiveShare(receipt'[r], i) = LiveShare(receipt[r], i)
    BY <2>2, <2>3 DEF LiveShare
  <2> QED
    BY <1>2, <2>3, <2>4, PaidKept
\* A bounce takes back what the cheque counted for, and that once.
<1>9. CASE CommitBounce(s)
  <2> DEFINE r == t.receipt
             alloc == receipt[r].alloc
  <2>1. r \in Receipts /\ t.op = "bounce"
    BY <1>1, <1>9, TxnKind DEF CommitBounce, ChequeTxn
  <2>2. receipt[r].state \in Live
    BY <1>1, <1>9, <2>1 DEF CommitBounce, FirstBounce, InFlightCheque, ClearingInv, Live
  <2>3. alloc \in Allocations
    BY <1>3, <2>1 DEF ReceiptRow
  <2>4. /\ UNCHANGED cn
        /\ receipt'[r].state = "bounced"
        /\ \A q \in Receipts \ {r} : receipt'[q] = receipt[q]
    BY <1>9, <2>1 DEF CommitBounce, TypeOK, ReceiptRow
  <2>5. ASSUME NEW i \in Invoices
        PROVE  inv'[i].paid = CollectedOf(receipt', i) + CreditedOf(cn', i)
    <3>1. alloc[i] \in Nat
      BY <2>3, AllocationType
    <3>2. inv'[i].paid = inv[i].paid - alloc[i]
      <4>1. inv[i] \in Row
        BY <1>3
      <4>2. inv'[i] = IF alloc[i] > 0 THEN Reopen(inv[i], alloc[i], Total[i]) ELSE inv[i]
        BY <1>9 DEF CommitBounce
      <4> HIDE DEF alloc
      <4>3. CASE alloc[i] > 0
        BY <4>1, <4>2, <4>3 DEF Reopen, Row
      <4>4. CASE alloc[i] = 0
        BY <4>1, <4>2, <4>4 DEF Row
      <4> QED
        BY <3>1, <4>3, <4>4
    <3>3. LiveShare(receipt[r], i) = alloc[i] /\ LiveShare(receipt'[r], i) = 0
      BY <2>2, <2>4 DEF LiveShare, Live
    <3>4. CollectedOf(receipt', i) = CollectedOf(receipt, i) + (0 - alloc[i])
      BY <1>3, <2>1, <2>4, <3>3, CollectedChange
    <3> HIDE DEF alloc
    <3> QED
      BY <1>4, <2>4, <3>1, <3>2, <3>4
  <2> QED
    BY <1>2, <2>4, <2>5, PaidOf DEF PaidInv
<1> QED
  BY <1>5, <1>6, <1>7, <1>8, <1>9 DEF Commit

\* Every step keeps paid equal to what was collected and credited.
LEMMA PaidNext ==
  OneRequestAtATime =>
    (TypeOK /\ TypeOK' /\ SerialInv /\ ClearingInv /\ PaidInv /\ [Next]_vars => PaidInv')
<1> SUFFICES ASSUME OneRequestAtATime, TypeOK, TypeOK', SerialInv, ClearingInv, PaidInv,
                    [Next]_vars
             PROVE  PaidInv'
  OBVIOUS
<1>1. ASSUME UNCHANGED <<inv, cn, receipt>>,
             \A s \in Requests : txn'[s] \in {txn[s], Idle}
      PROVE  PaidInv'
  BY <1>1, PaidKept DEF PaidInv, Idle
<1>2. ASSUME NEW s \in Requests, Rollback(s) PROVE PaidInv'
  BY <1>1, <1>2 DEF Rollback, Finish, TypeOK
\* A new credit note counts for nothing, as the absent one did.
<1>3. ASSUME NEW c \in CreditNotes, NEW i \in Invoices \cup {None},
             NEW total \in Amounts, CreateCreditNote(c, i, total)
      PROVE  PaidInv'
  <2>1. /\ cn \in [CreditNotes -> CreditNoteRow] /\ cn' \in [CreditNotes -> CreditNoteRow]
        /\ UNCHANGED <<inv, receipt, txn>>
    BY <1>3 DEF TypeOK, CreateCreditNote
  <2>2. /\ cn[c].status = "absent" /\ cn[c].applied = 0
        /\ cn'[c].status = "draft" /\ cn'[c].applied = 0
        /\ \A d \in CreditNotes \ {c} : cn'[d] = cn[d]
    BY <1>3, <2>1 DEF CreateCreditNote, PaidInv
  <2>3. ASSUME NEW j \in Invoices PROVE CreditedOf(cn', j) = CreditedOf(cn, j)
    <3>1. CreditShare(cn[c], j) = 0 /\ CreditShare(cn'[c], j) = 0
      BY <2>2 DEF CreditShare
    <3>2. CreditedOf(cn', j) = CreditedOf(cn, j) + (0 - 0)
      BY <2>1, <2>2, <3>1, CreditedChange
    <3> QED
      BY <3>2, SharesType
  <2>4. PaidIsCollected'
    BY <2>1, <2>3, PaidOf DEF PaidInv
  <2>5. ASSUME NEW u \in Requests, txn'[u].op = "credit"
        PROVE  cn'[txn'[u].cn].status = "draft"
    <3>1. txn[u].op = "credit" /\ txn[u].cn \in CreditNotes
      BY <2>1, <2>5, TxnKind DEF TypeOK, CreditTxn
    <3> QED
      BY <2>1, <2>2, <3>1 DEF PaidInv
  <2> QED
    BY <2>2, <2>4, <2>5 DEF PaidInv
<1>4. ASSUME NEW S \in SUBSET Receipts, FlagStale(S) PROVE PaidInv'
  <2>1. \A r \in Receipts :
          /\ receipt'[r].alloc = receipt[r].alloc
          /\ r \in S => receipt[r].state = "deposited" /\ receipt'[r].state = "stale"
          /\ r \notin S => receipt'[r].state = receipt[r].state
    BY <1>4 DEF FlagStale, Active, TypeOK, ReceiptRow
  <2>2. \A r \in Receipts, i \in Invoices :
          LiveShare(receipt'[r], i) = LiveShare(receipt[r], i)
    BY <2>1 DEF LiveShare, Live
  <2> QED
    BY <1>4, <2>2, PaidKept DEF FlagStale, PaidInv
<1>5. ASSUME NEW c \in Customers, NEW held \in BOOLEAN, SetHold(c, held)
      PROVE  PaidInv'
  BY <1>1, <1>5 DEF SetHold
<1>6. CASE UNCHANGED vars
  BY <1>1, <1>6 DEF vars
<1> QED
  BY <1>2, <1>3, <1>4, <1>5, <1>6, PaidRequest, PaidCommit DEF Next, Elsewhere

\* When requests run one at a time, what an invoice says was paid is, through any
\* mix of payments, bounces, credit notes, write-offs and their reversals and for
\* any number of documents, the sum of the allocations of the receipts that were
\* not returned and of the credit notes applied to it.
THEOREM PaidAddsUp == OneRequestAtATime => (Spec => []PaidIsCollected)
<1> SUFFICES ASSUME OneRequestAtATime PROVE Spec => []PaidIsCollected
  OBVIOUS
<1>1. Init => SerialInv /\ PaidInv
  BY SerialInit, PaidInit
<1>2. TypeOK /\ SerialInv /\ [Next]_vars => SerialInv'
  BY SerialNext
<1>3. TypeOK /\ TypeOK' /\ SerialInv /\ ClearingInv /\ PaidInv /\ [Next]_vars => PaidInv'
  BY PaidNext
<1>4. Spec => []ClearingInv
  BY ClearingInvariance DEF NoClearingRace
<1>5. PaidInv => PaidIsCollected
  BY DEF PaidInv
<1> QED
  BY <1>1, <1>2, <1>3, <1>4, <1>5, TypeCorrect, PTL DEF Spec
--------------------------------------------------------------------------------
\* One request at a time: nothing but money taken back breaks a credit limit

\* What an invoice adds to the open receivables, and those of given rows.
OpenShare(row) == IF row.status \in Collectable THEN row.balance ELSE 0
OpenOf(rows, c) ==
  SumFunctionOnSet([i \in Invoices |-> rows[i].balance],
                   {i \in InvoicesOf(c) : rows[i].status \in Collectable})

\* A row that is no longer collected has nothing due.
SettledIsZero(row) == row.status \in {"paid", "void", "written_off"} => row.balance = 0

\* What a request has read about the customer is still so.
CustomerIsCurrent(t) ==
  /\ t.op = "post" => WithinLimit(CustomerOf[t.inv], t.inv)
  /\ t.op = "pay" => \A i \in Invoices : t.alloc[i] > 0 => CustomerOf[i] = t.customer

\* The inductive invariant behind CreditLimitRespected.
LimitInv ==
  /\ \A i \in Invoices : SettledIsZero(inv[i])
  /\ \A r \in Receipts, i \in Invoices :
       receipt[r].alloc[i] > 0 => CustomerOf[i] = receipt[r].customer
  /\ \A s \in Requests : CustomerIsCurrent(txn[s])

\* The open receivables are the shares of the customer's invoices.
LEMMA OpenShares ==
  ASSUME NEW rows \in [Invoices -> Row], NEW c
  PROVE  /\ \A i \in Invoices : OpenShare(rows[i]) \in Nat
         /\ IsFiniteSet(InvoicesOf(c)) /\ InvoicesOf(c) \subseteq Invoices
         /\ OpenOf(rows, c)
              = SumFunctionOnSet([i \in Invoices |-> OpenShare(rows[i])], InvoicesOf(c))
<1> DEFINE f == [i \in Invoices |-> rows[i].balance]
           g == [i \in Invoices |-> OpenShare(rows[i])]
           T == {i \in InvoicesOf(c) : rows[i].status \in Collectable}
<1>1. \A i \in Invoices : rows[i].balance \in Nat
  BY DEF Row
<1>2. IsFiniteSet(InvoicesOf(c)) /\ InvoicesOf(c) \subseteq Invoices
  <2>1. InvoicesOf(c) \subseteq Invoices
    BY DEF InvoicesOf
  <2> QED
    BY <2>1, FiniteAssumption, FS_Subset
<1>3. \A i \in InvoicesOf(c) : f[i] \in Int /\ g[i] = IF i \in T THEN f[i] ELSE 0
  BY <1>1, <1>2 DEF OpenShare
<1>4. \A i \in Invoices : OpenShare(rows[i]) \in Nat
  BY <1>1 DEF OpenShare
<1>5. OpenOf(rows, c) = SumFunctionOnSet(f, T)
  BY DEF OpenOf
<1>6. T \in SUBSET InvoicesOf(c)
  OBVIOUS
<1> HIDE DEF f, g, T
<1>7. SumFunctionOnSet(f, T) = SumFunctionOnSet(g, InvoicesOf(c))
  BY <1>2, <1>3, <1>6, SumSome
<1> QED
  BY <1>2, <1>4, <1>5, <1>7 DEF g

\* Open receivables are an amount.
LEMMA OpenType ==
  ASSUME NEW rows \in [Invoices -> Row], NEW c
  PROVE  OpenOf(rows, c) \in Nat
<1> DEFINE f == [i \in Invoices |-> OpenShare(rows[i])]
<1>1. /\ IsFiniteSet(InvoicesOf(c)) /\ InvoicesOf(c) \subseteq Invoices
      /\ \A i \in Invoices : OpenShare(rows[i]) \in Nat
      /\ OpenOf(rows, c) = SumFunctionOnSet(f, InvoicesOf(c))
  BY OpenShares
<1>2. \A i \in InvoicesOf(c) : f[i] \in Nat
  BY <1>1
<1> HIDE DEF f
<1> QED
  BY <1>1, <1>2, SumNat

\* Rows that add no more than before leave a customer owing no more.
LEMMA OpenLess ==
  ASSUME NEW old \in [Invoices -> Row], NEW new \in [Invoices -> Row], NEW c,
         \A i \in InvoicesOf(c) : OpenShare(new[i]) <= OpenShare(old[i])
  PROVE  OpenOf(new, c) <= OpenOf(old, c)
<1> DEFINE f == [i \in Invoices |-> OpenShare(new[i])]
           g == [i \in Invoices |-> OpenShare(old[i])]
<1>1. /\ IsFiniteSet(InvoicesOf(c)) /\ InvoicesOf(c) \subseteq Invoices
      /\ \A i \in Invoices : OpenShare(new[i]) \in Nat /\ OpenShare(old[i]) \in Nat
  BY OpenShares
<1>2. \A i \in InvoicesOf(c) : f[i] \in Int /\ g[i] \in Int /\ f[i] <= g[i]
  BY <1>1
<1>3. /\ OpenOf(old, c) = SumFunctionOnSet(g, InvoicesOf(c))
      /\ OpenOf(new, c) = SumFunctionOnSet(f, InvoicesOf(c))
  BY OpenShares
<1> HIDE DEF f, g
<1>4. SumFunctionOnSet(f, InvoicesOf(c)) <= SumFunctionOnSet(g, InvoicesOf(c))
  BY <1>1, <1>2, SumLess
<1> QED
  BY <1>3, <1>4

\* A row that is issued adds its own share.
LEMMA OpenAdds ==
  ASSUME NEW old \in [Invoices -> Row], NEW new \in [Invoices -> Row],
         NEW i \in Invoices, \A j \in Invoices \ {i} : new[j] = old[j]
  PROVE  OpenOf(new, CustomerOf[i])
           = OpenOf(old, CustomerOf[i]) + (OpenShare(new[i]) - OpenShare(old[i]))
<1> DEFINE c == CustomerOf[i]
           f == [j \in Invoices |-> OpenShare(old[j])]
           g == [j \in Invoices |-> OpenShare(new[j])]
           I == InvoicesOf(c)
<1>1. /\ IsFiniteSet(I) /\ I \subseteq Invoices /\ i \in I
      /\ \A j \in Invoices : OpenShare(new[j]) \in Nat /\ OpenShare(old[j]) \in Nat
  <2>1. i \in I
    BY DEF InvoicesOf
  <2> QED
    BY <2>1, OpenShares
<1>2. \A j \in I : f[j] \in Int /\ g[j] \in Int /\ (j # i => g[j] = f[j])
  BY <1>1
<1>3. f[i] = OpenShare(old[i]) /\ g[i] = OpenShare(new[i])
  OBVIOUS
<1>4. /\ OpenOf(old, c) = SumFunctionOnSet(f, I)
      /\ OpenOf(new, c) = SumFunctionOnSet(g, I)
  BY OpenShares
<1> HIDE DEF f, g, I, c
<1>5. SumFunctionOnSet(g, I) = SumFunctionOnSet(f, I) + (g[i] - f[i])
  BY <1>1, <1>2, SumChange
<1> QED
  BY <1>3, <1>4, <1>5 DEF c

\* A settlement of a row as it is leaves it no more open than it was.
LEMMA SettleIsLess ==
  ASSUME NEW row \in Row, NEW a \in Nat, a <= row.balance, row.status # "draft",
         SettledIsZero(row)
  PROVE  /\ SettledIsZero(Settle(row, row, a))
         /\ OpenShare(Settle(row, row, a)) <= OpenShare(row)
<1>1. /\ Settle(row, row, a).balance = row.balance - a
      /\ Settle(row, row, a).status = IF row.balance = a THEN "paid"
                                      ELSE IF row.paid + a > 0 THEN "partially_paid"
                                      ELSE row.status
  BY DEF Settle, Row
<1>2. row.balance \in Nat /\ row.paid \in Nat /\ row.status \in Statuses
  BY DEF Row
<1>3. row.status \in Collectable \/ row.status \in {"paid", "void", "written_off"}
  BY <1>2 DEF Statuses, Collectable
<1> DEFINE new == Settle(row, row, a)
<1> HIDE DEF new
<1>4. /\ new.balance = row.balance - a
      /\ new.status = IF row.balance = a THEN "paid"
                      ELSE IF row.paid + a > 0 THEN "partially_paid" ELSE row.status
  BY <1>1 DEF new
<1>5. SettledIsZero(new)
  BY <1>2, <1>4 DEF SettledIsZero
<1>6. OpenShare(new) <= OpenShare(row)
  BY <1>2, <1>3, <1>4 DEF SettledIsZero, OpenShare
<1> QED
  BY <1>5, <1>6 DEF new

\* Before any request nothing is settled, received or in flight.
LEMMA LimitInit == Init => LimitInv
  BY DEF Init, LimitInv, DraftRow, NoReceipt, Idle, SettledIsZero, CustomerIsCurrent

\* A request that begins has just read about its customer.
LEMMA LimitRequest ==
  ASSUME OneRequestAtATime, TypeOK, LimitInv, NEW s \in Requests, Request(s)
  PROVE  LimitInv' /\ UNCHANGED inv
<1>1. ASSUME NEW t, Begin(s, t), CustomerIsCurrent(t) PROVE LimitInv' /\ UNCHANGED inv
  <2>1. UNCHANGED <<inv, receipt>> /\ \A u \in Requests : txn'[u] = t
    BY <1>1 DEF Begin, OneRequestAtATime, TypeOK
  <2>2. CustomerIsCurrent(t)'
    BY <1>1, <2>1 DEF CustomerIsCurrent, WithinLimit, OpenAR
  <2>3. (\A u \in Requests : CustomerIsCurrent(txn[u]))'
    BY <2>1, <2>2 DEF CustomerIsCurrent, WithinLimit, OpenAR
  <2> QED
    BY <2>1, <2>3 DEF LimitInv
<1>2. ASSUME NEW t, Begin(s, t), t.op \notin {"post", "pay"} PROVE LimitInv' /\ UNCHANGED inv
  BY <1>1, <1>2 DEF CustomerIsCurrent
<1>3. ASSUME NEW i \in Invoices, RequestPost(s, i) PROVE LimitInv' /\ UNCHANGED inv
  <2>1. CustomerIsCurrent([op |-> "post", inv |-> i, seen |-> inv[i]])
    BY <1>3 DEF RequestPost, CustomerIsCurrent
  <2> QED
    BY <1>1, <1>3, <2>1 DEF RequestPost
<1>4. ASSUME NEW i \in Invoices,
             RequestVoid(s, i) \/ RequestWriteOff(s, i) \/ RequestReverse(s, i)
      PROVE  LimitInv' /\ UNCHANGED inv
  <2>1. PICK op \in {"void", "writeoff", "reverse"} :
          Begin(s, [op |-> op, inv |-> i, seen |-> inv[i]])
    BY <1>4 DEF RequestVoid, RequestWriteOff, RequestReverse
  <2> QED
    BY <1>2, <2>1
<1>5. ASSUME NEW c \in Customers, NEW state \in {"cash", "deposited"},
             NEW amount \in Amounts, NEW alloc \in Allocations,
             RequestPay(s, c, state, amount, alloc)
      PROVE  LimitInv' /\ UNCHANGED inv
  <2> DEFINE t == [op |-> "pay", customer |-> c, state |-> state, amount |-> amount,
                   alloc |-> alloc, seen |-> Seen(alloc)]
  <2>1. Begin(s, t)
    BY <1>5 DEF RequestPay
  <2>2. CustomerIsCurrent(t)
    BY <1>5 DEF RequestPay, CustomerIsCurrent
  <2> QED
    BY <1>1, <2>1, <2>2
<1>6. ASSUME NEW c \in CreditNotes, RequestCredit(s, c) PROVE LimitInv' /\ UNCHANGED inv
  BY <1>2, <1>6 DEF RequestCredit
<1>7. ASSUME NEW r \in Receipts, RequestClear(s, r) \/ RequestBounce(s, r)
      PROVE  LimitInv' /\ UNCHANGED inv
  <2>1. PICK op \in {"clear", "bounce"} : Begin(s, [op |-> op, receipt |-> r])
    BY <1>7 DEF RequestClear, RequestBounce
  <2> QED
    BY <1>2, <2>1
<1> QED
  BY <1>3, <1>4, <1>5, <1>6, <1>7 DEF Request

\* What a step may add to the open receivables of customer c.
LimitKept(c) ==
  \/ \A i \in InvoicesOf(c) : OpenShare(inv'[i]) <= OpenShare(inv[i])
  \/ TakenBack(c)
  \/ CreditLimit[c] > 0 => OpenOf(inv', c) <= CreditLimit[c]

\* A bounce is one more on the count of its customer.
LEMMA BounceCounts ==
  ASSUME TypeOK, ClearingInv, NEW s \in Requests, CommitBounce(s)
  PROVE  LET c == receipt[txn[s].receipt].customer IN
         BounceCount(c, receipt') > BounceCount(c, receipt)
<1> DEFINE r == txn[s].receipt
           c == receipt[r].customer
<1>1. r \in Receipts
  BY TxnKind DEF CommitBounce, ChequeTxn, TypeOK
<1>2. receipt[r].state # "bounced"
  BY <1>1 DEF CommitBounce, FirstBounce, ClearingInv
<1>3. /\ receipt'[r].state = "bounced" /\ receipt'[r].customer = c
      /\ \A q \in Receipts \ {r} : receipt'[q] = receipt[q]
  BY <1>1 DEF CommitBounce, TypeOK, ReceiptRow
<1> HIDE DEF r, c
<1>4. Bounced(c, receipt') = Bounced(c, receipt) \cup {r} /\ r \notin Bounced(c, receipt)
  BY <1>1, <1>2, <1>3 DEF Bounced
<1>5. IsFiniteSet(Bounced(c, receipt))
  BY FS_Subset, FiniteAssumption DEF Bounced
<1>6. /\ Cardinality(Bounced(c, receipt)) \in Nat
      /\ Cardinality(Bounced(c, receipt')) = Cardinality(Bounced(c, receipt)) + 1
  BY <1>4, <1>5, FS_AddElement, FS_CardinalityType
<1>7. BounceCount(c, receipt') > BounceCount(c, receipt)
  BY <1>6 DEF BounceCount, Bounced
<1> QED
  BY <1>7 DEF r, c

\* A commit opens an invoice within the limit, or takes money back, or opens nothing.
LEMMA LimitCommit ==
  ASSUME OneRequestAtATime, TypeOK, TypeOK', SerialInv, ClearingInv, LimitInv,
         NEW s \in Requests, Commit(s)
  PROVE  LimitInv' /\ \A c \in Customers : LimitKept(c)
<1> DEFINE t == txn[s]
<1>1. t \in Transactions /\ ReadIsCurrent(t) /\ CustomerIsCurrent(t)
  BY DEF TypeOK, SerialInv, LimitInv
<1>2. (\A u \in Requests : CustomerIsCurrent(txn[u]))'
  <2>1. Finish(s)
    BY DEF Commit, CommitPost, CommitPostRefused, CommitVoid, CommitWriteOff,
           CommitReverse, CommitPay, CommitCredit, CommitClear, CommitBounce
  <2>2. \A u \in Requests : txn'[u].op = "idle"
    BY <2>1 DEF Finish, TypeOK, OneRequestAtATime, Idle
  <2> QED
    BY <2>2 DEF CustomerIsCurrent
<1>3. /\ inv \in [Invoices -> Row] /\ inv' \in [Invoices -> Row]
      /\ \A i \in Invoices : SettledIsZero(inv[i]) /\ OpenShare(inv[i]) \in Nat
      /\ \A i \in Invoices : OpenShare(inv'[i]) \in Nat
  <2>1. inv \in [Invoices -> Row] /\ inv' \in [Invoices -> Row]
    BY DEF TypeOK
  <2> QED
    BY <2>1, OpenShares DEF LimitInv
<1>4. \A c \in Customers : InvoicesOf(c) \subseteq Invoices
  BY DEF InvoicesOf
\* One row is written, and it is settled at zero and not more open than before.
<1>5. ASSUME NEW i \in Invoices, UNCHANGED receipt,
             \A j \in Invoices \ {i} : inv'[j] = inv[j],
             SettledIsZero(inv'[i]), OpenShare(inv'[i]) <= OpenShare(inv[i])
      PROVE  LimitInv' /\ \A c \in Customers : LimitKept(c)
  <2>1. \A j \in Invoices : SettledIsZero(inv'[j]) /\ OpenShare(inv'[j]) <= OpenShare(inv[j])
    BY <1>3, <1>5
  <2> QED
    BY <1>2, <1>4, <1>5, <2>1 DEF LimitInv, LimitKept
<1>6. ASSUME UNCHANGED inv,
             \A r \in Receipts : receipt'[r].alloc = receipt[r].alloc
                                 /\ receipt'[r].customer = receipt[r].customer
      PROVE  LimitInv' /\ \A c \in Customers : LimitKept(c)
  BY <1>2, <1>3, <1>4, <1>6 DEF LimitInv, LimitKept
<1>7. CASE CommitPost(s)
  <2> DEFINE i == t.inv
             c == CustomerOf[i]
  <2>1. /\ i \in Invoices /\ inv[i].status = "draft"
        /\ WithinLimit(c, i)
    BY <1>1, <1>7, TxnKind DEF CommitPost, InvoiceTxn, ReadIsCurrent, CustomerIsCurrent
  <2>2. inv[i].balance = Total[i] /\ Total[i] \in Nat
    BY <2>1, TotalType DEF SerialInv, SettledRows
  <2>3. /\ inv'[i].status = "posted" /\ inv'[i].balance = Total[i]
        /\ \A j \in Invoices \ {i} : inv'[j] = inv[j]
        /\ UNCHANGED receipt
    BY <1>3, <1>7, <2>1, <2>2 DEF CommitPost, Row
  <2>4. OpenShare(inv[i]) = 0 /\ OpenShare(inv'[i]) = Total[i]
    BY <2>1, <2>3 DEF OpenShare, Collectable
  <2>5. OpenOf(inv', c) = OpenOf(inv, c) + (Total[i] - 0)
    BY <1>3, <2>1, <2>3, <2>4, OpenAdds
  <2>6. OpenOf(inv, c) \in Nat
    BY <1>3, OpenType
  <2>7. LimitKept(c)
    <3>1. OpenOf(inv, c) = OpenAR(c)
      BY DEF OpenOf, OpenAR
    <3>2. CreditLimit[c] > 0 => OpenOf(inv, c) + Total[i] <= CreditLimit[c]
      BY <2>1, <3>1 DEF WithinLimit
    <3> HIDE DEF c, i
    <3> QED
      BY <2>2, <2>5, <2>6, <3>2 DEF LimitKept
  <2>8. ASSUME NEW d \in Customers, d # c PROVE LimitKept(d)
    <3>1. \A j \in InvoicesOf(d) : j \in Invoices \ {i}
      BY <2>8 DEF InvoicesOf
    <3> QED
      BY <1>3, <2>3, <3>1 DEF LimitKept
  <2>9. LimitInv'
    <3>1. \A j \in Invoices : SettledIsZero(inv'[j])
      BY <1>3, <2>3 DEF SettledIsZero
    <3> QED
      BY <1>2, <2>3, <3>1 DEF LimitInv
  <2> QED
    BY <2>7, <2>8, <2>9
<1>8. CASE CommitPostRefused(s)
  BY <1>6, <1>8 DEF CommitPostRefused
<1>9. CASE CommitVoid(s)
  <2>1. t.inv \in Invoices
    BY <1>1, <1>9, TxnKind DEF CommitVoid, InvoiceTxn
  <2>2. /\ inv'[t.inv].status = "void" /\ inv'[t.inv].balance = 0
        /\ \A j \in Invoices \ {t.inv} : inv'[j] = inv[j]
        /\ UNCHANGED receipt
    BY <1>3, <1>9, <2>1 DEF CommitVoid, Row
  <2>3. SettledIsZero(inv'[t.inv]) /\ OpenShare(inv'[t.inv]) = 0
    BY <2>2 DEF SettledIsZero, OpenShare, Collectable
  <2> QED
    BY <1>3, <1>5, <2>1, <2>2, <2>3
<1>10. CASE CommitWriteOff(s)
  <2>1. t.inv \in Invoices
    BY <1>1, <1>10, TxnKind DEF CommitWriteOff, InvoiceTxn
  <2>2. /\ inv'[t.inv].status = "written_off" /\ inv'[t.inv].balance = 0
        /\ \A j \in Invoices \ {t.inv} : inv'[j] = inv[j]
        /\ UNCHANGED receipt
    BY <1>3, <1>10, <2>1 DEF CommitWriteOff, Row
  <2>3. SettledIsZero(inv'[t.inv]) /\ OpenShare(inv'[t.inv]) = 0
    BY <2>2 DEF SettledIsZero, OpenShare, Collectable
  <2> QED
    BY <1>3, <1>5, <2>1, <2>2, <2>3
\* The write-off that ends is taken back.
<1>11. CASE CommitReverse(s)
  <2> DEFINE i == t.inv
  <2>1. i \in Invoices /\ inv[i].status = "written_off"
    BY <1>1, <1>11, TxnKind DEF CommitReverse, InvoiceTxn, ReadIsCurrent
  <2>2. /\ inv'[i].status \in {"partially_paid", "posted"}
        /\ \A j \in Invoices \ {i} : inv'[j] = inv[j]
        /\ UNCHANGED receipt
    BY <1>3, <1>11, <2>1 DEF CommitReverse, Row
  <2> HIDE DEF i
  <2>3. ASSUME NEW c \in Customers PROVE LimitKept(c)
    <3>1. CASE i \in InvoicesOf(c)
      BY <2>1, <2>2, <3>1 DEF LimitKept, TakenBack
    <3>2. CASE i \notin InvoicesOf(c)
      BY <1>3, <1>4, <2>2, <3>2 DEF LimitKept
    <3> QED
      BY <3>1, <3>2
  <2>4. \A j \in Invoices : SettledIsZero(inv'[j])
    BY <1>3, <2>2 DEF SettledIsZero
  <2> QED
    BY <1>2, <2>2, <2>3, <2>4 DEF LimitInv
<1>12. ASSUME NEW r \in Receipts, CommitPay(s, r)
       PROVE  LimitInv' /\ \A c \in Customers : LimitKept(c)
  <2>1. t \in PayTxn
    BY <1>1, <1>12, TxnKind DEF CommitPay
  <2>2. \A i \in Invoices : t.alloc[i] > 0 =>
          /\ t.seen[i] = inv[i] /\ inv[i].status \in Collectable
          /\ CustomerOf[i] = t.customer
    BY <1>1, <1>12 DEF CommitPay, ReadIsCurrent, CustomerIsCurrent
  <2>3. /\ receipt'[r].alloc = t.alloc /\ receipt'[r].customer = t.customer
        /\ \A q \in Receipts \ {r} : receipt'[q] = receipt[q]
    BY <1>12 DEF CommitPay, TypeOK
  <2>4. ASSUME NEW i \in Invoices
        PROVE  SettledIsZero(inv'[i]) /\ OpenShare(inv'[i]) <= OpenShare(inv[i])
    <3>1. t.alloc[i] \in Nat
      BY <2>1, AllocationType DEF PayTxn
    <3>2. inv'[i] = IF t.alloc[i] > 0 THEN Settle(inv[i], t.seen[i], t.alloc[i]) ELSE inv[i]
      BY <1>12 DEF CommitPay
    <3>3. CASE t.alloc[i] > 0
      <4>1. t.alloc[i] <= inv[i].balance
        BY <2>1, <2>2, <3>3 DEF PayTxn
      <4>2. inv'[i] = Settle(inv[i], inv[i], t.alloc[i]) /\ inv[i].status # "draft"
        BY <2>2, <3>2, <3>3 DEF Collectable
      <4> HIDE DEF t
      <4> QED
        BY <1>3, <3>1, <4>1, <4>2, SettleIsLess
    <3>4. CASE ~(t.alloc[i] > 0)
      BY <1>3, <3>2, <3>4
    <3> QED
      BY <3>3, <3>4
  <2>5. \A q \in Receipts, i \in Invoices :
          receipt'[q].alloc[i] > 0 => CustomerOf[i] = receipt'[q].customer
    BY <2>2, <2>3 DEF LimitInv
  <2> QED
    BY <1>2, <1>4, <2>4, <2>5 DEF LimitInv, LimitKept
<1>13. CASE CommitCredit(s)
  <2> DEFINE c == t.cn
             i == cn[c].invoice
             a == Applied(c)
  <2>1. c \in CreditNotes /\ cn[c] \in CreditNoteRow /\ UNCHANGED receipt
    BY <1>1, <1>13, TxnKind DEF CommitCredit, CreditTxn, TypeOK
  <2>2. CASE i = None
    BY <1>6, <1>13, <2>1, <2>2 DEF CommitCredit
  <2>3. CASE i # None
    <3>1. i \in Invoices /\ inv[i].status # "draft"
      BY <2>1, <2>3 DEF CreditNoteRow, SerialInv, DocumentsNameIssued
    <3>2. a \in Nat /\ a <= inv[i].balance
      BY <1>3, <2>1, <2>3, <3>1 DEF Applied, CreditNoteRow, Row
    <3>3. inv' = [inv EXCEPT ![i] = Settle(inv[i], inv[i], a)]
      BY <1>13, <2>3 DEF CommitCredit
    <3> HIDE DEF a, i, c
    <3>4. /\ inv'[i] = Settle(inv[i], inv[i], a)
          /\ \A j \in Invoices \ {i} : inv'[j] = inv[j]
      BY <1>3, <3>1, <3>3
    <3>5. SettledIsZero(inv'[i]) /\ OpenShare(inv'[i]) <= OpenShare(inv[i])
      BY <1>3, <3>1, <3>2, <3>4, SettleIsLess
    <3> QED
      BY <1>5, <2>1, <3>1, <3>4, <3>5
  <2> QED
    BY <2>2, <2>3
<1>14. CASE CommitClear(s)
  <2>1. t.receipt \in Receipts
    BY <1>1, <1>14, TxnKind DEF CommitClear, ChequeTxn
  <2>2. \A r \in Receipts : receipt'[r].alloc = receipt[r].alloc
                            /\ receipt'[r].customer = receipt[r].customer
    BY <1>14, <2>1 DEF CommitClear, TypeOK, ReceiptRow
  <2> QED
    BY <1>6, <1>14, <2>2 DEF CommitClear
\* A bounce reopens invoices of its own customer, whose bounces it adds to.
<1>15. CASE CommitBounce(s)
  <2> DEFINE r == t.receipt
             alloc == receipt[r].alloc
  <2>1. r \in Receipts
    BY <1>1, <1>15, TxnKind DEF CommitBounce, ChequeTxn
  <2>2. \A q \in Receipts : receipt'[q].alloc = receipt[q].alloc
                            /\ receipt'[q].customer = receipt[q].customer
    BY <1>15, <2>1 DEF CommitBounce, TypeOK, ReceiptRow
  <2>3. \A i \in Invoices :
          inv'[i] = IF alloc[i] > 0 THEN Reopen(inv[i], alloc[i], Total[i]) ELSE inv[i]
    BY <1>15 DEF CommitBounce
  <2>4. \A i \in Invoices : alloc[i] > 0 => CustomerOf[i] = receipt[r].customer
    BY <2>1 DEF LimitInv
  <2> HIDE DEF alloc
  <2>5. ASSUME NEW i \in Invoices PROVE SettledIsZero(inv'[i])
    <3>1. CASE alloc[i] > 0
      <4>1. inv'[i].status \in {"posted", "partially_paid"}
        BY <1>3, <2>3, <3>1 DEF Reopen, Row
      <4> QED
        BY <4>1 DEF SettledIsZero
    <3>2. CASE ~(alloc[i] > 0)
      BY <1>3, <2>3, <3>2
    <3> QED
      BY <3>1, <3>2
  <2>6. ASSUME NEW c \in Customers PROVE LimitKept(c)
    <3>1. CASE c = receipt[r].customer
      BY <1>15, <3>1, BounceCounts DEF LimitKept, TakenBack
    <3>2. CASE c # receipt[r].customer
      <4>1. \A i \in InvoicesOf(c) : inv'[i] = inv[i]
        BY <1>4, <2>3, <2>4, <3>2 DEF InvoicesOf
      <4> QED
        BY <1>3, <1>4, <4>1 DEF LimitKept
    <3> QED
      BY <3>1, <3>2
  <2> QED
    BY <1>2, <2>2, <2>5, <2>6 DEF LimitInv
<1> QED
  BY <1>7, <1>8, <1>9, <1>10, <1>11, <1>12, <1>13, <1>14, <1>15 DEF Commit

\* Every step keeps the invariant and opens nothing beyond a limit but what it takes
\* back.
LEMMA LimitNext ==
  OneRequestAtATime =>
    (TypeOK /\ TypeOK' /\ SerialInv /\ ClearingInv /\ LimitInv /\ [Next]_vars
       => LimitInv' /\ \A c \in Customers : LimitKept(c))
<1> SUFFICES ASSUME OneRequestAtATime, TypeOK, TypeOK', SerialInv, ClearingInv, LimitInv,
                    [Next]_vars
             PROVE  LimitInv' /\ \A c \in Customers : LimitKept(c)
  OBVIOUS
<1>1. UNCHANGED inv => \A c \in Customers : LimitKept(c)
  <2>1. \A i \in Invoices : OpenShare(inv[i]) \in Nat
    BY OpenShares DEF TypeOK
  <2> QED
    BY <2>1 DEF LimitKept, InvoicesOf
<1>2. ASSUME UNCHANGED inv,
             \A r \in Receipts : receipt'[r].alloc = receipt[r].alloc
                                 /\ receipt'[r].customer = receipt[r].customer,
             \A s \in Requests : txn'[s] \in {txn[s], Idle}
      PROVE  LimitInv' /\ \A c \in Customers : LimitKept(c)
  <2>1. ASSUME NEW s \in Requests PROVE CustomerIsCurrent(txn[s])'
    <3>1. CASE txn'[s] = Idle
      BY <3>1 DEF CustomerIsCurrent, Idle
    <3>2. CASE txn'[s] = txn[s]
      BY <1>2, <3>2 DEF LimitInv, CustomerIsCurrent, WithinLimit, OpenAR
    <3> QED
      BY <1>2, <3>1, <3>2
  <2> QED
    BY <1>1, <1>2, <2>1 DEF LimitInv
<1>3. ASSUME NEW s \in Requests, Rollback(s)
      PROVE  LimitInv' /\ \A c \in Customers : LimitKept(c)
  BY <1>2, <1>3 DEF Rollback, Finish, TypeOK
<1>4. ASSUME NEW c \in CreditNotes, NEW i \in Invoices \cup {None},
             NEW total \in Amounts, CreateCreditNote(c, i, total)
      PROVE  LimitInv' /\ \A d \in Customers : LimitKept(d)
  BY <1>2, <1>4 DEF CreateCreditNote
<1>5. ASSUME NEW S \in SUBSET Receipts, FlagStale(S)
      PROVE  LimitInv' /\ \A c \in Customers : LimitKept(c)
  <2>1. \A r \in Receipts : receipt'[r].alloc = receipt[r].alloc
                            /\ receipt'[r].customer = receipt[r].customer
    BY <1>5 DEF FlagStale, TypeOK, ReceiptRow
  <2> QED
    BY <1>2, <1>5, <2>1 DEF FlagStale
<1>6. ASSUME NEW c \in Customers, NEW held \in BOOLEAN, SetHold(c, held)
      PROVE  LimitInv' /\ \A d \in Customers : LimitKept(d)
  BY <1>2, <1>6 DEF SetHold
<1>7. CASE UNCHANGED vars
  BY <1>2, <1>7 DEF vars
<1>8. ASSUME NEW s \in Requests, Request(s)
      PROVE  LimitInv' /\ \A c \in Customers : LimitKept(c)
  BY <1>1, <1>8, LimitRequest
<1> QED
  BY <1>3, <1>4, <1>5, <1>6, <1>7, <1>8, LimitCommit DEF Next, Elsewhere

\* When requests run one at a time, a customer's open receivables pass the credit
\* limit only by money taken back, a bounced cheque or a write-off that ends, for any
\* number of customers and invoices: a post is within the limit when it commits, and
\* no payment, credit note or void makes a settled row count as open again.
THEOREM LimitHolds == OneRequestAtATime => (Spec => CreditLimitRespected)
<1> SUFFICES ASSUME OneRequestAtATime PROVE Spec => CreditLimitRespected
  OBVIOUS
<1>1. Init => SerialInv /\ LimitInv
  BY SerialInit, LimitInit
<1>2. TypeOK /\ SerialInv /\ [Next]_vars => SerialInv'
  BY SerialNext
<1>3. TypeOK /\ TypeOK' /\ SerialInv /\ ClearingInv /\ LimitInv /\ [Next]_vars => LimitInv'
  BY LimitNext
<1>4. Spec => []ClearingInv
  BY ClearingInvariance DEF NoClearingRace
<1>5. TypeOK /\ TypeOK' /\ SerialInv /\ ClearingInv /\ LimitInv /\ [Next]_vars
        => [\A c \in Customers :
              CreditLimit[c] > 0 /\ OpenAR(c)' > OpenAR(c) /\ ~TakenBack(c)
                => OpenAR(c)' <= CreditLimit[c]]_vars
  <2> SUFFICES ASSUME TypeOK, TypeOK', SerialInv, ClearingInv, LimitInv, [Next]_vars,
                      NEW c \in Customers, CreditLimit[c] > 0,
                      OpenAR(c)' > OpenAR(c), ~TakenBack(c)
               PROVE  OpenAR(c)' <= CreditLimit[c]
    OBVIOUS
  <2>1. OpenAR(c) = OpenOf(inv, c) /\ OpenAR(c)' = OpenOf(inv', c)
    BY DEF OpenAR, OpenOf
  <2>2. LimitKept(c)
    BY LimitNext
  <2>3. inv \in [Invoices -> Row] /\ inv' \in [Invoices -> Row]
    BY DEF TypeOK
  <2>4. OpenOf(inv, c) \in Nat /\ OpenOf(inv', c) \in Nat
    BY <2>3, OpenType
  <2>5. CASE \A i \in InvoicesOf(c) : OpenShare(inv'[i]) <= OpenShare(inv[i])
    <3>1. OpenOf(inv', c) <= OpenOf(inv, c)
      BY <2>3, <2>5, OpenLess
    <3> QED
      BY <2>1, <2>4, <3>1
  <2> QED
    BY <2>1, <2>2, <2>5 DEF LimitKept
<1> QED
  BY <1>1, <1>2, <1>3, <1>4, <1>5, TypeCorrect, PTL DEF Spec, CreditLimitRespected
================================================================================
