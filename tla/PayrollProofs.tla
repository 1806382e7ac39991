------------------------------ MODULE PayrollProofs ------------------------------
(****************************************************************************)
(* Theorems about Payroll, for any runs, loans and claims, any number of    *)
(* months and requests in flight, and any terms.                            *)
(*                                                                          *)
(* A commit either finds what its request had read (Marks), or marks the    *)
(* documents it writes: the invariants are about the unmarked ones.         *)
(*   LentInv    who is paid out has a schedule, and none is taken away       *)
(*   TakenInv   what a run deducts or reimburses is marked as held           *)
(*   HoldsInv   an unmarked run holds what it deducts, owes what it says     *)
(*   HeldInv    what a run holds is pending until it is posted, then paid    *)
(*   LoanInv    the header of a loan is what its paid instalments leave      *)
(* The last two need that no instalment is nothing or less (AmpleLoans).    *)
(****************************************************************************)
EXTENDS Payroll, FiniteSetTheorems, TLAPS

--------------------------------------------------------------------------------
(* Induction, by a least counterexample: a set of sets, or of numbers, that   *)
(* is not empty has a smallest one (WFMin).                                   *)

\* A set of numbers that has 0, and with each number the next, has them all.
LEMMA NatSet ==
  ASSUME NEW A \in SUBSET Nat, 0 \in A, \A n \in A : n + 1 \in A
  PROVE  A = Nat
<1> SUFFICES ASSUME Nat \ A # {} PROVE FALSE
  OBVIOUS
<1>1. IsWellFoundedOn(OpToRel(<, Nat), Nat)
  BY NatLessThanWellFounded
<1>2. \E x \in Nat \ A : \A y \in Nat \ A : ~ (<<y, x>> \in OpToRel(<, Nat))
  <2>1. Nat \ A \subseteq Nat
    OBVIOUS
  <2> QED BY <1>1, <2>1, WFMin
<1>3. PICK x \in Nat \ A : \A y \in Nat \ A : ~ (y < x)
  BY <1>2 DEF OpToRel
<1>4. x # 0 /\ x - 1 \in Nat /\ x - 1 < x
  BY <1>3
<1>5. x - 1 \in A
  BY <1>3, <1>4
<1> QED BY <1>4, <1>5, <1>3

\* A set of subsets of a finite set that has every set whose smaller sets it has, has all.
LEMMA SubsetInduction ==
  ASSUME NEW S, IsFiniteSet(S), NEW F \in SUBSET (SUBSET S),
         \A T \in SUBSET S : (\A x \in T : T \ {x} \in F) => T \in F
  PROVE  F = SUBSET S
<1> DEFINE A == {n \in Nat : \A T \in SUBSET S : Cardinality(T) <= n => T \in F}
<1>0. \A T \in SUBSET S : IsFiniteSet(T) /\ Cardinality(T) \in Nat
  BY FS_Subset, FS_CardinalityType
<1>1. 0 \in A
  <2> SUFFICES ASSUME NEW T \in SUBSET S, Cardinality(T) <= 0 PROVE T \in F
    OBVIOUS
  <2>1. T = {}
    BY <1>0, FS_EmptySet
  <2> QED BY <2>1
<1>2. ASSUME NEW n \in A PROVE n + 1 \in A
  <2> SUFFICES ASSUME NEW T \in SUBSET S, Cardinality(T) <= n + 1 PROVE T \in F
    OBVIOUS
  <2>1. ASSUME NEW x \in T PROVE T \ {x} \in F
    <3>1. Cardinality(T \ {x}) = Cardinality(T) - 1
      BY <1>0, FS_RemoveElement
    <3>2. Cardinality(T \ {x}) <= n /\ T \ {x} \in SUBSET S
      BY <1>0, <3>1
    <3> QED BY <3>2
  <2> QED BY <2>1
<1>3. A = Nat
  <2> HIDE DEF A
  <2>1. A \in SUBSET Nat
    BY DEF A
  <2> QED BY <1>1, <1>2, <2>1, NatSet
<1>4. ASSUME NEW T \in SUBSET S PROVE T \in F
  <2>1. Cardinality(T) \in A /\ Cardinality(T) <= Cardinality(T)
    BY <1>0, <1>3
  <2> QED BY <2>1
<1> QED BY <1>4

--------------------------------------------------------------------------------
(* The sum of a function over a set is a recursive function over the subsets  *)
(* of the set, which takes elements out in an order of its own.               *)

Element(s) == CHOOSE x \in s : TRUE

\* What a sum has to be, if g says what the smaller ones are.
SumOf(g, f, s) == IF s = {} THEN 0 ELSE f[Element(s)] + g[s \ {Element(s)}]

IsSum(g, f, S) == g = [s \in SUBSET S |-> SumOf(g, f, s)]

\* The sum is the value of the recursive function at the whole set.
LEMMA SumDef ==
  ASSUME NEW f, NEW S
  PROVE  SumFunctionOnSet(f, S) = (CHOOSE g : IsSum(g, f, S))[S]
BY DEF SumFunctionOnSet, FoldFunctionOnSet, MapThenFoldSet, IsSum, SumOf, Element

\* The element that a sum takes out first is one of the set.
LEMMA ElementIn == \A s : s # {} => Element(s) \in s
BY DEF Element

\* There is such a function: it is built for the sets of up to n elements, for each n.
LEMMA SumExists ==
  ASSUME NEW f, NEW S, IsFiniteSet(S)
  PROVE  \E g : IsSum(g, f, S)
<1> DEFINE Up(g, n) == \A s \in SUBSET S : Cardinality(s) <= n => g[s] = SumOf(g, f, s)
           A == {n \in Nat : \E g : Up(g, n)}
<1>0. /\ \A s \in SUBSET S : IsFiniteSet(s) /\ Cardinality(s) \in Nat
      /\ \A s \in SUBSET S : s # {} =>
           /\ s \ {Element(s)} \in SUBSET S
           /\ Cardinality(s \ {Element(s)}) = Cardinality(s) - 1
  <2>1. \A s \in SUBSET S : IsFiniteSet(s) /\ Cardinality(s) \in Nat
    BY FS_Subset, FS_CardinalityType
  <2>2. ASSUME NEW s \in SUBSET S, s # {}
        PROVE  /\ s \ {Element(s)} \in SUBSET S
               /\ Cardinality(s \ {Element(s)}) = Cardinality(s) - 1
    BY <2>1, <2>2, ElementIn, FS_RemoveElement
  <2> QED BY <2>1, <2>2
<1>1. 0 \in A
  <2>1. Up([s \in SUBSET S |-> 0], 0)
    <3> SUFFICES ASSUME NEW s \in SUBSET S, Cardinality(s) <= 0
                 PROVE  SumOf([t \in SUBSET S |-> 0], f, s) = 0
      OBVIOUS
    <3>1. s = {}
      BY <1>0, FS_EmptySet
    <3> QED BY <3>1 DEF SumOf
  <2> QED BY <2>1
<1>2. ASSUME NEW n \in A PROVE n + 1 \in A
  <2>1. PICK g : Up(g, n)
    OBVIOUS
  <2> DEFINE h == [s \in SUBSET S |-> IF Cardinality(s) <= n THEN g[s] ELSE SumOf(g, f, s)]
  <2>2. \A s \in SUBSET S : h[s] = IF Cardinality(s) <= n THEN g[s] ELSE SumOf(g, f, s)
    OBVIOUS
  <2>3. ASSUME NEW s \in SUBSET S, Cardinality(s) <= n + 1
        PROVE  h[s] = SumOf(h, f, s)
    <3>1. h[s] = SumOf(g, f, s)
      BY <2>1, <2>2
    <3>2. s # {} => h[s \ {Element(s)}] = g[s \ {Element(s)}]
      <4> HIDE DEF h, A, Up
      <4> SUFFICES ASSUME s # {} PROVE h[s \ {Element(s)}] = g[s \ {Element(s)}]
        OBVIOUS
      <4>1. n \in Nat
        BY <1>2 DEF A
      <4>2. Cardinality(s \ {Element(s)}) <= n
        BY <1>0, <2>3, <4>1
      <4> QED BY <1>0, <2>2, <4>2
    <3> HIDE DEF h
    <3> QED BY <3>1, <3>2 DEF SumOf
  <2>4. Up(h, n + 1)
    BY <2>3
  <2>5. n + 1 \in Nat
    OBVIOUS
  <2> QED BY <2>4, <2>5
<1>3. A = Nat
  <2> HIDE DEF A
  <2>1. A \in SUBSET Nat
    BY DEF A
  <2> QED BY <1>1, <1>2, <2>1, NatSet
<1>4. PICK g : Up(g, Cardinality(S))
  <2>1. Cardinality(S) \in A
    BY <1>3, FS_CardinalityType
  <2> QED BY <2>1
<1>5. \A s \in SUBSET S : g[s] = SumOf(g, f, s)
  <2>1. \A s \in SUBSET S : Cardinality(s) <= Cardinality(S)
    BY FS_Subset
  <2> QED BY <1>4, <2>1
<1> DEFINE h == [s \in SUBSET S |-> g[s]]
<1>6. IsSum(h, f, S)
  <2>1. \A s \in SUBSET S : SumOf(h, f, s) = SumOf(g, f, s)
    BY <1>0 DEF SumOf
  <2>2. h = [s \in SUBSET S |-> SumOf(h, f, s)]
    BY <1>5, <2>1
  <2> QED BY <2>2 DEF IsSum
<1> QED BY <1>6

\* The function for a subset is the function for the set, as far as it goes.
LEMMA SumUnique ==
  ASSUME NEW f, NEW S, IsFiniteSet(S), NEW T \in SUBSET S, NEW g, NEW h,
         IsSum(g, f, S), IsSum(h, f, T)
  PROVE  g[T] = h[T]
<1> DEFINE F == {s \in SUBSET T : g[s] = h[s]}
<1>1. \A s \in SUBSET T : g[s] = SumOf(g, f, s) /\ h[s] = SumOf(h, f, s)
  <2>1. \A s \in SUBSET S : g[s] = SumOf(g, f, s)
    BY Zenon DEF IsSum
  <2>2. \A s \in SUBSET T : h[s] = SumOf(h, f, s)
    BY Zenon DEF IsSum
  <2> QED BY <2>1, <2>2
<1>2. ASSUME NEW s \in SUBSET T, \A x \in s : s \ {x} \in F PROVE s \in F
  <2>1. s # {} => g[s \ {Element(s)}] = h[s \ {Element(s)}]
    BY <1>2, ElementIn
  <2>2. SumOf(g, f, s) = SumOf(h, f, s)
    BY <2>1 DEF SumOf
  <2> QED BY <1>1, <2>2
<1>3. F = SUBSET T
  <2> HIDE DEF F
  <2>1. F \in SUBSET (SUBSET T) /\ IsFiniteSet(T)
    BY FS_Subset DEF F
  <2> QED BY <1>2, <2>1, SubsetInduction
<1> QED BY <1>3

--------------------------------------------------------------------------------
(* Sums.                                                                      *)

\* A sum is one of its values and the sum of the others.
LEMMA SumUnfold ==
  ASSUME NEW f, NEW S, IsFiniteSet(S)
  PROVE  SumFunctionOnSet(f, S) =
           IF S = {} THEN 0
           ELSE f[Element(S)] + SumFunctionOnSet(f, S \ {Element(S)})
<1>1. PICK g : IsSum(g, f, S) /\ SumFunctionOnSet(f, S) = g[S]
  <2>1. IsSum(CHOOSE g : IsSum(g, f, S), f, S)
    BY SumExists
  <2> QED BY <2>1, SumDef
<1>2. g[S] = SumOf(g, f, S)
  <2>1. \A s \in SUBSET S : g[s] = SumOf(g, f, s)
    BY <1>1, Zenon DEF IsSum
  <2> QED BY <2>1
<1>3. CASE S = {}
  BY <1>1, <1>2, <1>3 DEF SumOf
<1>4. CASE S # {}
  <2>1. S \ {Element(S)} \in SUBSET S /\ IsFiniteSet(S \ {Element(S)})
    BY FS_RemoveElement
  <2>2. PICK h : /\ IsSum(h, f, S \ {Element(S)})
                 /\ SumFunctionOnSet(f, S \ {Element(S)}) = h[S \ {Element(S)}]
    <3>1. IsSum(CHOOSE h : IsSum(h, f, S \ {Element(S)}), f, S \ {Element(S)})
      BY <2>1, SumExists
    <3> QED BY <3>1, SumDef
  <2>3. g[S \ {Element(S)}] = h[S \ {Element(S)}]
    BY <1>1, <2>1, <2>2, SumUnique
  <2> QED BY <1>1, <1>2, <1>4, <2>2, <2>3 DEF SumOf
<1> QED BY <1>3, <1>4

\* A sum over nothing.
LEMMA SumEmpty == \A f : SumFunctionOnSet(f, {}) = 0
BY SumUnfold, FS_EmptySet

\* A sum of numbers is a number.
LEMMA SumType ==
  ASSUME NEW S, IsFiniteSet(S), NEW f, \A x \in S : f[x] \in Int
  PROVE  SumFunctionOnSet(f, S) \in Int
<1> DEFINE F == {T \in SUBSET S : SumFunctionOnSet(f, T) \in Int}
<1>1. ASSUME NEW T \in SUBSET S, \A x \in T : T \ {x} \in F PROVE T \in F
  <2>1. IsFiniteSet(T)
    BY FS_Subset
  <2>2. CASE T = {}
    BY <2>2, SumEmpty
  <2>3. CASE T # {}
    <3>1. Element(T) \in T
      BY <2>3, ElementIn
    <3>2. SumFunctionOnSet(f, T \ {Element(T)}) \in Int /\ f[Element(T)] \in Int
      BY <1>1, <3>1
    <3> QED BY <2>1, <2>3, <3>2, SumUnfold
  <2> QED BY <2>2, <2>3
<1>2. F = SUBSET S
  <2> HIDE DEF F
  <2>1. F \in SUBSET (SUBSET S)
    BY DEF F
  <2> QED BY <1>1, <2>1, SubsetInduction
<1> QED BY <1>2

\* Any of the values may be taken out.
LEMMA SumRemove ==
  ASSUME NEW S, IsFiniteSet(S), NEW f, \A x \in S : f[x] \in Int, NEW x \in S
  PROVE  SumFunctionOnSet(f, S) = f[x] + SumFunctionOnSet(f, S \ {x})
<1> DEFINE F == {T \in SUBSET S : \A y \in T :
                   SumFunctionOnSet(f, T) = f[y] + SumFunctionOnSet(f, T \ {y})}
<1>0. \A T \in SUBSET S : IsFiniteSet(T) /\ SumFunctionOnSet(f, T) \in Int
  <2> SUFFICES ASSUME NEW T \in SUBSET S
               PROVE  IsFiniteSet(T) /\ SumFunctionOnSet(f, T) \in Int
    OBVIOUS
  <2>1. IsFiniteSet(T)
    BY FS_Subset
  <2> QED BY <2>1, SumType
<1>1. ASSUME NEW T \in SUBSET S, \A y \in T : T \ {y} \in F PROVE T \in F
  <2> SUFFICES ASSUME NEW y \in T
               PROVE  SumFunctionOnSet(f, T) = f[y] + SumFunctionOnSet(f, T \ {y})
    OBVIOUS
  <2>1. PICK e \in T :
          /\ e = Element(T)
          /\ SumFunctionOnSet(f, T) = f[e] + SumFunctionOnSet(f, T \ {e})
    <3>1. T # {} /\ Element(T) \in T
      BY ElementIn
    <3> QED BY <1>0, <3>1, SumUnfold
  <2>2. CASE y = e
    BY <2>1, <2>2
  <2>3. CASE y # e
    <3>1. SumFunctionOnSet(f, T \ {e}) = f[y] + SumFunctionOnSet(f, (T \ {e}) \ {y})
      BY <1>1, <2>3
    <3>2. SumFunctionOnSet(f, T \ {y}) = f[e] + SumFunctionOnSet(f, (T \ {y}) \ {e})
      BY <1>1, <2>3
    <3>3. (T \ {e}) \ {y} = (T \ {y}) \ {e}
      OBVIOUS
    <3>4. PICK a \in Int, b \in Int, rest \in Int :
            a = f[e] /\ b = f[y] /\ rest = SumFunctionOnSet(f, (T \ {e}) \ {y})
      BY <1>0
    <3>5. SumFunctionOnSet(f, T) = a + (b + rest)
      BY <2>1, <3>1, <3>4
    <3>6. f[y] + SumFunctionOnSet(f, T \ {y}) = b + (a + rest)
      BY <3>2, <3>3, <3>4
    <3> QED BY <3>5, <3>6
  <2> QED BY <2>2, <2>3
<1>2. F = SUBSET S
  <2> HIDE DEF F
  <2>1. F \in SUBSET (SUBSET S)
    BY DEF F
  <2> QED BY <1>1, <2>1, SubsetInduction
<1> QED BY <1>2

\* What is to be shown of the sum over S is shown of all its subsets, one value at a time.
LEMMA SumInduction ==
  ASSUME NEW S, IsFiniteSet(S), NEW F \in SUBSET (SUBSET S), {} \in F,
         \A T \in F : \A x \in S \ T : T \cup {x} \in F
  PROVE  S \in F
<1>1. ASSUME NEW T \in SUBSET S, \A x \in T : T \ {x} \in F PROVE T \in F
  <2>1. CASE T = {}
    BY <2>1
  <2>2. CASE T # {}
    <3>1. PICK x \in T : TRUE
      BY <2>2
    <3>2. T \ {x} \in F /\ x \in S \ (T \ {x}) /\ (T \ {x}) \cup {x} = T
      BY <1>1
    <3> QED BY <3>2
  <2> QED BY <2>1, <2>2
<1>2. F = SUBSET S
  BY <1>1, SubsetInduction
<1> QED BY <1>2

\* One value more.
LEMMA SumAdd ==
  ASSUME NEW S, IsFiniteSet(S), NEW f, \A y \in S : f[y] \in Int,
         NEW x, x \notin S, f[x] \in Int
  PROVE  SumFunctionOnSet(f, S \cup {x}) = SumFunctionOnSet(f, S) + f[x]
<1>1. IsFiniteSet(S \cup {x}) /\ (S \cup {x}) \ {x} = S
  BY FS_AddElement
<1>2. SumFunctionOnSet(f, S \cup {x}) = f[x] + SumFunctionOnSet(f, (S \cup {x}) \ {x})
  BY <1>1, SumRemove
<1>3. PICK a \in Int, b \in Int : a = f[x] /\ b = SumFunctionOnSet(f, S)
  BY SumType
<1>4. SumFunctionOnSet(f, S \cup {x}) = a + b
  BY <1>1, <1>2, <1>3
<1> QED BY <1>3, <1>4

\* A sum of natural numbers is one.
LEMMA SumNat ==
  ASSUME NEW S, IsFiniteSet(S), NEW f, \A x \in S : f[x] \in Nat
  PROVE  SumFunctionOnSet(f, S) \in Nat
<1> DEFINE F == {T \in SUBSET S : SumFunctionOnSet(f, T) \in Nat}
<1>1. {} \in F
  BY SumEmpty
<1>2. ASSUME NEW T \in F, NEW x \in S \ T PROVE T \cup {x} \in F
  <2>1. IsFiniteSet(T) /\ T \subseteq S /\ SumFunctionOnSet(f, T) \in Nat /\ f[x] \in Nat
    BY FS_Subset
  <2>2. SumFunctionOnSet(f, T \cup {x}) = SumFunctionOnSet(f, T) + f[x]
    BY <2>1, SumAdd
  <2>3. SumFunctionOnSet(f, T \cup {x}) \in Nat
    BY <2>1, <2>2
  <2> QED BY <2>1, <2>3
<1> HIDE DEF F
<1>3. F \in SUBSET (SUBSET S)
  BY DEF F
<1>4. S \in F
  BY <1>1, <1>2, <1>3, SumInduction
<1> QED BY <1>4 DEF F

\* The sums over two sets that share nothing.
LEMMA SumUnion ==
  ASSUME NEW S, IsFiniteSet(S), NEW T, IsFiniteSet(T), S \cap T = {},
         NEW f, \A x \in S \cup T : f[x] \in Int
  PROVE  SumFunctionOnSet(f, S \cup T) = SumFunctionOnSet(f, S) + SumFunctionOnSet(f, T)
<1> DEFINE F == {U \in SUBSET T :
                   /\ IsFiniteSet(S \cup U)
                   /\ SumFunctionOnSet(f, S \cup U)
                        = SumFunctionOnSet(f, S) + SumFunctionOnSet(f, U)}
<1>0. SumFunctionOnSet(f, S) \in Int
  BY SumType
<1>1. {} \in F
  <2>1. S \cup {} = S /\ SumFunctionOnSet(f, {}) = 0
    BY SumEmpty
  <2> QED BY <1>0, <2>1
<1>2. ASSUME NEW U \in F, NEW x \in T \ U PROVE U \cup {x} \in F
  <2>1. /\ IsFiniteSet(U) /\ U \subseteq T /\ f[x] \in Int /\ x \notin S \cup U
        /\ IsFiniteSet(S \cup U)
        /\ SumFunctionOnSet(f, S \cup U)
             = SumFunctionOnSet(f, S) + SumFunctionOnSet(f, U)
    BY FS_Subset
  <2>2. /\ SumFunctionOnSet(f, U \cup {x}) = SumFunctionOnSet(f, U) + f[x]
        /\ SumFunctionOnSet(f, U) \in Int
    BY <2>1, SumAdd, SumType
  <2>3. SumFunctionOnSet(f, (S \cup U) \cup {x}) = SumFunctionOnSet(f, S \cup U) + f[x]
    BY <2>1, SumAdd
  <2>4. IsFiniteSet((S \cup U) \cup {x}) /\ S \cup (U \cup {x}) = (S \cup U) \cup {x}
    BY <2>1, FS_AddElement
  <2>5. SumFunctionOnSet(f, S \cup (U \cup {x}))
          = SumFunctionOnSet(f, S) + SumFunctionOnSet(f, U \cup {x})
    <3>1. PICK a \in Int, b \in Int, c \in Int :
            a = SumFunctionOnSet(f, S) /\ b = SumFunctionOnSet(f, U) /\ c = f[x]
      BY <1>0, <2>1, <2>2
    <3>2. SumFunctionOnSet(f, S \cup (U \cup {x})) = (a + b) + c
      BY <2>1, <2>3, <2>4, <3>1
    <3>3. SumFunctionOnSet(f, U \cup {x}) = b + c
      BY <2>2, <3>1
    <3> QED BY <3>1, <3>2, <3>3
  <2>6. U \cup {x} \in SUBSET T
    BY <2>1
  <2> QED BY <2>4, <2>5, <2>6
<1> HIDE DEF F
<1>3. F \in SUBSET (SUBSET T)
  BY DEF F
<1>4. T \in F
  BY <1>1, <1>2, <1>3, SumInduction
<1> QED BY <1>4 DEF F

\* The same number for all elements.
LEMMA SumConstant ==
  ASSUME NEW S, IsFiniteSet(S), NEW f, NEW n \in Int, \A x \in S : f[x] = n
  PROVE  SumFunctionOnSet(f, S) = n * Cardinality(S)
<1> DEFINE F == {T \in SUBSET S : SumFunctionOnSet(f, T) = n * Cardinality(T)}
<1>1. {} \in F
  BY SumEmpty, FS_EmptySet
<1>2. ASSUME NEW T \in F, NEW x \in S \ T PROVE T \cup {x} \in F
  <2>1. IsFiniteSet(T) /\ T \subseteq S /\ SumFunctionOnSet(f, T) = n * Cardinality(T)
    BY FS_Subset
  <2>2. SumFunctionOnSet(f, T \cup {x}) = SumFunctionOnSet(f, T) + n
    BY <2>1, SumAdd
  <2>3. Cardinality(T) \in Nat /\ Cardinality(T \cup {x}) = Cardinality(T) + 1
    BY <2>1, FS_CardinalityType, FS_AddElement
  <2>4. n * (Cardinality(T) + 1) = n * Cardinality(T) + n
    BY <2>3
  <2>5. SumFunctionOnSet(f, T \cup {x}) = n * Cardinality(T \cup {x})
    BY <2>1, <2>2, <2>3, <2>4
  <2> QED BY <2>1, <2>5
<1> HIDE DEF F
<1>3. F \in SUBSET (SUBSET S)
  BY DEF F
<1>4. S \in F
  BY <1>1, <1>2, <1>3, SumInduction
<1> QED BY <1>4 DEF F

--------------------------------------------------------------------------------
\* The arithmetic of the schedule

\* A quotient is the number of times that the divisor fits in.
LEMMA Division ==
  ASSUME NEW a \in Nat, NEW b \in Nat \ {0}
  PROVE  /\ a \div b \in Nat
         /\ (a \div b) * b <= a
         /\ a < (a \div b) * b + b
  OBVIOUS

\* A product of natural numbers is one, and grows with its factors.
LEMMA Product ==
  /\ \A a, b \in Nat : a * b \in Nat
  /\ \A a, b, c \in Nat : a <= b => a * c <= b * c
  /\ \A a, b \in Nat : \A c \in Nat \ {0} : a * c <= b * c => a <= b
  /\ \A a, b \in Nat : \A c \in Nat \ {0} : a * c < b * c => a < b
<1>1. \A a, b \in Nat : a * b \in Nat
  OBVIOUS
<1>2. \A a, b, c \in Nat : a <= b => a * c <= b * c
  <2> SUFFICES ASSUME NEW a \in Nat, NEW b \in Nat, NEW c \in Nat, a <= b
               PROVE  a * c <= b * c
    OBVIOUS
  <2>1. (b - a) * c \in Nat
    BY <1>1
  <2>2. (b - a) * c = b * c - a * c
    OBVIOUS
  <2> QED
    BY <2>1, <2>2
<1>3. \A a, b \in Nat : \A c \in Nat \ {0} : a * c < b * c => a < b
  BY <1>2
<1>4. \A a, b \in Nat : \A c \in Nat \ {0} : a * c <= b * c => a <= b
  <2> SUFFICES ASSUME NEW a \in Nat, NEW b \in Nat, NEW c \in Nat \ {0},
                      a * c <= b * c, b + 1 <= a
               PROVE  FALSE
    OBVIOUS
  <2>1. (b + 1) * c <= a * c
    BY <1>2
  <2>2. (b + 1) * c = b * c + c
    OBVIOUS
  <2>3. a * c \in Nat /\ b * c \in Nat
    BY <1>1
  <2> QED
    BY <2>1, <2>2, <2>3
<1> QED
  BY <1>1, <1>2, <1>3, <1>4

\* The instalments of P with interest I over n months, b a month of which i is interest:
\* none is negative in interest, the last not smaller than the others; and none in
\* principal, when P is at least n * n.
LEMMA Shares ==
  ASSUME NEW P \in Nat \ {0}, NEW I \in Nat, NEW n \in Nat \ {0},
         NEW b \in Nat, b * n <= P + I, P + I < b * n + n,
         NEW i \in Nat, i * (P + I) <= b * I, b * I < i * (P + I) + (P + I)
  PROVE  /\ i <= b
         /\ i * (n - 1) <= I
         /\ (P - (b - i) * (n - 1)) + (I - i * (n - 1)) > 0
         /\ P >= n * n => b > 0 /\ (b - i) * (n - 1) <= P
<1> DEFINE G == P + I
<1>0. G \in Nat \ {0}
  OBVIOUS
<1>1. i <= b
  <2>1. b * I <= b * G
    BY <1>0, Product
  <2> QED
    BY <2>1, <1>0, Product
<1>2. i * n <= I
  <2>1. (i * n) * G \in Nat /\ (b * n) * I \in Nat /\ I * G \in Nat /\ b * I \in Nat
        /\ i * G \in Nat /\ i * n \in Nat /\ b * n \in Nat
    BY <1>0, Product
  <2>2. (i * G) * n <= (b * I) * n
    BY <1>0, <2>1, Product
  <2>3. (b * n) * I <= G * I
    BY <1>0, <2>1, Product
  <2>4. (i * n) * G = (i * G) * n /\ (b * n) * I = (b * I) * n /\ G * I = I * G
    BY <1>0
  <2>5. (i * n) * G <= I * G
    BY <2>1, <2>2, <2>3, <2>4
  <2> QED
    BY <2>5, <2>1, <1>0, Product
<1>3. i * (n - 1) <= I
  <2>1. i * (n - 1) = i * n - i
    OBVIOUS
  <2> QED
    BY <2>1, <1>2
<1>4. (P - (b - i) * (n - 1)) + (I - i * (n - 1)) > 0
  <2>1. (P - (b - i) * (n - 1)) + (I - i * (n - 1)) = G - b * (n - 1)
    OBVIOUS
  <2>2. b * (n - 1) = b * n - b
    OBVIOUS
  <2>3. CASE b = 0
    BY <2>1, <2>2, <2>3, <1>0
  <2>4. CASE b # 0
    BY <2>1, <2>2, <2>4, <1>0
  <2> QED
    BY <2>3, <2>4
<1>5. ASSUME P >= n * n
      PROVE  b > 0
  <2>1. n * n >= n
    BY Product
  <2> QED
    BY <1>5, <2>1
<1>6. ASSUME P >= n * n
      PROVE  (b - i) * (n - 1) <= P
  <2> DEFINE d == b - i
  <2>0. d \in Nat
    BY <1>1
  <2>1. d * n < P + n
    <3> SUFFICES ASSUME P + n <= d * n
                 PROVE  FALSE
      BY <2>0
    <3>1. d # 0
      BY <2>0
    <3>2. PICK e \in Nat : e = d - 1
      BY <3>1, <2>0
    <3>3. P <= e * n
      <4>1. d * n = e * n + n
        BY <3>2, <2>0
      <4> QED
        BY <4>1, <3>2, <2>0
    <3>4. P * G <= (e * n) * G
      BY <3>3, <3>2, <1>0, Product
    <3>5. e * G < b * P
      <4>1. e * G + i * G + G = b * G
        BY <3>2, <1>0
      <4>2. b * G = b * P + b * I
        OBVIOUS
      <4>3. e * G \in Nat /\ i * G \in Nat /\ b * P \in Nat /\ b * I \in Nat
        BY <3>2, <1>0, Product
      <4> QED
        BY <4>1, <4>2, <4>3, <1>0
    <3>6. (e * G) * n < (b * P) * n
      <4> DEFINE u == e * G
                 v == b * P
      <4>1. u \in Nat /\ v \in Nat /\ u + 1 <= v
        BY <3>2, <3>5, <1>0, Product
      <4> HIDE DEF u, v
      <4>2. (u + 1) * n <= v * n
        BY <4>1, Product
      <4>3. (u + 1) * n = u * n + n
        BY <4>1
      <4>4. u * n \in Nat /\ v * n \in Nat
        BY <4>1, Product
      <4>5. u * n < v * n
        BY <4>2, <4>3, <4>4
      <4> QED
        BY <4>5 DEF u, v
    <3>7. (b * n) * P <= G * P
      BY <1>0, Product
    <3>8. (e * n) * G = (e * G) * n /\ (b * n) * P = (b * P) * n /\ G * P = P * G
      BY <3>2, <1>0
    <3>9. (e * G) * n \in Nat /\ (b * P) * n \in Nat /\ P * G \in Nat
      BY <3>2, <1>0, Product
    <3> QED
      BY <3>4, <3>6, <3>7, <3>8, <3>9
  <2>2. d * (n - 1) = d * n - d
    BY <2>0
  <2>3. CASE d >= n
    BY <2>0, <2>1, <2>2, <2>3, Product
  <2>4. CASE d < n
    <3>1. d * n <= n * n
      BY <2>0, <2>4, Product
    <3>2. d * n \in Nat /\ n * n \in Nat
      BY <2>0, Product
    <3> QED
      BY <3>1, <3>2, <2>0, <2>2, <1>6
  <2> QED
    BY <2>0, <2>3, <2>4
<1> QED
  BY <1>1, <1>3, <1>4, <1>5, <1>6

\* The bound from which every instalment of a loan is a positive amount: a loan of
\* n months is of at least n * n cents (for the longest the API accepts, 120 months,
\* of 144 rupees).
AmpleLoans == \A l \in Loans : Terms[l].principal >= Terms[l].tenure * Terms[l].tenure

\* The quotients that the schedule is made of are what Shares asks for.
LEMMA Schedule ==
  ASSUME NEW l \in Loans
  PROVE  /\ Terms[l].principal \in Nat \ {0} /\ Terms[l].tenure \in Nat \ {0}
         /\ Interest(l) \in Nat
         /\ BaseEmi(l) \in Nat /\ BaseInterest(l) \in Nat
         /\ BaseInterest(l) <= BaseEmi(l)
         /\ BaseInterest(l) * (Terms[l].tenure - 1) <= Interest(l)
         /\ (Terms[l].principal - (BaseEmi(l) - BaseInterest(l)) * (Terms[l].tenure - 1))
              + (Interest(l) - BaseInterest(l) * (Terms[l].tenure - 1)) > 0
         /\ Terms[l].principal >= Terms[l].tenure * Terms[l].tenure =>
              /\ BaseEmi(l) > 0
              /\ (BaseEmi(l) - BaseInterest(l)) * (Terms[l].tenure - 1)
                   <= Terms[l].principal
<1> DEFINE P == Terms[l].principal
           n == Terms[l].tenure
           rate == Terms[l].rate
<1>1. P \in Nat \ {0} /\ n \in Nat \ {0} /\ rate \in Nat
  <2>1. Terms[l] \in [principal : Nat \ {0}, rate : Rates, tenure : Nat \ {0}]
    BY TermsAssumption
  <2>2. Rates \subseteq Nat
    BY DEF Rates
  <2> QED
    BY <2>1, <2>2
<1>2. Interest(l) \in Nat
  <2>1. P * rate \in Nat
    BY <1>1, Product
  <2>2. P * rate * n \in Nat
    BY <1>1, <2>1, Product
  <2> DEFINE m == P * rate * n
  <2>3. Interest(l) = (m + 60000) \div 120000
    BY DEF Interest
  <2>4. m \in Nat
    BY <2>2
  <2> HIDE DEF m
  <2> QED
    BY <2>3, <2>4
<1> DEFINE I == Interest(l)
           b == BaseEmi(l)
           i == BaseInterest(l)
<1>3. b = (P + I) \div n
  BY DEF BaseEmi, Grand
<1>4. i = (b * I) \div (P + I)
  BY DEF BaseInterest, Grand
<1>5. I \in Nat
  BY <1>2
<1> HIDE DEF P, n, I, b, i
<1>6. P + I \in Nat \ {0}
  BY <1>1, <1>5
<1>7. b \in Nat /\ b * n <= P + I /\ P + I < b * n + n
  BY <1>1, <1>3, <1>6, Division
<1>8. b * I \in Nat
  BY <1>5, <1>7, Product
<1>9. i \in Nat /\ i * (P + I) <= b * I /\ b * I < i * (P + I) + (P + I)
  BY <1>4, <1>6, <1>8, Division
<1>10. /\ i <= b
       /\ i * (n - 1) <= I
       /\ (P - (b - i) * (n - 1)) + (I - i * (n - 1)) > 0
       /\ P >= n * n => b > 0 /\ (b - i) * (n - 1) <= P
  BY <1>1, <1>5, <1>7, <1>9, Shares
<1> QED
  BY <1>1, <1>5, <1>7, <1>9, <1>10 DEF P, n, I, b, i

\* A row is an instalment of one loan, and there are finitely many.
LEMMA RowsAre ==
  /\ \A x \in Rows : x[1] \in Loans /\ x[2] \in Instalments(x[1])
  /\ \A l \in Loans : \A k \in Instalments(l) : <<l, k>> \in Rows
  /\ IsFiniteSet(Rows)
<1>1. \A l \in Loans : Instalments(l) = 1 .. Terms[l].tenure /\ Terms[l].tenure \in Nat
  BY TermsAssumption DEF Instalments
<1>2. ASSUME NEW l \in Loans
      PROVE  IsFiniteSet({l} \X Instalments(l))
  <2>1. IsFiniteSet(Instalments(l))
    <3>1. \A n \in Nat : IsFiniteSet(1 .. n)
      BY FS_Interval
    <3> QED
      BY <3>1, <1>1
  <2>2. IsFiniteSet({l})
    BY FS_Singleton
  <2> QED
    BY <2>1, <2>2, FS_Product
<1>3. \A x \in Rows : x[1] \in Loans /\ x[2] \in Instalments(x[1])
  BY DEF Rows
<1>4. \A l \in Loans : \A k \in Instalments(l) : <<l, k>> \in Rows
  BY DEF Rows
<1>5. IsFiniteSet(Rows)
  <2> DEFINE F == {T \in SUBSET Loans : IsFiniteSet({x \in Rows : x[1] \in T})}
  <2>1. {} \in F
    <3>1. {x \in Rows : x[1] \in {}} = {}
      OBVIOUS
    <3> QED
      BY <3>1, FS_EmptySet
  <2>2. ASSUME NEW T \in F, NEW l \in Loans \ T
        PROVE  T \cup {l} \in F
    <3>1. {x \in Rows : x[1] \in T \cup {l}}
            = {x \in Rows : x[1] \in T} \cup ({l} \X Instalments(l))
      BY DEF Rows
    <3>2. IsFiniteSet({x \in Rows : x[1] \in T})
      BY <2>2
    <3>3. IsFiniteSet({x \in Rows : x[1] \in T} \cup ({l} \X Instalments(l)))
      <4>1. IsFiniteSet({l} \X Instalments(l))
        BY <1>2
      <4> DEFINE A == {x \in Rows : x[1] \in T}
                 B == {l} \X Instalments(l)
      <4>2. IsFiniteSet(A) /\ IsFiniteSet(B)
        BY <3>2, <4>1
      <4> HIDE DEF A, B
      <4>3. IsFiniteSet(A \cup B)
        BY <4>2, FS_Union
      <4> QED
        BY <4>3 DEF A, B
    <3>4. IsFiniteSet({x \in Rows : x[1] \in T \cup {l}})
      BY <3>1, <3>3
    <3> QED
      BY <3>4, <2>2
  <2>3. F \in SUBSET (SUBSET Loans)
    OBVIOUS
  <2> HIDE DEF F
  <2>4. Loans \in F
    BY <2>1, <2>2, <2>3, FiniteAssumption, SumInduction
  <2>5. {x \in Rows : x[1] \in Loans} = Rows
    BY <1>3
  <2> QED
    BY <2>4, <2>5 DEF F
<1> QED
  BY <1>3, <1>4, <1>5

\* The parts of an instalment are numbers, its interest not negative; in an ample loan
\* nor is its principal, and it is something to pay.
LEMMA Parts ==
  ASSUME NEW x \in Rows
  PROVE  /\ Part(x[1], x[2]).principal \in Int
         /\ Part(x[1], x[2]).interest \in Nat
         /\ AmpleLoans =>
              /\ Part(x[1], x[2]).principal \in Nat
              /\ Part(x[1], x[2]).principal + Part(x[1], x[2]).interest > 0
<1> DEFINE l == x[1]
           k == x[2]
<1>1. l \in Loans /\ k \in Instalments(l)
  BY RowsAre
<1> HIDE DEF l, k
<1>2. k \in 1 .. Terms[l].tenure
  BY <1>1 DEF Instalments
<1> DEFINE P == Terms[l].principal
           n == Terms[l].tenure
           b == BaseEmi(l)
           i == BaseInterest(l)
           I == Interest(l)
<1>3. /\ P \in Nat \ {0} /\ n \in Nat \ {0} /\ I \in Nat /\ b \in Nat /\ i \in Nat
      /\ i <= b /\ i * (n - 1) <= I
      /\ (P - (b - i) * (n - 1)) + (I - i * (n - 1)) > 0
      /\ P >= n * n => b > 0 /\ (b - i) * (n - 1) <= P
  BY <1>1, Schedule
<1>4. AmpleLoans => P >= n * n
  BY <1>1 DEF AmpleLoans
<1>5. /\ k < n => Part(l, k) = [principal |-> b - i, interest |-> i]
      /\ ~ (k < n) => Part(l, k) = [principal |-> P - (b - i) * (n - 1),
                                    interest |-> I - i * (n - 1)]
  BY DEF Part, BasePrincipal
<1>6. (b - i) * (n - 1) \in Int /\ i * (n - 1) \in Int
  BY <1>3
<1> HIDE DEF P, n, b, i, I
<1>7. /\ Part(l, k).principal \in Int /\ Part(l, k).interest \in Nat
      /\ AmpleLoans => /\ Part(l, k).principal \in Nat
                       /\ Part(l, k).principal + Part(l, k).interest > 0
  <2>1. CASE k < n
    BY <1>3, <1>4, <1>5, <2>1
  <2>2. CASE ~ (k < n)
    BY <1>3, <1>4, <1>5, <1>6, <2>2
  <2> QED
    BY <2>1, <2>2
<1> QED
  BY <1>7 DEF l, k

\* What instalments come to is a number, adds up over disjoint sets, and for a set of
\* instalments of ample loans is nothing only if the set is empty.
LEMMA Amounts ==
  /\ Principal({}) = 0 /\ InterestOf({}) = 0
  /\ \A S \in SUBSET Rows :
       /\ IsFiniteSet(S)
       /\ Principal(S) \in Int /\ InterestOf(S) \in Nat /\ Deducted(S) \in Int
       /\ AmpleLoans => Principal(S) \in Nat
  /\ \A S, T \in SUBSET Rows : S \cap T = {} =>
       /\ Principal(S \cup T) = Principal(S) + Principal(T)
       /\ InterestOf(S \cup T) = InterestOf(S) + InterestOf(T)
  /\ \A S \in SUBSET Rows : AmpleLoans /\ S # {} => Principal(S) + InterestOf(S) > 0
<1> DEFINE f == [x \in Rows |-> Part(x[1], x[2]).principal]
           g == [x \in Rows |-> Part(x[1], x[2]).interest]
<1>1. \A x \in Rows : f[x] \in Int /\ g[x] \in Nat
  BY Parts
<1>2. \A x \in Rows : AmpleLoans => f[x] \in Nat /\ f[x] + g[x] > 0
  BY Parts
<1>3. \A S : Principal(S) = SumFunctionOnSet(f, S) /\ InterestOf(S) = SumFunctionOnSet(g, S)
  BY DEF Principal, InterestOf
<1> HIDE DEF f, g
<1>4. Principal({}) = 0 /\ InterestOf({}) = 0
  BY <1>3, SumEmpty
<1>5. ASSUME NEW S \in SUBSET Rows
      PROVE  /\ IsFiniteSet(S)
             /\ Principal(S) \in Int /\ InterestOf(S) \in Nat /\ Deducted(S) \in Int
             /\ AmpleLoans => Principal(S) \in Nat
  <2>1. IsFiniteSet(S)
    BY RowsAre, FS_Subset
  <2>2. Principal(S) \in Int
    BY <2>1, <1>1, <1>3, SumType
  <2>3. InterestOf(S) \in Nat
    BY <2>1, <1>1, <1>3, SumNat
  <2>4. ASSUME AmpleLoans PROVE Principal(S) \in Nat
    BY <2>1, <2>4, <1>2, <1>3, SumNat
  <2>5. Deducted(S) \in Int
    BY <2>2, <2>3 DEF Deducted
  <2> QED
    BY <2>1, <2>2, <2>3, <2>4, <2>5
<1>6. ASSUME NEW S \in SUBSET Rows, NEW T \in SUBSET Rows, S \cap T = {}
      PROVE  /\ Principal(S \cup T) = Principal(S) + Principal(T)
             /\ InterestOf(S \cup T) = InterestOf(S) + InterestOf(T)
  <2>1. IsFiniteSet(S) /\ IsFiniteSet(T)
    BY <1>5
  <2>2. \A x \in S \cup T : f[x] \in Int /\ g[x] \in Int
    BY <1>1
  <2>3. SumFunctionOnSet(f, S \cup T) = SumFunctionOnSet(f, S) + SumFunctionOnSet(f, T)
    BY <2>1, <2>2, <1>6, SumUnion
  <2>4. SumFunctionOnSet(g, S \cup T) = SumFunctionOnSet(g, S) + SumFunctionOnSet(g, T)
    BY <2>1, <2>2, <1>6, SumUnion
  <2> QED
    BY <2>3, <2>4, <1>3
<1>7. ASSUME NEW S \in SUBSET Rows, AmpleLoans, S # {}
      PROVE  Principal(S) + InterestOf(S) > 0
  <2>1. PICK x \in S : TRUE
    BY <1>7
  <2>2. x \in Rows
    BY <2>1
  <2> DEFINE T == S \ {x}
  <2>3. T \in SUBSET Rows
    OBVIOUS
  <2>4. IsFiniteSet(S) /\ (\A y \in S : f[y] \in Int /\ g[y] \in Int)
    BY <1>5, <1>1
  <2>5. SumFunctionOnSet(f, S) = f[x] + SumFunctionOnSet(f, T)
    BY <2>4, SumRemove
  <2>6. SumFunctionOnSet(g, S) = g[x] + SumFunctionOnSet(g, T)
    BY <2>4, SumRemove
  <2>7. Principal(T) \in Nat /\ InterestOf(T) \in Nat
    BY <2>3, <1>5, <1>7
  <2> HIDE DEF T
  <2> QED
    BY <2>2, <2>5, <2>6, <2>7, <1>1, <1>2, <1>3, <1>7
<1> QED
  BY <1>4, <1>5, <1>6, <1>7

\* The instalments of a loan come to its principal and its interest.
LEMMA Whole ==
  ASSUME NEW l \in Loans
  PROVE  /\ Principal(OfLoan(Rows, l)) = Terms[l].principal
         /\ InterestOf(OfLoan(Rows, l)) = Interest(l)
         /\ OfLoan(Rows, l) # {}
<1> DEFINE n == Terms[l].tenure
           S == {l} \X (1 .. n - 1)
           last == <<l, n>>
           f == [x \in Rows |-> Part(x[1], x[2]).principal]
           g == [x \in Rows |-> Part(x[1], x[2]).interest]
           b == BaseEmi(l)
           i == BaseInterest(l)
<1>1. n \in Nat \ {0} /\ Interest(l) \in Nat /\ Terms[l].principal \in Nat
      /\ b \in Nat /\ i \in Nat
  BY Schedule
<1>2. last \in Rows /\ S \in SUBSET Rows /\ last \notin S
  BY <1>1 DEF Rows, Instalments
<1>3. OfLoan(Rows, l) = S \cup {last}
  <2>1. 1 .. n = (1 .. n - 1) \cup {n}
    BY <1>1
  <2>2. OfLoan(Rows, l) = {l} \X (1 .. n)
    BY DEF OfLoan, Rows, Instalments
  <2> QED
    BY <2>1, <2>2
<1>4. IsFiniteSet(S) /\ Cardinality(S) = n - 1
  <2>1. IsFiniteSet(1 .. n - 1) /\ Cardinality(1 .. n - 1) = n - 1
    <3>1. n - 1 \in Int /\ ((1 > n - 1) => n - 1 = 0)
      BY <1>1
    <3> DEFINE m == n - 1
    <3> HIDE DEF m
    <3>2. IsFiniteSet(1 .. m) /\ Cardinality(1 .. m) = IF 1 > m THEN 0 ELSE m - 1 + 1
      BY <3>1, FS_Interval DEF m
    <3> QED
      BY <3>1, <3>2 DEF m
  <2>2. IsFiniteSet({l}) /\ Cardinality({l}) = 1
    BY FS_Singleton
  <2>3. IsFiniteSet(S) /\ Cardinality(S) = Cardinality({l}) * Cardinality(1 .. n - 1)
    BY <2>1, <2>2, FS_Product
  <2> QED
    BY <1>1, <2>1, <2>2, <2>3
<1>5. \A x \in S : x[1] = l /\ x[2] \in 1 .. n - 1
  OBVIOUS
<1>6. \A x \in S : f[x] = b - i /\ g[x] = i
  <2>1. \A k \in 1 .. n - 1 : Part(l, k) = [principal |-> b - i, interest |-> i]
    BY <1>1 DEF Part, BasePrincipal
  <2>2. \A x \in S : f[x] = Part(x[1], x[2]).principal /\ g[x] = Part(x[1], x[2]).interest
    BY <1>2
  <2> QED
    BY <1>5, <2>1, <2>2
<1>7. /\ f[last] = Terms[l].principal - (b - i) * (n - 1)
      /\ g[last] = Interest(l) - i * (n - 1)
  <2>1. Part(l, n) = [principal |-> Terms[l].principal - (b - i) * (n - 1),
                      interest |-> Interest(l) - i * (n - 1)]
    BY <1>1 DEF Part, BasePrincipal
  <2>2. f[last] = Part(l, n).principal /\ g[last] = Part(l, n).interest
    BY <1>2
  <2> QED
    BY <2>1, <2>2
<1>8. \A x \in Rows : f[x] \in Int /\ g[x] \in Int
  BY Parts
<1>9. Principal(OfLoan(Rows, l)) = SumFunctionOnSet(f, S \cup {last})
      /\ InterestOf(OfLoan(Rows, l)) = SumFunctionOnSet(g, S \cup {last})
  BY <1>3 DEF Principal, InterestOf
<1> HIDE DEF f, g, S, last, b, i
<1>10. /\ SumFunctionOnSet(f, S) = (b - i) * (n - 1)
       /\ SumFunctionOnSet(g, S) = i * (n - 1)
  <2>1. b - i \in Int /\ i \in Int
    BY <1>1
  <2>2. SumFunctionOnSet(f, S) = (b - i) * Cardinality(S)
    BY <2>1, <1>4, <1>6, SumConstant
  <2>3. SumFunctionOnSet(g, S) = i * Cardinality(S)
    BY <2>1, <1>4, <1>6, SumConstant
  <2> QED
    BY <2>2, <2>3, <1>4
<1>11. SumFunctionOnSet(f, S \cup {last}) = SumFunctionOnSet(f, S) + f[last]
  BY <1>2, <1>4, <1>8, SumAdd
<1>12. SumFunctionOnSet(g, S \cup {last}) = SumFunctionOnSet(g, S) + g[last]
  BY <1>2, <1>4, <1>8, SumAdd
<1>13. (b - i) * (n - 1) \in Int /\ i * (n - 1) \in Int
  BY <1>1
<1>14. OfLoan(Rows, l) # {}
  BY <1>3
<1> QED
  BY <1>1, <1>7, <1>9, <1>10, <1>11, <1>12, <1>13, <1>14

--------------------------------------------------------------------------------
\* Types

\* What a request carries from Begin to its commit.
TxnInv ==
  \A s \in Requests :
    \/ txn[s] = Idle
    \/ /\ txn[s].op = txn[s].does.op
       /\ txn[s].does \in Operations
       /\ txn[s].saw.rows \subseteq Rows
       /\ txn[s].saw.claims \subseteq Claims
       /\ txn[s].saw.owed \in Nat
       /\ txn[s].op = "pay" => run[txn[s].does.on].status \in {"posted", "paid"}

\* A step of a request: which it is.
Steps(s) ==
  \/ Create(s) \/ Post(s) \/ Pay(s) \/ Void(s)
  \/ Approve(s) \/ Disburse(s) \/ Cancel(s) \/ WriteOff(s) \/ VoidClaim(s)

\* The kinds of an operation, and on what each is.
LEMMA Kinds ==
  ASSUME NEW o \in Operations
  PROVE  /\ o.op = "create" => o.on \in Runs /\ o.period \in Periods
         /\ o.op \in {"post", "pay", "void"} => o.on \in Runs
         /\ o.op \in {"approve", "disburse", "cancel", "write off"} => o.on \in Loans
         /\ o.op = "void claim" => o.on \in Claims
         /\ o.op \in {"create", "post", "pay", "void", "approve", "disburse", "cancel",
                      "write off", "void claim"}
BY DEF Operations

\* A request that takes a step, other than Begin, is one that has begun.
LEMMA HasBegun ==
  ASSUME TxnInv, NEW s \in Requests, Steps(s)
  PROVE  /\ txn[s].op = txn[s].does.op
         /\ txn[s].does \in Operations
         /\ txn[s].saw.rows \subseteq Rows
         /\ txn[s].saw.claims \subseteq Claims
         /\ txn[s].saw.owed \in Nat
         /\ txn[s].op = "pay" => run[txn[s].does.on].status \in {"posted", "paid"}
<1>1. Idle.op = "idle"
  BY DEF Idle
<1>2. txn[s].op # "idle"
  BY DEF Steps, Create, Post, Pay, Void, Approve, Disburse, Cancel, WriteOff, VoidClaim, Doing
<1> QED
  BY <1>1, <1>2 DEF TxnInv

\* A step of a request that has begun, by its operation and what it is on.
LEMMA Does ==
  ASSUME TxnInv, NEW s \in Requests
  PROVE  /\ Create(s) => /\ txn[s].does.op = "create" /\ txn[s].does.on \in Runs
                         /\ txn[s].does.period \in Periods
         /\ Post(s) => txn[s].does.op = "post" /\ txn[s].does.on \in Runs
         /\ Pay(s) => txn[s].does.op = "pay" /\ txn[s].does.on \in Runs
         /\ Approve(s) => txn[s].does.op = "approve" /\ txn[s].does.on \in Loans
         /\ Disburse(s) => txn[s].does.op = "disburse" /\ txn[s].does.on \in Loans
         /\ Cancel(s) => txn[s].does.op = "cancel" /\ txn[s].does.on \in Loans
         /\ WriteOff(s) => txn[s].does.op = "write off" /\ txn[s].does.on \in Loans
         /\ VoidClaim(s) => txn[s].does.op = "void claim" /\ txn[s].does.on \in Claims
<1> DEFINE o == txn[s].does
<1>1. Steps(s) => o \in Operations /\ txn[s].op = o.op
  BY HasBegun
<1>2. o \in Operations =>
        /\ o.op = "create" => o.on \in Runs /\ o.period \in Periods
        /\ o.op \in {"post", "pay", "void"} => o.on \in Runs
        /\ o.op \in {"approve", "disburse", "cancel", "write off"} => o.on \in Loans
        /\ o.op = "void claim" => o.on \in Claims
  BY Kinds
<1>3. /\ Create(s) => txn[s].op = "create" /\ Steps(s)
      /\ Post(s) => txn[s].op = "post" /\ Steps(s)
      /\ Pay(s) => txn[s].op = "pay" /\ Steps(s)
      /\ Approve(s) => txn[s].op = "approve" /\ Steps(s)
      /\ Disburse(s) => txn[s].op = "disburse" /\ Steps(s)
      /\ Cancel(s) => txn[s].op = "cancel" /\ Steps(s)
      /\ WriteOff(s) => txn[s].op = "write off" /\ Steps(s)
      /\ VoidClaim(s) => txn[s].op = "void claim" /\ Steps(s)
  BY DEF Create, Post, Pay, Approve, Disburse, Cancel, WriteOff, VoidClaim, Doing, Steps
<1> QED
  BY <1>1, <1>2, <1>3

\* The kinds of step of the specification.
LEMMA NextIs ==
  ASSUME Next
  PROVE  \E s \in Requests : Begin(s) \/ RollBack(s) \/ Steps(s)
BY DEF Next, Steps

\* What a step of Begin or RollBack leaves alone.
LEMMA Waits ==
  ASSUME NEW s \in Requests, Begin(s) \/ RollBack(s) \/ Void(s)
  PROVE  UNCHANGED <<run, loan, row, claim, books, astray>>
BY DEF Begin, RollBack, Void

\* A request that ends leaves the others as they are.
LEMMA Ends ==
  ASSUME NEW s \in Requests, RollBack(s) \/ Steps(s)
  PROVE  txn' = [txn EXCEPT ![s] = Idle]
BY DEF RollBack, Steps, Create, Post, Pay, Void, Approve, Disburse, Cancel, WriteOff,
       VoidClaim, Doing, End

\* What a request starts with is in range.
LEMMA ReadsType ==
  ASSUME TypeOK, NEW o \in Operations, Accepts(o)
  PROVE  /\ Reads(o).rows \subseteq Rows
         /\ Reads(o).claims \subseteq Claims
         /\ Reads(o).owed \in Nat
         /\ o.op = "pay" => run[o.on].status \in {"posted", "paid"}
<1>1. Reads(o).rows \subseteq Rows
  <2>1. CASE o.op = "create"
    BY <2>1 DEF Reads, Due
  <2>2. CASE o.op = "post"
    BY <2>2 DEF Reads, Held
  <2>3. CASE o.op # "create" /\ o.op # "post"
    BY <2>3 DEF Reads
  <2> QED
    BY <2>1, <2>2, <2>3
<1>2. Reads(o).claims \subseteq Claims
  BY DEF Reads, Claimable
<1>3. Reads(o).owed \in Nat
  <2>1. CASE o.op = "write off"
    <3>1. o.on \in Loans
      BY <2>1, Kinds
    <3>2. loan[o.on].principal \in Nat
      BY <3>1 DEF TypeOK
    <3> QED
      BY <2>1, <3>2 DEF Reads
  <2>2. CASE o.op # "write off"
    BY <2>2 DEF Reads
  <2> QED
    BY <2>1, <2>2
<1>4. o.op = "pay" => run[o.on].status \in {"posted", "paid"}
  BY DEF Accepts, CanPay
<1> QED
  BY <1>1, <1>2, <1>3, <1>4

\* A run that has been posted stays posted or paid.
LEMMA StaysPosted ==
  ASSUME TypeOK, TxnInv, NEW s \in Requests, Steps(s), NEW r \in Runs,
         run[r].status \in {"posted", "paid"}
  PROVE  run'[r].status \in {"posted", "paid"}
<1>0. run[r] \in [status : RunStatus, period : Periods \cup {0},
                  rows : SUBSET Rows, claims : SUBSET Claims]
      /\ run \in [Runs -> [status : RunStatus, period : Periods \cup {0},
                  rows : SUBSET Rows, claims : SUBSET Claims]]
  BY DEF TypeOK
<1>1. CASE Create(s)
  <2>1. run[txn[s].does.on].status = "none"
    BY <1>1 DEF Create, RunIndexes
  <2>2. r # txn[s].does.on
    BY <2>1
  <2>3. run'[r] = run[r]
    BY <1>0, <1>1, <2>2 DEF Create
  <2> QED
    BY <2>3
<1>2. CASE Post(s)
  <2>1. run' = [run EXCEPT ![txn[s].does.on].status = "posted"]
    BY <1>2 DEF Post
  <2> QED
    BY <1>0, <2>1
<1>3. CASE Pay(s)
  <2>1. run' = [run EXCEPT ![txn[s].does.on].status = "paid"]
    BY <1>3 DEF Pay
  <2> QED
    BY <1>0, <2>1
<1>4. CASE Void(s) \/ Approve(s) \/ Disburse(s) \/ Cancel(s) \/ WriteOff(s) \/ VoidClaim(s)
  BY <1>4 DEF Void, Approve, Disburse, Cancel, WriteOff, VoidClaim
<1> QED
  BY <1>1, <1>2, <1>3, <1>4 DEF Steps

\* The documents that a late commit leads astray are documents.
LEMMA TouchesType ==
  ASSUME TypeOK, TxnInv, NEW s \in Requests, Steps(s)
  PROVE  Touches(s) \subseteq Runs \cup Loans \cup Claims
<1> DEFINE o == txn[s].does
           rows == IF o.op = "post" THEN Held(o.on) \cup txn[s].saw.rows
                   ELSE txn[s].saw.rows
<1>1. o.on \in Runs \cup Loans \cup Claims
  BY HasBegun, Kinds
<1>2. rows \subseteq Rows
  BY HasBegun DEF Held
<1>3. \A x \in rows : x[1] \in Loans /\ row[x].run \in Runs \cup {Unclaimed}
  BY <1>2, RowsAre DEF TypeOK
<1>4. txn[s].saw.claims \subseteq Claims
  BY HasBegun
<1>5. Touches(s) = ({o.on} \cup {x[1] : x \in rows} \cup {row[x].run : x \in rows}
                     \cup txn[s].saw.claims) \ {Unclaimed}
  BY DEF Touches
<1> HIDE DEF o, rows
<1> QED
  BY <1>1, <1>3, <1>4, <1>5

\* What a run pays out is a number.
LEMMA NetType ==
  ASSUME TypeOK, NEW r \in Runs
  PROVE  Net(r) \in Int /\ Deducted(run[r].rows) \in Int
<1>1. run[r].rows \in SUBSET Rows /\ run[r].claims \in SUBSET Claims
  BY DEF TypeOK
<1>2. Deducted(run[r].rows) \in Int
  BY <1>1, Amounts
<1>3. Cardinality(run[r].claims) \in Nat
  BY <1>1, FiniteAssumption, FS_Subset, FS_CardinalityType
<1>4. Amount * Cardinality(run[r].claims) \in Nat
  BY <1>3, AmountsAssumption, Product
<1>5. Earned(r) \in Nat
  BY <1>4, AmountsAssumption DEF Earned
<1> QED
  BY <1>2, <1>5 DEF Net, AtLeastZero

\* The parts of the type invariant, so that a step is taken one at a time.
RunType ==
  run \in [Runs -> [status : RunStatus, period : Periods \cup {0},
                    rows : SUBSET Rows, claims : SUBSET Claims]]
Headers == [status : LoanStatus, principal : Nat, interest : Nat,
            repaid : Int, earned : Int, written : Nat]
LoanType == loan \in [Loans -> Headers]
RowType ==
  row \in [Rows -> [status : {"none", "pending", "paid", "waived"},
                    run : Runs \cup {Unclaimed}]]
ClaimType ==
  claim \in [Claims -> [status : {"approved", "void"}, run : Runs \cup {Unclaimed}]]
BooksType ==
  books \in [receivable : [Loans -> Int], lent : [Loans -> Nat],
             payable : [Runs -> Int], withheld : [Runs -> Nat]]

\* They are the type invariant, before and after a step.
LEMMA TypeParts ==
  /\ TypeOK <=> /\ RunType /\ LoanType /\ RowType /\ ClaimType /\ BooksType
                /\ astray \subseteq Runs \cup Loans \cup Claims
  /\ RunType' /\ LoanType' /\ RowType' /\ ClaimType' /\ BooksType'
       /\ astray' \subseteq Runs \cup Loans \cup Claims
     => TypeOK'
BY DEF TypeOK, RunType, LoanType, Headers, RowType, ClaimType, BooksType

\* The changes that handlers make to the header of a loan keep its type: a disbursement,
LEMMA HeaderDisbursed ==
  ASSUME NEW h \in Headers, NEW principal \in Nat, NEW interest \in Nat
  PROVE  [h EXCEPT !.status = "disbursed", !.principal = principal,
                   !.interest = interest] \in Headers
BY DEF Headers, LoanStatus

\* a write-off,
LEMMA HeaderWritten ==
  ASSUME NEW h \in Headers, NEW written \in Nat
  PROVE  [h EXCEPT !.status = "written_off", !.written = written,
                   !.principal = 0, !.interest = 0] \in Headers
BY DEF Headers, LoanStatus

\* and the posting of a run.
LEMMA HeaderPosted ==
  ASSUME NEW h \in Headers, NEW status \in LoanStatus, NEW principal \in Nat,
         NEW interest \in Nat, NEW repaid \in Int, NEW earned \in Int
  PROVE  [h EXCEPT !.principal = principal, !.interest = interest, !.repaid = repaid,
                   !.earned = earned, !.status = status] \in Headers
BY DEF Headers

\* The step of each request keeps the marks among the documents.
LEMMA AstrayNext ==
  ASSUME TypeOK, TxnInv, NEW s \in Requests, Steps(s)
  PROVE  astray' \subseteq Runs \cup Loans \cup Claims
<1>1. Touches(s) \subseteq Runs \cup Loans \cup Claims
  BY TouchesType
<1>2. astray \subseteq Runs \cup Loans \cup Claims
  BY DEF TypeOK
<1>3. CASE Marked(s, {})
  BY <1>1, <1>2, <1>3 DEF Marked
<1>4. CASE WriteOff(s)
  <2>1. PICK left \in {{}, {txn[s].does.on}} : Marked(s, left)
    BY <1>4 DEF WriteOff
  <2>2. txn[s].does.on \in Loans
    BY <1>4, Does
  <2> QED
    BY <1>1, <1>2, <2>1, <2>2 DEF Marked
<1>5. CASE Void(s)
  BY <1>2, <1>5 DEF Void
<1> QED
  BY <1>3, <1>4, <1>5
  DEF Steps, Create, Post, Pay, Approve, Disburse, Cancel, VoidClaim

\* A posted run changes the header of a loan within its type.
LEMMA RecoverType ==
  ASSUME TypeOK, NEW l \in Loans, NEW rows \in SUBSET Rows
  PROVE  Recover(l, rows) \in Headers
<1>1. loan[l] \in Headers
  BY TypeParts DEF LoanType
<1>2. Principal(rows) \in Int /\ InterestOf(rows) \in Int
  BY Amounts
<1> DEFINE principal == AtLeastZero(loan[l].principal - Principal(rows))
           interest == AtLeastZero(loan[l].interest - InterestOf(rows))
           status == IF principal = 0 /\ interest = 0 THEN "closed" ELSE loan[l].status
           repaid == loan[l].repaid + Principal(rows)
           earned == loan[l].earned + InterestOf(rows)
<1>3. principal \in Nat /\ interest \in Nat /\ repaid \in Int /\ earned \in Int
  BY <1>1, <1>2 DEF AtLeastZero, Headers
<1>4. status \in LoanStatus
  BY <1>1 DEF LoanStatus, Headers
<1>5. Recover(l, rows) = [loan[l] EXCEPT
        !.principal = principal, !.interest = interest,
        !.repaid = repaid, !.earned = earned, !.status = status]
  BY DEF Recover
<1> HIDE DEF principal, interest, status, repaid, earned
<1>6. [loan[l] EXCEPT !.principal = principal, !.interest = interest,
          !.repaid = repaid, !.earned = earned, !.status = status] \in Headers
  BY <1>1, <1>3, <1>4, HeaderPosted, Zenon
<1> QED
  BY <1>5, <1>6, Zenon

\* Creating a run keeps the types.
LEMMA CreateType ==
  ASSUME TypeOK, TxnInv, NEW s \in Requests, Create(s)
  PROVE  TypeOK'
<1> DEFINE o == txn[s].does
<1>0. Steps(s)
  BY DEF Steps
<1>1. o.on \in Runs /\ o.period \in Periods
  BY Does
<1>2. txn[s].saw.rows \subseteq Rows /\ txn[s].saw.claims \subseteq Claims
  BY <1>0, HasBegun
<1>3. RunType /\ RowType /\ ClaimType
  BY TypeParts
<1>4. RunType'
  <2>1. run' = [run EXCEPT ![o.on] = [status |-> "draft", period |-> o.period,
                             rows |-> txn[s].saw.rows, claims |-> txn[s].saw.claims]]
    BY DEF Create
  <2> HIDE DEF o
  <2> QED
    BY <1>1, <1>2, <1>3, <2>1 DEF RunType, RunStatus
<1>5. RowType'
  <2>1. row' = [x \in Rows |->
                 [row[x] EXCEPT !.run = IF x \in txn[s].saw.rows THEN o.on ELSE @]]
    BY DEF Create
  <2> HIDE DEF o
  <2> QED
    BY <1>1, <1>3, <2>1 DEF RowType
<1>6. ClaimType'
  <2>1. claim' = [c \in Claims |->
                   [claim[c] EXCEPT !.run = IF c \in txn[s].saw.claims THEN o.on ELSE @]]
    BY DEF Create
  <2> HIDE DEF o
  <2> QED
    BY <1>1, <1>3, <2>1 DEF ClaimType
<1>7. UNCHANGED <<loan, books>>
  BY DEF Create
<1>8. LoanType' /\ BooksType'
  BY <1>7, TypeParts DEF LoanType, BooksType
<1>9. astray' \subseteq Runs \cup Loans \cup Claims
  BY <1>0, AstrayNext
<1> QED
  BY <1>4, <1>5, <1>6, <1>8, <1>9, TypeParts

\* What the books are after a post, component by component.
LEMMA PostBooks ==
  ASSUME BooksType, NEW s, Post(s)
  PROVE  LET r == txn[s].does.on
             seen == txn[s].saw.rows
         IN
         books' = [receivable |->
                     [l \in Loans |-> books.receivable[l] - Principal(OfLoan(seen, l))],
                   lent |-> books.lent,
                   payable |-> [books.payable EXCEPT ![r] = @ + Net(r)],
                   withheld |-> [books.withheld EXCEPT
                     ![r] = @ + AtLeastZero(Deducted(run[r].rows) - Deducted(seen))]]
BY DEF BooksType, Post

\* Posting a run keeps the types.
LEMMA PostType ==
  ASSUME TypeOK, TxnInv, NEW s \in Requests, Post(s)
  PROVE  TypeOK'
<1> DEFINE r == txn[s].does.on
           seen == txn[s].saw.rows
           held == IF seen = {} THEN {} ELSE Held(r)
<1>0. Steps(s)
  BY DEF Steps
<1>1. r \in Runs
  BY Does
<1>2. seen \in SUBSET Rows /\ held \in SUBSET Rows
  BY <1>0, HasBegun DEF Held
<1>3. RunType /\ LoanType /\ RowType /\ BooksType
  BY TypeParts
<1>4. RunType'
  <2>1. run' = [run EXCEPT ![r].status = "posted"]
    BY DEF Post
  <2> HIDE DEF r
  <2> QED
    BY <1>1, <1>3, <2>1 DEF RunType, RunStatus
<1>5. RowType'
  <2>1. row' = [x \in Rows |-> [row[x] EXCEPT !.status = IF x \in held THEN "paid" ELSE @]]
    BY DEF Post
  <2> HIDE DEF held
  <2> QED
    BY <1>3, <2>1 DEF RowType
<1>6. LoanType'
  <2>1. loan' = [l \in Loans |->
                  IF OfLoan(held, l) = {} THEN loan[l] ELSE Recover(l, OfLoan(held, l))]
    BY DEF Post
  <2> HIDE DEF held
  <2>2. \A l \in Loans : OfLoan(held, l) \in SUBSET Rows
    BY <1>2 DEF OfLoan
  <2>3. \A l \in Loans : Recover(l, OfLoan(held, l)) \in Headers
    BY <2>2, RecoverType
  <2> QED
    BY <1>3, <2>1, <2>3 DEF LoanType
<1>7. BooksType'
  <2>1. \A l \in Loans : books.receivable[l] - Principal(OfLoan(seen, l)) \in Int
    <3>1. \A l \in Loans : OfLoan(seen, l) \in SUBSET Rows
      BY <1>2 DEF OfLoan
    <3>2. \A l \in Loans : Principal(OfLoan(seen, l)) \in Int
      BY <3>1, Amounts
    <3>3. \A l \in Loans : books.receivable[l] \in Int
      BY <1>3 DEF BooksType
    <3> QED
      BY <3>2, <3>3
  <2>2. Net(r) \in Int /\ Deducted(run[r].rows) \in Int
    BY <1>1, NetType
  <2>3. Deducted(seen) \in Int
    BY <1>2, Amounts
  <2>4. AtLeastZero(Deducted(run[r].rows) - Deducted(seen)) \in Nat
    BY <2>2, <2>3 DEF AtLeastZero
  <2> DEFINE more == AtLeastZero(Deducted(run[r].rows) - Deducted(seen))
             due == [l \in Loans |-> books.receivable[l] - Principal(OfLoan(seen, l))]
             payable == [books.payable EXCEPT ![r] = @ + Net(r)]
             withheld == [books.withheld EXCEPT ![r] = @ + more]
  <2>5. books' = [receivable |-> due, lent |-> books.lent,
                  payable |-> payable, withheld |-> withheld]
    BY <1>3, PostBooks
  <2>6. due \in [Loans -> Int]
    BY <2>1
  <2>7. books.payable \in [Runs -> Int] /\ books.withheld \in [Runs -> Nat]
        /\ books.lent \in [Loans -> Nat]
    BY <1>3 DEF BooksType
  <2>8. more \in Nat
    BY <2>4
  <2> HIDE DEF more, r
  <2>9. payable \in [Runs -> Int] /\ withheld \in [Runs -> Nat]
    BY <1>1, <2>2, <2>7, <2>8
  <2> HIDE DEF due, payable, withheld
  <2> QED
    BY <2>5, <2>6, <2>7, <2>9 DEF BooksType
<1>8. UNCHANGED claim
  BY DEF Post
<1>9. ClaimType'
  BY <1>8, TypeParts DEF ClaimType
<1>10. astray' \subseteq Runs \cup Loans \cup Claims
  BY <1>0, AstrayNext
<1> QED
  BY <1>4, <1>5, <1>6, <1>7, <1>9, <1>10, TypeParts

\* The other operations keep the types.
LEMMA StepType ==
  ASSUME TypeOK, TxnInv, NEW s \in Requests, Steps(s)
  PROVE  TypeOK'
<1> DEFINE d == txn[s].does.on
<1>0. /\ RunType /\ LoanType /\ RowType /\ ClaimType /\ BooksType
      /\ astray \subseteq Runs \cup Loans \cup Claims
  BY TypeParts
<1>1. astray' \subseteq Runs \cup Loans \cup Claims
  BY AstrayNext
<1>2. CASE Create(s)
  BY <1>2, CreateType
<1>3. CASE Post(s)
  BY <1>3, PostType
<1>4. CASE Pay(s)
  <2>1. d \in Runs
    BY <1>4, Does
  <2>2. run' = [run EXCEPT ![d].status = "paid"]
    BY <1>4 DEF Pay
  <2>3. RunType'
    BY <1>0, <2>1, <2>2 DEF RunType, RunStatus
  <2>4. books' = [books EXCEPT !.payable[d] = @ - Net(d)]
    BY <1>4 DEF Pay
  <2>5. BooksType'
    BY <1>0, <2>1, <2>4, NetType DEF BooksType
  <2>6. UNCHANGED <<loan, row, claim>>
    BY <1>4 DEF Pay
  <2>7. LoanType' /\ RowType' /\ ClaimType'
    BY <1>0, <2>6 DEF LoanType, RowType, ClaimType
  <2> QED
    BY <1>1, <2>3, <2>5, <2>7, TypeParts
<1>5. CASE Void(s)
  <2>1. UNCHANGED <<run, loan, row, claim, books, astray>>
    BY <1>5 DEF Void
  <2> QED
    BY <2>1 DEF TypeOK
<1>6. CASE Approve(s) \/ Cancel(s)
  <2>1. d \in Loans
    BY <1>6, Does
  <2>2. loan' = [loan EXCEPT ![d].status = "approved"]
        \/ loan' = [loan EXCEPT ![d].status = "cancelled"]
    BY <1>6 DEF Approve, Cancel
  <2>3. LoanType'
    BY <1>0, <2>1, <2>2 DEF LoanType, Headers, LoanStatus
  <2>4. UNCHANGED <<run, row, claim, books>>
    BY <1>6 DEF Approve, Cancel
  <2>5. RunType' /\ RowType' /\ ClaimType' /\ BooksType'
    BY <1>0, <2>4 DEF RunType, RowType, ClaimType, BooksType
  <2> QED
    BY <1>1, <2>3, <2>5, TypeParts
<1>7. CASE Disburse(s)
  <2>1. d \in Loans
    BY <1>7, Does
  <2>2. Terms[d].principal \in Nat /\ Interest(d) \in Nat
    BY <2>1, Schedule
  <2>3. loan' = [loan EXCEPT ![d].status = "disbursed",
                             ![d].principal = Terms[d].principal,
                             ![d].interest = Interest(d)]
    BY <1>7 DEF Disburse
  <2>4. LoanType'
    <3>1. loan[d] \in Headers
      BY <1>0, <2>1 DEF LoanType
    <3> DEFINE h == [loan[d] EXCEPT !.status = "disbursed",
                                    !.principal = Terms[d].principal,
                                    !.interest = Interest(d)]
    <3>2. h \in Headers
      BY <2>2, <3>1, HeaderDisbursed, Zenon
    <3>3. loan' = [l \in Loans |-> IF l = d THEN h ELSE loan[l]]
      BY <1>0, <2>1, <2>3 DEF LoanType
    <3> HIDE DEF h
    <3> QED
      BY <1>0, <3>2, <3>3 DEF LoanType
  <2>5. row' = [x \in Rows |->
                 [row[x] EXCEPT !.status = IF x[1] = d THEN "pending" ELSE @]]
    BY <1>7 DEF Disburse
  <2>6. RowType'
    BY <1>0, <2>5 DEF RowType
  <2>7. books' = [books EXCEPT !.receivable[d] = @ + Terms[d].principal, !.lent[d] = @ + 1]
    BY <1>7 DEF Disburse
  <2>8. BooksType'
    <3>1. books' = [receivable |-> [books.receivable EXCEPT ![d] = @ + Terms[d].principal],
                    lent |-> [books.lent EXCEPT ![d] = @ + 1],
                    payable |-> books.payable, withheld |-> books.withheld]
      BY <1>0, <2>7 DEF BooksType
    <3> QED
      BY <1>0, <2>1, <2>2, <3>1 DEF BooksType
  <2>9. UNCHANGED <<run, claim>>
    BY <1>7 DEF Disburse
  <2>10. RunType' /\ ClaimType'
    BY <1>0, <2>9 DEF RunType, ClaimType
  <2> QED
    BY <1>1, <2>4, <2>6, <2>8, <2>10, TypeParts
<1>8. CASE WriteOff(s)
  <2> DEFINE waived == {x \in OfLoan(Rows, d) : row[x].status = "pending"}
  <2>1. d \in Loans
    BY <1>8, Does
  <2>2. txn[s].saw.owed \in Nat
    BY HasBegun
  <2>3. loan' = [loan EXCEPT ![d].status = "written_off",
                             ![d].written = txn[s].saw.owed,
                             ![d].principal = 0, ![d].interest = 0]
    BY <1>8 DEF WriteOff
  <2>4. LoanType'
    <3>1. loan[d] \in Headers
      BY <1>0, <2>1 DEF LoanType
    <3> DEFINE h == [loan[d] EXCEPT !.status = "written_off",
                                    !.written = txn[s].saw.owed,
                                    !.principal = 0, !.interest = 0]
    <3>2. h \in Headers
      BY <2>2, <3>1, HeaderWritten, Zenon
    <3>3. loan' = [l \in Loans |-> IF l = d THEN h ELSE loan[l]]
      BY <1>0, <2>1, <2>3 DEF LoanType
    <3> HIDE DEF h
    <3> QED
      BY <1>0, <3>2, <3>3 DEF LoanType
  <2>5. row' = [x \in Rows |->
                 [row[x] EXCEPT !.status = IF x \in waived THEN "waived" ELSE @]]
    BY <1>8 DEF WriteOff
  <2>6. RowType'
    <3> HIDE DEF waived
    <3> QED
      BY <1>0, <2>5 DEF RowType
  <2>7. books' = [books EXCEPT !.receivable[d] = @ - txn[s].saw.owed]
    BY <1>8 DEF WriteOff
  <2>8. BooksType'
    BY <1>0, <2>1, <2>2, <2>7 DEF BooksType
  <2>9. UNCHANGED <<run, claim>>
    BY <1>8 DEF WriteOff
  <2>10. RunType' /\ ClaimType'
    BY <1>0, <2>9 DEF RunType, ClaimType
  <2> QED
    BY <1>1, <2>4, <2>6, <2>8, <2>10, TypeParts
<1>9. CASE VoidClaim(s)
  <2>1. claim' = [claim EXCEPT ![d].status = "void"]
    BY <1>9 DEF VoidClaim
  <2>2. ClaimType'
    BY <1>0, <2>1 DEF ClaimType
  <2>3. UNCHANGED <<run, loan, row, books>>
    BY <1>9 DEF VoidClaim
  <2>4. RunType' /\ LoanType' /\ RowType' /\ BooksType'
    BY <1>0, <2>3 DEF RunType, LoanType, RowType, BooksType
  <2> QED
    BY <1>1, <2>2, <2>4, TypeParts
<1> QED
  BY <1>2, <1>3, <1>4, <1>5, <1>6, <1>7, <1>8, <1>9 DEF Steps

\* In the initial state.
LEMMA InitType == Init => TypeOK /\ TxnInv
<1> SUFFICES ASSUME Init PROVE TypeOK /\ TxnInv
  OBVIOUS
<1>1. RunType
  BY DEF Init, RunType, NoRun, RunStatus
<1>2. LoanType
  BY DEF Init, LoanType, Headers, LoanStatus
<1>3. RowType /\ ClaimType
  BY DEF Init, RowType, ClaimType
<1>4. BooksType
  BY DEF Init, BooksType
<1>5. astray \subseteq Runs \cup Loans \cup Claims
  BY DEF Init
<1>6. TxnInv
  BY DEF Init, TxnInv
<1> QED
  BY <1>1, <1>2, <1>3, <1>4, <1>5, <1>6, TypeParts

\* Types, and what requests carry, are inductive.
LEMMA NextType == TypeOK /\ TxnInv /\ [Next]_vars => TypeOK' /\ TxnInv'
<1> SUFFICES ASSUME TypeOK, TxnInv, [Next]_vars
             PROVE  TypeOK' /\ TxnInv'
  OBVIOUS
<1>1. CASE UNCHANGED vars
  BY <1>1 DEF TypeOK, TxnInv, vars
<1>2. ASSUME NEW s \in Requests, Begin(s)
      PROVE  TypeOK' /\ TxnInv'
  <2>1. UNCHANGED <<run, loan, row, claim, books, astray>>
    BY <1>2, Waits
  <2>2. TypeOK'
    BY <2>1 DEF TypeOK
  <2>3. PICK o \in Operations :
          /\ Accepts(o)
          /\ txn' = [txn EXCEPT ![s] = [op |-> o.op, does |-> o, saw |-> Reads(o)]]
    BY <1>2 DEF Begin
  <2>4. /\ Reads(o).rows \subseteq Rows
        /\ Reads(o).claims \subseteq Claims
        /\ Reads(o).owed \in Nat
        /\ o.op = "pay" => run[o.on].status \in {"posted", "paid"}
    BY <2>3, ReadsType
  <2> DEFINE v == Reads(o)
  <2> HIDE DEF v
  <2>5. TxnInv'
    BY <2>1, <2>3, <2>4 DEF TxnInv, v
  <2> QED
    BY <2>2, <2>5
<1>3. ASSUME NEW s \in Requests, RollBack(s)
      PROVE  TypeOK' /\ TxnInv'
  <2>1. UNCHANGED <<run, loan, row, claim, books, astray>>
    BY <1>3, Waits
  <2>2. txn' = [txn EXCEPT ![s] = Idle]
    BY <1>3, Ends
  <2> QED
    BY <2>1, <2>2 DEF TypeOK, TxnInv
<1>4. ASSUME NEW s \in Requests, Steps(s)
      PROVE  TypeOK' /\ TxnInv'
  <2>1. txn' = [txn EXCEPT ![s] = Idle]
    BY <1>4, Ends
  <2>2. TypeOK'
    BY <1>4, StepType
  <2>3. ASSUME NEW q \in Requests, txn'[q] # Idle
        PROVE  /\ txn'[q].op = txn'[q].does.op
               /\ txn'[q].does \in Operations
               /\ txn'[q].saw.rows \subseteq Rows
               /\ txn'[q].saw.claims \subseteq Claims
               /\ txn'[q].saw.owed \in Nat
               /\ txn'[q].op = "pay" => run'[txn'[q].does.on].status \in {"posted", "paid"}
    <3>1. txn'[q] = txn[q] /\ txn[q] # Idle
      BY <2>1, <2>3
    <3>2. /\ txn[q].op = txn[q].does.op
          /\ txn[q].does \in Operations
          /\ txn[q].saw.rows \subseteq Rows
          /\ txn[q].saw.claims \subseteq Claims
          /\ txn[q].saw.owed \in Nat
          /\ txn[q].op = "pay" => run[txn[q].does.on].status \in {"posted", "paid"}
      BY <3>1 DEF TxnInv
    <3>3. txn[q].op = "pay" => run'[txn[q].does.on].status \in {"posted", "paid"}
      BY <1>4, <3>2, Kinds, StaysPosted
    <3> QED
      BY <3>1, <3>2, <3>3
  <2>4. TxnInv'
    BY <2>3 DEF TxnInv
  <2> QED
    BY <2>2, <2>4
<1> QED
  BY <1>1, <1>2, <1>3, <1>4, NextIs

\* All constants and any number of requests: every variable keeps its type, and no
\* balance of a loan becomes negative (postPayrollRunCore clamps it at zero).
THEOREM TypeCorrect == Spec => []TypeOK
<1>1. Init => TypeOK /\ TxnInv
  BY InitType
<1>2. TypeOK /\ TxnInv /\ [Next]_vars => (TypeOK /\ TxnInv)'
  BY NextType
<1> QED
  BY <1>1, <1>2, PTL DEF Spec

--------------------------------------------------------------------------------
\* What each step changes

\* Create takes an unused run of an unused month, and claims what it read.
LEMMA CreateDoes ==
  ASSUME TypeOK, TxnInv, NEW s \in Requests, Create(s)
  PROVE  LET r == txn[s].does.on
             p == txn[s].does.period
             saw == txn[s].saw
         IN
         /\ r \in Runs /\ p \in Periods /\ saw.rows \subseteq Rows
         /\ run[r].status = "none" /\ (\A q \in Runs : run[q].period # p)
         /\ run'[r] = [status |-> "draft", period |-> p,
                       rows |-> saw.rows, claims |-> saw.claims]
         /\ \A q \in Runs : q # r => run'[q] = run[q]
         /\ \A x \in Rows : /\ row'[x].status = row[x].status
                            /\ row'[x].run = IF x \in saw.rows THEN r ELSE row[x].run
         /\ \A c \in Claims :
              claim'[c].run = IF c \in saw.claims THEN r ELSE claim[c].run
         /\ UNCHANGED <<loan, books>>
<1> DEFINE r == txn[s].does.on
           p == txn[s].does.period
           saw == txn[s].saw
<1>0. Steps(s)
  BY DEF Steps
<1>1. r \in Runs /\ p \in Periods /\ saw.rows \subseteq Rows
  BY <1>0, Does, HasBegun
<1>2. run[r].status = "none" /\ (\A q \in Runs : run[q].period # p)
  BY DEF Create, RunIndexes, PeriodFree
<1>3. /\ run' = [run EXCEPT ![r] = [status |-> "draft", period |-> p,
                                   rows |-> saw.rows, claims |-> saw.claims]]
      /\ row' = [x \in Rows |->
                  [row[x] EXCEPT !.run = IF x \in saw.rows THEN r ELSE @]]
      /\ claim' = [c \in Claims |->
                    [claim[c] EXCEPT !.run = IF c \in saw.claims THEN r ELSE @]]
      /\ UNCHANGED <<loan, books>>
  BY DEF Create
<1>4. RunType /\ RowType /\ ClaimType
  BY TypeParts
<1> HIDE DEF r, p, saw
<1>5. /\ run'[r] = [status |-> "draft", period |-> p,
                    rows |-> saw.rows, claims |-> saw.claims]
      /\ \A q \in Runs : q # r => run'[q] = run[q]
  BY <1>1, <1>3, <1>4 DEF RunType
<1>6. \A x \in Rows : /\ row'[x].status = row[x].status
                      /\ row'[x].run = IF x \in saw.rows THEN r ELSE row[x].run
  BY <1>3, <1>4 DEF RowType
<1>7. \A c \in Claims : claim'[c].run = IF c \in saw.claims THEN r ELSE claim[c].run
  BY <1>3, <1>4 DEF ClaimType
<1> QED
  BY <1>1, <1>2, <1>3, <1>5, <1>6, <1>7 DEF r, p, saw

\* Post and Pay change the status of one run; Post also the rows that the run holds.
LEMMA PostDoes ==
  ASSUME TypeOK, TxnInv, NEW s \in Requests, Post(s)
  PROVE  LET r == txn[s].does.on
             seen == txn[s].saw.rows
             held == IF seen = {} THEN {} ELSE Held(r)
         IN
         /\ r \in Runs /\ seen \subseteq Rows
         /\ run'[r] = [run[r] EXCEPT !.status = "posted"]
         /\ \A q \in Runs : q # r => run'[q] = run[q]
         /\ \A x \in Rows : /\ row'[x].status = IF x \in held THEN "paid" ELSE row[x].status
                            /\ row'[x].run = row[x].run
         /\ \A l \in Loans :
              /\ loan'[l] = IF OfLoan(held, l) = {} THEN loan[l]
                            ELSE Recover(l, OfLoan(held, l))
              /\ books'.receivable[l] = books.receivable[l] - Principal(OfLoan(seen, l))
         /\ \A q \in Runs :
              /\ books'.payable[q] = books.payable[q] + (IF q = r THEN Net(r) ELSE 0)
              /\ books'.withheld[q] = books.withheld[q]
                   + (IF q = r THEN AtLeastZero(Deducted(run[r].rows) - Deducted(seen)) ELSE 0)
         /\ books'.lent = books.lent
         /\ UNCHANGED claim
<1> DEFINE r == txn[s].does.on
           seen == txn[s].saw.rows
           held == IF seen = {} THEN {} ELSE Held(r)
           more == AtLeastZero(Deducted(run[r].rows) - Deducted(seen))
<1>0. Steps(s)
  BY DEF Steps
<1>1. r \in Runs /\ seen \subseteq Rows
  BY <1>0, Does, HasBegun
<1>2. RunType /\ RowType /\ BooksType
  BY TypeParts
<1>3. /\ run' = [run EXCEPT ![r].status = "posted"]
      /\ row' = [x \in Rows |->
                  [row[x] EXCEPT !.status = IF x \in held THEN "paid" ELSE @]]
      /\ loan' = [l \in Loans |->
                   IF OfLoan(held, l) = {} THEN loan[l] ELSE Recover(l, OfLoan(held, l))]
      /\ UNCHANGED claim
  BY DEF Post
<1>4. books' = [receivable |->
                 [l \in Loans |-> books.receivable[l] - Principal(OfLoan(seen, l))],
                lent |-> books.lent,
                payable |-> [books.payable EXCEPT ![r] = @ + Net(r)],
                withheld |-> [books.withheld EXCEPT ![r] = @ + more]]
  BY <1>2, PostBooks
<1>5. more \in Nat
  <2>1. Deducted(run[r].rows) \in Int /\ Deducted(seen) \in Int
    BY <1>1, NetType, Amounts
  <2> QED
    BY <2>1 DEF AtLeastZero
<1> HIDE DEF r, seen, held, more
<1>6. /\ run'[r] = [run[r] EXCEPT !.status = "posted"]
      /\ \A q \in Runs : q # r => run'[q] = run[q]
  BY <1>1, <1>2, <1>3 DEF RunType
<1>7. \A x \in Rows : /\ row'[x].status = IF x \in held THEN "paid" ELSE row[x].status
                      /\ row'[x].run = row[x].run
  BY <1>2, <1>3 DEF RowType
<1>8. \A l \in Loans :
        loan'[l] = IF OfLoan(held, l) = {} THEN loan[l] ELSE Recover(l, OfLoan(held, l))
  BY <1>3
<1>9. \A l \in Loans :
        books'.receivable[l] = books.receivable[l] - Principal(OfLoan(seen, l))
  BY <1>4
<1>10. books.payable \in [Runs -> Int] /\ books.withheld \in [Runs -> Nat]
  BY <1>2 DEF BooksType
<1>11. \A q \in Runs :
         /\ books'.payable[q] = books.payable[q] + (IF q = r THEN Net(r) ELSE 0)
         /\ books'.withheld[q] = books.withheld[q] + (IF q = r THEN more ELSE 0)
  BY <1>1, <1>4, <1>5, <1>10
<1>12. books'.lent = books.lent
  BY <1>4
<1> QED
  BY <1>1, <1>3, <1>6, <1>7, <1>8, <1>9, <1>11, <1>12 DEF r, seen, held, more

\* What paying a run changes.
LEMMA PayDoes ==
  ASSUME TypeOK, TxnInv, NEW s \in Requests, Pay(s)
  PROVE  LET r == txn[s].does.on IN
         /\ r \in Runs /\ run[r].status \in {"posted", "paid"}
         /\ run'[r] = [run[r] EXCEPT !.status = "paid"]
         /\ \A q \in Runs : q # r => run'[q] = run[q]
         /\ \A q \in Runs :
              books'.payable[q] = books.payable[q] - (IF q = r THEN Net(r) ELSE 0)
         /\ books'.withheld = books.withheld
         /\ books'.receivable = books.receivable
         /\ books'.lent = books.lent
         /\ UNCHANGED <<loan, row, claim>>
<1> DEFINE r == txn[s].does.on
<1>0. Steps(s)
  BY DEF Steps
<1>1. r \in Runs /\ txn[s].op = "pay"
  BY Does DEF Pay, Doing
<1>2. run[r].status \in {"posted", "paid"}
  BY <1>0, <1>1, HasBegun
<1>3. RunType /\ BooksType
  BY TypeParts
<1>4. /\ run' = [run EXCEPT ![r].status = "paid"]
      /\ books' = [books EXCEPT !.payable[r] = @ - Net(r)]
      /\ UNCHANGED <<loan, row, claim>>
  BY DEF Pay
<1> HIDE DEF r
<1>5. /\ run'[r] = [run[r] EXCEPT !.status = "paid"]
      /\ \A q \in Runs : q # r => run'[q] = run[q]
  BY <1>1, <1>3, <1>4 DEF RunType
<1>6. /\ books'.payable = [books.payable EXCEPT ![r] = @ - Net(r)]
      /\ books'.withheld = books.withheld
      /\ books'.receivable = books.receivable
      /\ books'.lent = books.lent
  BY <1>3, <1>4 DEF BooksType
<1>7. books.payable \in [Runs -> Int]
  BY <1>3 DEF BooksType
<1>8. \A q \in Runs :
        books'.payable[q] = books.payable[q] - (IF q = r THEN Net(r) ELSE 0)
  BY <1>1, <1>6, <1>7
<1> QED
  BY <1>1, <1>2, <1>4, <1>5, <1>6, <1>8 DEF r

\* The steps on loans and claims: none changes a run, or which run holds a row.
LEMMA DisburseDoes ==
  ASSUME TypeOK, TxnInv, NEW s \in Requests, Disburse(s)
  PROVE  LET l == txn[s].does.on IN
         /\ l \in Loans
         /\ \A x \in OfLoan(Rows, l) : row[x].status = "none"
         /\ loan'[l] = [loan[l] EXCEPT !.status = "disbursed",
                                       !.principal = Terms[l].principal,
                                       !.interest = Interest(l)]
         /\ \A m \in Loans : m # l => loan'[m] = loan[m]
         /\ \A x \in Rows :
              /\ row'[x].status = IF x[1] = l THEN "pending" ELSE row[x].status
              /\ row'[x].run = row[x].run
         /\ \A m \in Loans :
              /\ books'.receivable[m]
                   = books.receivable[m] + (IF m = l THEN Terms[l].principal ELSE 0)
              /\ books'.lent[m] = books.lent[m] + (IF m = l THEN 1 ELSE 0)
         /\ books'.payable = books.payable
         /\ books'.withheld = books.withheld
         /\ UNCHANGED <<run, claim>>
<1> DEFINE l == txn[s].does.on
<1>1. l \in Loans
  BY Does
<1>2. \A x \in OfLoan(Rows, l) : row[x].status = "none"
  BY DEF Disburse, ScheduleIndex
<1>3. LoanType /\ RowType /\ BooksType
  BY TypeParts
<1>4. /\ loan' = [loan EXCEPT ![l].status = "disbursed",
                             ![l].principal = Terms[l].principal,
                             ![l].interest = Interest(l)]
      /\ row' = [x \in Rows |->
                  [row[x] EXCEPT !.status = IF x[1] = l THEN "pending" ELSE @]]
      /\ books' = [books EXCEPT !.receivable[l] = @ + Terms[l].principal,
                               !.lent[l] = @ + 1]
      /\ UNCHANGED <<run, claim>>
  BY DEF Disburse
<1>5. Terms[l].principal \in Nat
  BY <1>1, Schedule
<1> HIDE DEF l
<1>6. /\ loan'[l] = [loan[l] EXCEPT !.status = "disbursed",
                                    !.principal = Terms[l].principal,
                                    !.interest = Interest(l)]
      /\ \A m \in Loans : m # l => loan'[m] = loan[m]
  BY <1>1, <1>3, <1>4 DEF LoanType
<1>7. \A x \in Rows : /\ row'[x].status = IF x[1] = l THEN "pending" ELSE row[x].status
                      /\ row'[x].run = row[x].run
  BY <1>3, <1>4 DEF RowType
<1>8. books' = [receivable |-> [books.receivable EXCEPT ![l] = @ + Terms[l].principal],
                lent |-> [books.lent EXCEPT ![l] = @ + 1],
                payable |-> books.payable, withheld |-> books.withheld]
  BY <1>3, <1>4 DEF BooksType
<1>9. books.receivable \in [Loans -> Int] /\ books.lent \in [Loans -> Nat]
  BY <1>3 DEF BooksType
<1>10. \A m \in Loans :
         /\ books'.receivable[m]
              = books.receivable[m] + (IF m = l THEN Terms[l].principal ELSE 0)
         /\ books'.lent[m] = books.lent[m] + (IF m = l THEN 1 ELSE 0)
  BY <1>1, <1>5, <1>8, <1>9
<1>11. books'.payable = books.payable /\ books'.withheld = books.withheld
  BY <1>8
<1> QED
  BY <1>1, <1>2, <1>4, <1>6, <1>7, <1>10, <1>11 DEF l

\* What writing off a loan changes.
LEMMA WriteOffDoes ==
  ASSUME TypeOK, TxnInv, NEW s \in Requests, WriteOff(s)
  PROVE  LET l == txn[s].does.on IN
         /\ l \in Loans /\ txn[s].saw.owed \in Nat
         /\ loan'[l] = [loan[l] EXCEPT !.status = "written_off",
                                       !.written = txn[s].saw.owed,
                                       !.principal = 0, !.interest = 0]
         /\ \A m \in Loans : m # l => loan'[m] = loan[m]
         /\ \A x \in Rows :
              /\ row'[x].status = IF x[1] = l /\ row[x].status = "pending"
                                  THEN "waived" ELSE row[x].status
              /\ row'[x].run = row[x].run
              /\ x[1] = l /\ row[x].status = "pending" /\ row[x].run # Unclaimed
                   => l \in astray'
         /\ \A m \in Loans : books'.receivable[m]
              = books.receivable[m] - (IF m = l THEN txn[s].saw.owed ELSE 0)
         /\ books'.payable = books.payable
         /\ books'.withheld = books.withheld
         /\ books'.lent = books.lent
         /\ UNCHANGED <<run, claim>>
<1> DEFINE l == txn[s].does.on
           owed == txn[s].saw.owed
           waived == {x \in OfLoan(Rows, l) : row[x].status = "pending"}
<1>0. Steps(s)
  BY DEF Steps
<1>1. l \in Loans /\ owed \in Nat
  BY <1>0, Does, HasBegun
<1>2. LoanType /\ RowType /\ BooksType
  BY TypeParts
<1>3. /\ loan' = [loan EXCEPT ![l].status = "written_off", ![l].written = owed,
                             ![l].principal = 0, ![l].interest = 0]
      /\ row' = [x \in Rows |->
                  [row[x] EXCEPT !.status = IF x \in waived THEN "waived" ELSE @]]
      /\ books' = [books EXCEPT !.receivable[l] = @ - owed]
      /\ Marked(s, IF \E x \in waived : row[x].run # Unclaimed THEN {l} ELSE {})
      /\ UNCHANGED <<run, claim>>
  BY DEF WriteOff
<1>4. \A x \in Rows : x \in waived <=> x[1] = l /\ row[x].status = "pending"
  BY DEF OfLoan
<1>5. waived \subseteq Rows
  BY DEF OfLoan
<1> HIDE DEF l, owed, waived
<1>6. /\ loan'[l] = [loan[l] EXCEPT !.status = "written_off", !.written = owed,
                                    !.principal = 0, !.interest = 0]
      /\ \A m \in Loans : m # l => loan'[m] = loan[m]
  BY <1>1, <1>2, <1>3 DEF LoanType
<1>7. \A x \in Rows : /\ row'[x].status = IF x \in waived THEN "waived" ELSE row[x].status
                      /\ row'[x].run = row[x].run
  BY <1>2, <1>3 DEF RowType
<1>8. \A x \in waived : row[x].run # Unclaimed => l \in astray'
  BY <1>3 DEF Marked
<1>9. /\ books'.receivable = [books.receivable EXCEPT ![l] = @ - owed]
      /\ books'.payable = books.payable
      /\ books'.withheld = books.withheld
      /\ books'.lent = books.lent
  BY <1>2, <1>3 DEF BooksType
<1>10. books.receivable \in [Loans -> Int]
  BY <1>2 DEF BooksType
<1>11. \A m \in Loans : books'.receivable[m]
         = books.receivable[m] - (IF m = l THEN owed ELSE 0)
  BY <1>1, <1>9, <1>10
<1>12. \A x \in Rows :
         /\ row'[x].status = IF x[1] = l /\ row[x].status = "pending"
                             THEN "waived" ELSE row[x].status
         /\ row'[x].run = row[x].run
         /\ x[1] = l /\ row[x].status = "pending" /\ row[x].run # Unclaimed
              => l \in astray'
  BY <1>4, <1>7, <1>8
<1> QED
  BY <1>1, <1>3, <1>6, <1>9, <1>11, <1>12 DEF l, owed

\* What approving or cancelling a loan changes.
LEMMA DecideDoes ==
  ASSUME TypeOK, TxnInv, NEW s \in Requests, Approve(s) \/ Cancel(s)
  PROVE  LET l == txn[s].does.on IN
         /\ l \in Loans
         /\ \/ Approve(s) /\ loan'[l] = [loan[l] EXCEPT !.status = "approved"]
            \/ Cancel(s) /\ loan'[l] = [loan[l] EXCEPT !.status = "cancelled"]
         /\ \A m \in Loans : m # l => loan'[m] = loan[m]
         /\ UNCHANGED <<run, row, claim, books>>
<1> DEFINE l == txn[s].does.on
<1>1. l \in Loans
  BY Does
<1>2. LoanType
  BY TypeParts
<1>3. \/ Approve(s) /\ loan' = [loan EXCEPT ![l].status = "approved"]
      \/ Cancel(s) /\ loan' = [loan EXCEPT ![l].status = "cancelled"]
  BY DEF Approve, Cancel
<1>4. UNCHANGED <<run, row, claim, books>>
  BY DEF Approve, Cancel
<1> HIDE DEF l
<1>5. \/ Approve(s) /\ loan'[l] = [loan[l] EXCEPT !.status = "approved"]
      \/ Cancel(s) /\ loan'[l] = [loan[l] EXCEPT !.status = "cancelled"]
  BY <1>1, <1>2, <1>3 DEF LoanType
<1>6. \A m \in Loans : m # l => loan'[m] = loan[m]
  BY <1>1, <1>2, <1>3 DEF LoanType
<1> QED
  BY <1>1, <1>4, <1>5, <1>6 DEF l

\* What voiding an expense claim changes.
LEMMA VoidClaimDoes ==
  ASSUME TypeOK, TxnInv, NEW s \in Requests, VoidClaim(s)
  PROVE  /\ \A c \in Claims : claim'[c].run = claim[c].run
         /\ UNCHANGED <<run, loan, row, books>>
<1> DEFINE c == txn[s].does.on
<1>1. c \in Claims
  BY Does
<1>2. ClaimType
  BY TypeParts
<1>3. claim' = [claim EXCEPT ![c].status = "void"] /\ UNCHANGED <<run, loan, row, books>>
  BY DEF VoidClaim
<1> HIDE DEF c
<1>4. \A d \in Claims : claim'[d].run = claim[d].run
  BY <1>1, <1>2, <1>3 DEF ClaimType
<1> QED
  BY <1>3, <1>4

\* A request either goes ahead with what it would read now, or marks its documents;
\* marks are not taken back.
LEMMA Marks ==
  ASSUME NEW s \in Requests, Steps(s)
  PROVE  /\ astray \subseteq astray'
         /\ \/ Void(s)
            \/ Accepts(txn[s].does) /\ Reads(txn[s].does) = txn[s].saw
            \/ Touches(s) \subseteq astray'
<1>1. CASE Void(s)
  BY <1>1 DEF Void
<1>2. ASSUME NEW left, Marked(s, left)
      PROVE  /\ astray \subseteq astray'
             /\ \/ Accepts(txn[s].does) /\ Reads(txn[s].does) = txn[s].saw
                \/ Touches(s) \subseteq astray'
  BY <1>2 DEF Marked, Stale
<1>3. Void(s) \/ \E left : Marked(s, left)
  BY DEF Steps, Create, Post, Pay, Approve, Disburse, Cancel, WriteOff, VoidClaim
<1> QED
  BY <1>1, <1>2, <1>3

\* The documents a late request marks.
LEMMA TouchesThem ==
  ASSUME TypeOK, TxnInv, NEW s \in Requests, Steps(s)
  PROVE  /\ txn[s].does.on \in Touches(s)
         /\ \A x \in txn[s].saw.rows :
              /\ x[1] \in Touches(s)
              /\ row[x].run # Unclaimed => row[x].run \in Touches(s)
         /\ txn[s].saw.claims \subseteq Touches(s)
         /\ txn[s].does.op = "post" =>
              \A x \in Held(txn[s].does.on) : x[1] \in Touches(s)
<1> DEFINE o == txn[s].does
           saw == txn[s].saw
           rows == IF o.op = "post" THEN Held(o.on) \cup saw.rows ELSE saw.rows
<1>1. o.on \in Runs \cup Loans \cup Claims
  BY HasBegun, Kinds
<1>2. rows \subseteq Rows /\ saw.claims \subseteq Claims
  BY HasBegun DEF Held
<1>3. \A x \in rows : x[1] \in Loans
  BY <1>2, RowsAre
<1>4. Touches(s) = ({o.on} \cup {x[1] : x \in rows} \cup {row[x].run : x \in rows}
                     \cup saw.claims) \ {Unclaimed}
  BY DEF Touches
<1>5. saw.rows \subseteq rows /\ (o.op = "post" => Held(o.on) \subseteq rows)
  OBVIOUS
<1> HIDE DEF o, saw, rows
<1>6. o.on \in Touches(s)
  BY <1>1, <1>4, NullAssumption
<1>7. \A x \in rows :
        x[1] \in Touches(s) /\ (row[x].run # Unclaimed => row[x].run \in Touches(s))
  BY <1>3, <1>4, NullAssumption
<1>8. saw.claims \subseteq Touches(s)
  BY <1>2, <1>4, NullAssumption
<1> QED
  BY <1>5, <1>6, <1>7, <1>8 DEF o, saw

--------------------------------------------------------------------------------
\* A loan is paid out once

\* Who has been paid out has a schedule, and a schedule is never taken away.
LentInv ==
  \A l \in Loans : \/ books.lent[l] = 0
                   \/ books.lent[l] = 1 /\ row[<<l, 1>>].status # "none"

\* The first instalment of a loan.
LEMMA FirstRow ==
  ASSUME NEW l \in Loans
  PROVE  <<l, 1>> \in Rows /\ <<l, 1>> \in OfLoan(Rows, l)
<1>1. Terms[l].tenure \in Nat \ {0}
  BY Schedule
<1>2. 1 \in Instalments(l)
  BY <1>1 DEF Instalments
<1>3. <<l, 1>> \in Rows
  BY <1>2, RowsAre
<1> QED
  BY <1>3 DEF OfLoan

\* An instalment that there is, or that a run holds, stays so.
LEMMA RowsStay ==
  ASSUME TypeOK, TxnInv, NEW s \in Requests, Steps(s), NEW x \in Rows
  PROVE  /\ row[x].status # "none" => row'[x].status # "none"
         /\ row[x].run # Unclaimed => row'[x].run # Unclaimed
<1>1. CASE Create(s)
  <2> DEFINE r == txn[s].does.on
             rows == txn[s].saw.rows
  <2>1. /\ r \in Runs
        /\ row'[x].status = row[x].status
        /\ row'[x].run = IF x \in rows THEN r ELSE row[x].run
    BY <1>1, CreateDoes
  <2> HIDE DEF r, rows
  <2> QED
    BY <2>1, NullAssumption
<1>2. CASE Post(s)
  BY <1>2, PostDoes
<1>3. CASE Disburse(s)
  BY <1>3, DisburseDoes
<1>4. CASE WriteOff(s)
  BY <1>4, WriteOffDoes
<1>5. CASE Pay(s)
  BY <1>5, PayDoes
<1>6. CASE Void(s) \/ Approve(s) \/ Cancel(s) \/ VoidClaim(s)
  <2>1. UNCHANGED row
    BY <1>6 DEF Void, Approve, Cancel, VoidClaim
  <2> QED
    BY <2>1
<1> QED
  BY <1>1, <1>2, <1>3, <1>4, <1>5, <1>6 DEF Steps

\* A step other than a disbursement pays nobody out.
LEMMA LentKept ==
  ASSUME TypeOK, TxnInv, NEW s \in Requests, Steps(s), ~ Disburse(s)
  PROVE  books'.lent = books.lent
<1>1. CASE Post(s)
  BY <1>1, PostDoes
<1>2. CASE Pay(s)
  BY <1>2, PayDoes
<1>3. CASE WriteOff(s)
  BY <1>3, WriteOffDoes
<1>4. CASE Create(s) \/ Void(s) \/ Approve(s) \/ Cancel(s) \/ VoidClaim(s)
  <2>1. UNCHANGED books
    BY <1>4 DEF Create, Void, Approve, Cancel, VoidClaim
  <2> QED
    BY <2>1
<1> QED
  BY <1>1, <1>2, <1>3, <1>4 DEF Steps

\* LentInv is inductive.
LEMMA LentNext ==
  ASSUME TypeOK, TxnInv, LentInv, NEW s \in Requests, Steps(s)
  PROVE  LentInv'
<1>1. ASSUME ~ Disburse(s)
      PROVE  LentInv'
  <2>1. books'.lent = books.lent
    BY <1>1, LentKept
  <2>2. ASSUME NEW l \in Loans, row[<<l, 1>>].status # "none"
        PROVE  row'[<<l, 1>>].status # "none"
    BY <2>2, FirstRow, RowsStay
  <2> QED
    BY <2>1, <2>2 DEF LentInv
<1>2. ASSUME Disburse(s)
      PROVE  LentInv'
  <2> DEFINE l == txn[s].does.on
  <2>1. /\ l \in Loans
        /\ \A x \in OfLoan(Rows, l) : row[x].status = "none"
        /\ \A x \in Rows :
             row'[x].status = IF x[1] = l THEN "pending" ELSE row[x].status
        /\ \A m \in Loans : books'.lent[m] = books.lent[m] + (IF m = l THEN 1 ELSE 0)
    BY <1>2, DisburseDoes
  <2> HIDE DEF l
  <2>2. \A m \in Loans : books.lent[m] \in Nat
    BY DEF TypeOK
  <2>3. books'.lent[l] = 1 /\ row'[<<l, 1>>].status # "none"
    <3>1. row[<<l, 1>>].status = "none"
      BY <2>1, FirstRow
    <3>2. books.lent[l] = 0
      BY <2>1, <3>1 DEF LentInv
    <3>3. row'[<<l, 1>>].status = "pending"
      BY <2>1, FirstRow
    <3> QED
      BY <2>1, <3>2, <3>3
  <2>4. ASSUME NEW m \in Loans, m # l
        PROVE  \/ books'.lent[m] = 0
               \/ books'.lent[m] = 1 /\ row'[<<m, 1>>].status # "none"
    <3>1. books'.lent[m] = books.lent[m]
      BY <2>1, <2>2, <2>4
    <3>2. row'[<<m, 1>>].status = row[<<m, 1>>].status
      BY <2>1, <2>4, FirstRow
    <3> QED
      BY <3>1, <3>2 DEF LentInv
  <2> QED
    BY <2>3, <2>4 DEF LentInv
<1> QED
  BY <1>1, <1>2

--------------------------------------------------------------------------------
\* Nothing is deducted or reimbursed twice

\* What a run holds is marked as held.
TakenInv ==
  /\ TakenOnce
  /\ \A r \in Runs :
       /\ \A x \in run[r].rows : row[x].run # Unclaimed
       /\ \A c \in run[r].claims : claim[c].run # Unclaimed

\* A step other than Create keeps the month of a run, and what it holds.
LEMMA RunsKept ==
  ASSUME TypeOK, TxnInv, NEW s \in Requests, Steps(s), ~ Create(s)
  PROVE  /\ \A r \in Runs : /\ run'[r].period = run[r].period
                            /\ run'[r].rows = run[r].rows
                            /\ run'[r].claims = run[r].claims
         /\ \A x \in Rows : row'[x].run = row[x].run
         /\ \A c \in Claims : claim'[c].run = claim[c].run
<1>0. \A r \in Runs : run[r] \in [status : RunStatus, period : Periods \cup {0},
                                 rows : SUBSET Rows, claims : SUBSET Claims]
  BY DEF TypeOK
<1>1. CASE Post(s)
  <2> DEFINE r == txn[s].does.on
  <2>1. /\ r \in Runs /\ run'[r] = [run[r] EXCEPT !.status = "posted"]
        /\ \A q \in Runs : q # r => run'[q] = run[q]
        /\ \A x \in Rows : row'[x].run = row[x].run
        /\ UNCHANGED claim
    BY <1>1, PostDoes
  <2> HIDE DEF r
  <2> QED
    BY <1>0, <2>1
<1>2. CASE Pay(s)
  <2> DEFINE r == txn[s].does.on
  <2>1. /\ r \in Runs /\ run'[r] = [run[r] EXCEPT !.status = "paid"]
        /\ \A q \in Runs : q # r => run'[q] = run[q]
        /\ UNCHANGED <<row, claim>>
    BY <1>2, PayDoes
  <2> HIDE DEF r
  <2> QED
    BY <1>0, <2>1
<1>3. CASE Disburse(s)
  BY <1>3, DisburseDoes
<1>4. CASE WriteOff(s)
  BY <1>4, WriteOffDoes
<1>5. CASE VoidClaim(s)
  BY <1>5, VoidClaimDoes
<1>6. CASE Void(s) \/ Approve(s) \/ Cancel(s)
  <2>1. UNCHANGED <<run, row, claim>>
    BY <1>6 DEF Void, Approve, Cancel
  <2> QED
    BY <2>1
<1> QED
  BY <1>1, <1>2, <1>3, <1>4, <1>5, <1>6 DEF Steps

\* TakenInv is inductive.
LEMMA TakenNext ==
  ASSUME TypeOK, TxnInv, TakenInv, NEW s \in Requests, Steps(s)
  PROVE  TakenInv'
<1>0. /\ \A r \in Runs : run[r].rows \subseteq Rows /\ run[r].claims \subseteq Claims
      /\ astray \subseteq astray'
  BY Marks DEF TypeOK
<1>1. ASSUME ~ Create(s)
      PROVE  TakenInv'
  <2>1. /\ \A r \in Runs : /\ run'[r].period = run[r].period
                           /\ run'[r].rows = run[r].rows
                           /\ run'[r].claims = run[r].claims
        /\ \A x \in Rows : row'[x].run = row[x].run
        /\ \A c \in Claims : claim'[c].run = claim[c].run
    BY <1>1, RunsKept
  <2> QED
    BY <1>0, <2>1 DEF TakenInv, TakenOnce
<1>2. ASSUME Create(s)
      PROVE  TakenInv'
  <2> DEFINE r == txn[s].does.on
             p == txn[s].does.period
             rows == txn[s].saw.rows
             claims == txn[s].saw.claims
  <2>1. /\ r \in Runs /\ rows \subseteq Rows
        /\ \A q \in Runs : run[q].period # p
        /\ run'[r] = [status |-> "draft", period |-> p, rows |-> rows, claims |-> claims]
        /\ \A q \in Runs : q # r => run'[q] = run[q]
        /\ \A x \in Rows : row'[x].run = IF x \in rows THEN r ELSE row[x].run
        /\ \A c \in Claims : claim'[c].run = IF c \in claims THEN r ELSE claim[c].run
    BY <1>2, CreateDoes
  <2>2. claims \subseteq Claims
    BY HasBegun
  <2>3. r \notin astray' => /\ \A x \in rows : row[x].run = Unclaimed
                            /\ \A c \in claims : claim[c].run = Unclaimed
    <3>1. SUFFICES ASSUME r \notin astray'
                   PROVE  /\ \A x \in rows : row[x].run = Unclaimed
                          /\ \A c \in claims : claim[c].run = Unclaimed
      OBVIOUS
    <3>2. r \in Touches(s) /\ ~ Void(s) /\ txn[s].does.op = "create"
      BY <1>2, TouchesThem, Does DEF Create, Void, Doing
    <3>3. Reads(txn[s].does) = txn[s].saw
      BY <3>1, <3>2, Marks
    <3>4. rows = Due(p) /\ claims = Claimable
      BY <3>2, <3>3 DEF Reads
    <3> QED
      BY <3>4 DEF Due, Claimable
  <2> HIDE DEF r, p, rows, claims
  <2>4. r # Unclaimed
    BY <2>1, NullAssumption
  <2>5. \A q \in Runs : /\ \A x \in run'[q].rows : row'[x].run # Unclaimed
                        /\ \A c \in run'[q].claims : claim'[c].run # Unclaimed
    <3>1. ASSUME NEW q \in Runs, q # r
          PROVE  /\ \A x \in run'[q].rows : row'[x].run # Unclaimed
                 /\ \A c \in run'[q].claims : claim'[c].run # Unclaimed
      BY <1>0, <2>1, <2>4, <3>1 DEF TakenInv
    <3>2. /\ \A x \in run'[r].rows : row'[x].run # Unclaimed
          /\ \A c \in run'[r].claims : claim'[c].run # Unclaimed
      BY <2>1, <2>2, <2>4
    <3> QED
      BY <3>1, <3>2
  <2>6. ASSUME NEW q \in Runs, q # r
        PROVE  /\ run'[q].period # run'[r].period
               /\ {q, r} \cap astray' = {} =>
                    run'[q].rows \cap run'[r].rows = {}
                    /\ run'[q].claims \cap run'[r].claims = {}
    <3>1. run'[q].period # run'[r].period
      BY <2>1, <2>6
    <3>2. ASSUME r \notin astray'
          PROVE  run'[q].rows \cap run'[r].rows = {}
                 /\ run'[q].claims \cap run'[r].claims = {}
      <4>1. run'[r].rows = rows /\ run'[r].claims = claims /\ run'[q] = run[q]
        BY <2>1, <2>6
      <4>2. /\ \A x \in run[q].rows : row[x].run # Unclaimed
            /\ \A c \in run[q].claims : claim[c].run # Unclaimed
        BY DEF TakenInv
      <4> QED
        BY <2>3, <3>2, <4>1, <4>2
    <3> QED
      BY <3>1, <3>2
  <2>7. ASSUME NEW q \in Runs, NEW t \in Runs, q # t, q # r, t # r
        PROVE  /\ run'[q].period = 0 \/ run'[q].period # run'[t].period
               /\ {q, t} \cap astray' = {} =>
                    run'[q].rows \cap run'[t].rows = {}
                    /\ run'[q].claims \cap run'[t].claims = {}
    <3>1. run'[q] = run[q] /\ run'[t] = run[t]
      BY <2>1, <2>7
    <3> QED
      BY <1>0, <2>7, <3>1 DEF TakenInv, TakenOnce
  <2>8. TakenOnce'
    BY <2>6, <2>7 DEF TakenOnce
  <2> QED
    BY <2>5, <2>8 DEF TakenInv
<1> QED
  BY <1>1, <1>2

--------------------------------------------------------------------------------
\* Salaries payable

\* A row is held by a run that there is; a run that no late request marked holds
\* exactly what its payslips deduct, and owes what its status says.
HoldsInv ==
  /\ RunTies
  /\ \A x \in Rows : row[x].run # Unclaimed => run[row[x].run].status # "none"
  /\ \A r \in Runs \ astray : run[r].status # "none" =>
       \A x \in Rows : x \in run[r].rows <=> row[x].run = r

\* A step on a loan or a claim leaves runs, and what they owe, alone.
LEMMA RunsAlone ==
  ASSUME TypeOK, TxnInv, NEW s \in Requests, Steps(s), ~ Create(s), ~ Post(s), ~ Pay(s)
  PROVE  /\ UNCHANGED run
         /\ books'.payable = books.payable /\ books'.withheld = books.withheld
         /\ \A x \in Rows : row'[x].run = row[x].run
<1>1. CASE Disburse(s)
  BY <1>1, DisburseDoes
<1>2. CASE WriteOff(s)
  BY <1>2, WriteOffDoes
<1>3. CASE Void(s) \/ Approve(s) \/ Cancel(s) \/ VoidClaim(s)
  <2>1. UNCHANGED <<run, row, books>>
    BY <1>3 DEF Void, Approve, Cancel, VoidClaim
  <2> QED
    BY <2>1
<1> QED
  BY <1>1, <1>2, <1>3 DEF Steps

\* What a run pays out depends on what it holds.
LEMMA NetKept ==
  ASSUME NEW r \in Runs, run'[r].rows = run[r].rows, run'[r].claims = run[r].claims
  PROVE  Net(r)' = Net(r)
BY DEF Net, Earned, Deducted, Principal, InterestOf, Rows

\* HoldsInv is inductive.
LEMMA HoldsNext ==
  ASSUME TypeOK, TxnInv, HoldsInv, NEW s \in Requests, Steps(s)
  PROVE  HoldsInv'
<1>0. /\ astray \subseteq astray'
      /\ \A r \in Runs : run[r] \in [status : RunStatus, period : Periods \cup {0},
                                     rows : SUBSET Rows, claims : SUBSET Claims]
      /\ \A x \in Rows : row[x].run \in Runs \cup {Unclaimed}
      /\ \A r \in Runs : books.payable[r] \in Int /\ books.withheld[r] \in Nat
  BY Marks DEF TypeOK
<1> DEFINE r == txn[s].does.on
<1>1. CASE Create(s)
  <2> DEFINE rows == txn[s].saw.rows
             claims == txn[s].saw.claims
  <2>1. /\ r \in Runs /\ rows \subseteq Rows
        /\ run[r].status = "none"
        /\ run'[r] = [status |-> "draft", period |-> txn[s].does.period,
                      rows |-> rows, claims |-> claims]
        /\ \A q \in Runs : q # r => run'[q] = run[q]
        /\ \A x \in Rows : row'[x].run = IF x \in rows THEN r ELSE row[x].run
        /\ UNCHANGED books
    BY <1>1, CreateDoes
  <2>2. ASSUME NEW q \in Runs \ astray', NEW x \in rows
        PROVE  q # r => row[x].run # q
    <3>1. ~ Void(s) /\ txn[s].does.op = "create"
      BY <1>1, Does DEF Create, Void, Doing
    <3>2. CASE Accepts(txn[s].does) /\ Reads(txn[s].does) = txn[s].saw
      <4>1. rows = Due(txn[s].does.period)
        BY <3>1, <3>2 DEF Reads
      <4> QED
        BY <4>1, NullAssumption DEF Due
    <3>3. CASE Touches(s) \subseteq astray'
      BY <3>3, TouchesThem, NullAssumption
    <3> QED
      BY <3>1, <3>2, <3>3, Marks
  <2>3. r # Unclaimed
    BY <2>1, NullAssumption
  <2> HIDE DEF r, rows, claims
  <2>4. \A x \in Rows : row[x].run # r
    BY <2>1, <2>3 DEF HoldsInv
  <2>5. \A x \in Rows : row'[x].run # Unclaimed => run'[row'[x].run].status # "none"
    <3>1. ASSUME NEW x \in Rows, x \in rows
          PROVE  run'[row'[x].run].status # "none"
      BY <2>1, <3>1
    <3>2. ASSUME NEW x \in Rows, x \notin rows, row'[x].run # Unclaimed
          PROVE  run'[row'[x].run].status # "none"
      BY <1>0, <2>1, <2>4, <3>2 DEF HoldsInv
    <3> QED
      BY <3>1, <3>2
  <2>6. ASSUME NEW q \in Runs \ astray', run'[q].status # "none"
        PROVE  \A x \in Rows : x \in run'[q].rows <=> row'[x].run = q
    <3>1. CASE q = r
      BY <2>1, <2>4, <3>1
    <3>2. CASE q # r
      BY <1>0, <2>1, <2>2, <2>6, <3>2 DEF HoldsInv
    <3> QED
      BY <3>1, <3>2
  <2>7. RunTies'
    <3>1. ASSUME NEW q \in Runs \ astray'
          PROVE  /\ books'.payable[q] = IF run'[q].status = "posted" THEN Net(q)' ELSE 0
                 /\ books'.withheld[q] = 0
      <4>1. /\ books.payable[q] = IF run[q].status = "posted" THEN Net(q) ELSE 0
            /\ books.withheld[q] = 0
        BY <1>0 DEF HoldsInv, RunTies
      <4>2. CASE q = r
        BY <2>1, <4>1, <4>2
      <4>3. CASE q # r
        <5>1. run'[q] = run[q]
          BY <2>1, <4>3
        <5>2. Net(q)' = Net(q)
          BY <5>1, NetKept
        <5> QED
          BY <2>1, <4>1, <5>1, <5>2
      <4> QED
        BY <4>2, <4>3
    <3> QED
      BY <3>1 DEF RunTies
  <2> QED
    BY <2>5, <2>6, <2>7 DEF HoldsInv
<1>2. CASE Post(s)
  <2> DEFINE seen == txn[s].saw.rows
  <2>1. /\ r \in Runs /\ seen \subseteq Rows
        /\ run'[r] = [run[r] EXCEPT !.status = "posted"]
        /\ \A q \in Runs : q # r => run'[q] = run[q]
        /\ \A x \in Rows : row'[x].run = row[x].run
        /\ \A q \in Runs :
             /\ books'.payable[q] = books.payable[q] + (IF q = r THEN Net(r) ELSE 0)
             /\ books'.withheld[q] = books.withheld[q]
                  + (IF q = r THEN AtLeastZero(Deducted(run[r].rows) - Deducted(seen)) ELSE 0)
    BY <1>2, PostDoes
  <2>2. /\ run'[r].status = "posted"
        /\ \A q \in Runs : run'[q].rows = run[q].rows /\ run'[q].claims = run[q].claims
        /\ \A q \in Runs : run[q].status # "none" => run'[q].status # "none"
    BY <1>0, <2>1
  <2>3. \A q \in Runs : Net(q)' = Net(q)
    BY <2>2, NetKept
  <2>4. r \notin astray' => run[r].status = "draft" /\ seen = Held(r)
    <3>1. ~ Void(s) /\ txn[s].does.op = "post" /\ r \in Touches(s)
      BY <1>2, Does, TouchesThem DEF Post, Void, Doing
    <3>2. r \notin astray' => Accepts(txn[s].does) /\ Reads(txn[s].does) = txn[s].saw
      BY <3>1, Marks
    <3> QED
      BY <3>1, <3>2 DEF Accepts, Reads
  <2> HIDE DEF seen
  <2>5. ASSUME r \notin astray'
        PROVE  AtLeastZero(Deducted(run[r].rows) - Deducted(seen)) = 0
    <3>1. run[r].status = "draft" /\ seen = Held(r)
      BY <2>4, <2>5
    <3>2. \A x \in Rows : x \in run[r].rows <=> row[x].run = r
      BY <1>0, <2>1, <2>5, <3>1 DEF HoldsInv
    <3>3. run[r].rows = seen
      BY <1>0, <2>1, <3>1, <3>2 DEF Held
    <3>4. Deducted(seen) \in Int
      BY <2>1, Amounts
    <3> QED
      BY <3>3, <3>4 DEF AtLeastZero
  <2>6. \A x \in Rows : row'[x].run # Unclaimed => run'[row'[x].run].status # "none"
    BY <1>0, <2>1, <2>2 DEF HoldsInv
  <2>7. ASSUME NEW q \in Runs \ astray', run'[q].status # "none"
        PROVE  \A x \in Rows : x \in run'[q].rows <=> row'[x].run = q
    <3>1. run[q].status # "none"
      <4>1. CASE q = r
        BY <2>4, <2>7, <4>1
      <4>2. CASE q # r
        BY <2>1, <2>7, <4>2
      <4> QED
        BY <4>1, <4>2
    <3> QED
      BY <1>0, <2>1, <2>2, <2>7, <3>1 DEF HoldsInv
  <2>8. RunTies'
    <3>1. ASSUME NEW q \in Runs \ astray'
          PROVE  /\ books'.payable[q] = IF run'[q].status = "posted" THEN Net(q)' ELSE 0
                 /\ books'.withheld[q] = 0
      <4>1. /\ books.payable[q] = IF run[q].status = "posted" THEN Net(q) ELSE 0
            /\ books.withheld[q] = 0
        BY <1>0 DEF HoldsInv, RunTies
      <4>2. CASE q = r
        <5>1. run[r].status = "draft"
          BY <2>4, <3>1, <4>2
        <5>2. Net(r) \in Int
          BY <2>1, NetType
        <5>3. books'.payable[q] = 0 + Net(q)
          BY <2>1, <4>1, <4>2, <5>1
        <5>4. books'.withheld[q] = 0 + 0
          BY <2>1, <2>5, <3>1, <4>1, <4>2
        <5> QED
          BY <2>2, <2>3, <4>2, <5>2, <5>3, <5>4
      <4>3. CASE q # r
        <5>1. run'[q] = run[q] /\ Net(q)' = Net(q)
          BY <2>1, <2>3, <4>3
        <5>2. books'.payable[q] = books.payable[q] /\ books'.withheld[q] = books.withheld[q]
          BY <1>0, <2>1, <4>3
        <5> QED
          BY <4>1, <5>1, <5>2
      <4> QED
        BY <4>2, <4>3
    <3> QED
      BY <3>1 DEF RunTies
  <2> QED
    BY <2>6, <2>7, <2>8 DEF HoldsInv
<1>3. CASE Pay(s)
  <2>1. /\ r \in Runs /\ run[r].status \in {"posted", "paid"}
        /\ run'[r] = [run[r] EXCEPT !.status = "paid"]
        /\ \A q \in Runs : q # r => run'[q] = run[q]
        /\ \A q \in Runs :
             books'.payable[q] = books.payable[q] - (IF q = r THEN Net(r) ELSE 0)
        /\ books'.withheld = books.withheld
        /\ UNCHANGED row
    BY <1>3, PayDoes
  <2>2. /\ run'[r].status = "paid"
        /\ \A q \in Runs : run'[q].rows = run[q].rows /\ run'[q].claims = run[q].claims
        /\ \A q \in Runs : run[q].status # "none" <=> run'[q].status # "none"
    BY <1>0, <2>1
  <2>3. \A q \in Runs : Net(q)' = Net(q)
    BY <2>2, NetKept
  <2>4. r \notin astray' => run[r].status = "posted"
    <3>1. ~ Void(s) /\ txn[s].does.op = "pay" /\ r \in Touches(s)
      BY <1>3, Does, TouchesThem DEF Pay, Void, Doing
    <3>2. r \notin astray' => Accepts(txn[s].does)
      BY <3>1, Marks
    <3> QED
      BY <3>1, <3>2 DEF Accepts, CanPay
  <2>5. \A x \in Rows : row'[x].run # Unclaimed => run'[row'[x].run].status # "none"
    BY <1>0, <2>1, <2>2 DEF HoldsInv
  <2>6. ASSUME NEW q \in Runs \ astray', run'[q].status # "none"
        PROVE  \A x \in Rows : x \in run'[q].rows <=> row'[x].run = q
    BY <1>0, <2>1, <2>2, <2>6 DEF HoldsInv
  <2>7. RunTies'
    <3>1. ASSUME NEW q \in Runs \ astray'
          PROVE  /\ books'.payable[q] = IF run'[q].status = "posted" THEN Net(q)' ELSE 0
                 /\ books'.withheld[q] = 0
      <4>1. /\ books.payable[q] = IF run[q].status = "posted" THEN Net(q) ELSE 0
            /\ books.withheld[q] = 0
        BY <1>0 DEF HoldsInv, RunTies
      <4>2. CASE q = r
        <5>1. run[r].status = "posted"
          BY <2>4, <3>1, <4>2
        <5>2. Net(r) \in Int
          BY <2>1, NetType
        <5>3. books'.payable[q] = Net(r) - Net(r)
          BY <2>1, <4>1, <4>2, <5>1
        <5>4. Net(q) = Net(r) /\ Net(r) - Net(r) = 0
          BY <4>2, <5>2
        <5>5. run'[q].status # "posted" /\ books'.withheld[q] = 0
          BY <2>1, <2>2, <4>1, <4>2
        <5> QED
          BY <5>3, <5>4, <5>5
      <4>3. CASE q # r
        <5>1. run'[q] = run[q] /\ Net(q)' = Net(q)
          BY <2>1, <2>3, <4>3
        <5>2. books'.payable[q] = books.payable[q] /\ books'.withheld[q] = books.withheld[q]
          BY <1>0, <2>1, <4>3
        <5> QED
          BY <4>1, <5>1, <5>2
      <4> QED
        BY <4>2, <4>3
    <3> QED
      BY <3>1 DEF RunTies
  <2> QED
    BY <2>5, <2>6, <2>7 DEF HoldsInv
<1>4. ASSUME ~ Create(s), ~ Post(s), ~ Pay(s)
      PROVE  HoldsInv'
  <2>1. /\ UNCHANGED run
        /\ books'.payable = books.payable /\ books'.withheld = books.withheld
        /\ \A x \in Rows : row'[x].run = row[x].run
    BY <1>4, RunsAlone
  <2>2. \A q \in Runs : Net(q)' = Net(q)
    BY <2>1, NetKept
  <2>3. RunTies'
    BY <1>0, <2>1, <2>2 DEF HoldsInv, RunTies
  <2> QED
    BY <1>0, <2>1, <2>3 DEF HoldsInv
<1> QED
  BY <1>1, <1>2, <1>3, <1>4

--------------------------------------------------------------------------------
\* The loan book

PaidRows(l) == {x \in OfLoan(Rows, l) : row[x].status = "paid"}
AllRows(l, S) == \A x \in OfLoan(Rows, l) : row[x].status \in S
SomeRow(l, v) == \E x \in OfLoan(Rows, l) : row[x].status = v

\* An instalment that a run holds waits until the run is posted, and is paid then.
HeldInv ==
  \A x \in Rows : row[x].run # Unclaimed /\ x[1] \notin astray =>
    row[x].status = IF run[row[x].run].status = "draft" THEN "pending" ELSE "paid"

\* The header of a loan is what its paid instalments leave of it, and its status says
\* in what states its instalments are.
LoanIs(l) ==
  /\ books.receivable[l] = loan[l].principal
  /\ loan[l].repaid = Principal(PaidRows(l))
  /\ loan[l].earned = InterestOf(PaidRows(l))
  /\ loan[l].status \in {"draft", "approved", "cancelled"} =>
       loan[l].principal = 0 /\ loan[l].written = 0 /\ AllRows(l, {"none"})
  /\ loan[l].status \in {"disbursed", "closed"} =>
       /\ loan[l].principal = Terms[l].principal - loan[l].repaid
       /\ loan[l].interest = Interest(l) - loan[l].earned
       /\ loan[l].written = 0
       /\ AllRows(l, {"pending", "paid"})
  /\ loan[l].status = "disbursed" => SomeRow(l, "pending")
  /\ loan[l].status = "closed" => AllRows(l, {"paid"})
  /\ loan[l].status = "written_off" =>
       /\ loan[l].principal = 0
       /\ loan[l].repaid + loan[l].written = Terms[l].principal
       /\ AllRows(l, {"paid", "waived"}) /\ SomeRow(l, "waived")

LoanInv == \A l \in Loans \ astray : LoanIs(l)

\* HeldInv is inductive.
LEMMA HeldNext ==
  ASSUME TypeOK, TxnInv, HoldsInv, HeldInv, NEW s \in Requests, Steps(s)
  PROVE  HeldInv'
<1>0. /\ astray \subseteq astray'
      /\ \A q \in Runs : run[q] \in [status : RunStatus, period : Periods \cup {0},
                                     rows : SUBSET Rows, claims : SUBSET Claims]
      /\ \A x \in Rows : row[x].run \in Runs \cup {Unclaimed}
  BY Marks DEF TypeOK
<1> DEFINE r == txn[s].does.on
<1>1. CASE Create(s)
  <2> DEFINE rows == txn[s].saw.rows
  <2>1. /\ r \in Runs /\ rows \subseteq Rows
        /\ run[r].status = "none"
        /\ run'[r] = [status |-> "draft", period |-> txn[s].does.period,
                      rows |-> rows, claims |-> txn[s].saw.claims]
        /\ \A q \in Runs : q # r => run'[q] = run[q]
        /\ \A x \in Rows : /\ row'[x].status = row[x].status
                           /\ row'[x].run = IF x \in rows THEN r ELSE row[x].run
    BY <1>1, CreateDoes
  <2>0. run'[r].status = "draft"
    BY <2>1
  <2>2. ASSUME NEW x \in rows, x[1] \notin astray'
        PROVE  row[x].status = "pending"
    <3>1. ~ Void(s) /\ txn[s].does.op = "create"
      BY <1>1, Does DEF Create, Void, Doing
    <3>2. x[1] \in Touches(s)
      BY TouchesThem
    <3>3. Reads(txn[s].does) = txn[s].saw
      BY <2>2, <3>1, <3>2, Marks
    <3>4. rows = Due(txn[s].does.period)
      BY <3>1, <3>3 DEF Reads
    <3> QED
      BY <3>4 DEF Due
  <2> HIDE DEF r, rows
  <2>3. \A x \in Rows : row[x].run # r
    BY <2>1, NullAssumption DEF HoldsInv
  <2>4. ASSUME NEW x \in Rows, row'[x].run # Unclaimed, x[1] \notin astray'
        PROVE  row'[x].status
                 = IF run'[row'[x].run].status = "draft" THEN "pending" ELSE "paid"
    <3>1. CASE x \in rows
      BY <2>0, <2>1, <2>2, <2>4, <3>1
    <3>2. CASE x \notin rows
      <4>1. row'[x].run = row[x].run /\ row[x].run \in Runs /\ row[x].run # r
        BY <1>0, <2>1, <2>3, <2>4, <3>2
      <4>2. run'[row'[x].run] = run[row[x].run]
        BY <2>1, <4>1
      <4> QED
        BY <1>0, <2>1, <2>4, <4>1, <4>2 DEF HeldInv
    <3> QED
      BY <3>1, <3>2
  <2> QED
    BY <2>4 DEF HeldInv
<1>2. CASE Post(s)
  <2> DEFINE seen == txn[s].saw.rows
             held == IF seen = {} THEN {} ELSE Held(r)
  <2>1. /\ r \in Runs
        /\ run'[r] = [run[r] EXCEPT !.status = "posted"]
        /\ \A q \in Runs : q # r => run'[q] = run[q]
        /\ \A x \in Rows : /\ row'[x].status = IF x \in held THEN "paid" ELSE row[x].status
                           /\ row'[x].run = row[x].run
    BY <1>2, PostDoes
  <2>2. ASSUME NEW x \in Rows, row[x].run = r, x[1] \notin astray'
        PROVE  x \in held
    <3>1. ~ Void(s) /\ txn[s].does.op = "post"
      BY <1>2, Does DEF Post, Void, Doing
    <3>2. x \in Held(r)
      BY <2>2 DEF Held
    <3>3. x[1] \in Touches(s)
      BY <3>1, <3>2, TouchesThem
    <3>4. Reads(txn[s].does) = txn[s].saw
      BY <2>2, <3>1, <3>3, Marks
    <3>5. seen = Held(r)
      BY <3>1, <3>4 DEF Reads
    <3> QED
      BY <3>2, <3>5
  <2>3. \A x \in held : row[x].run = r
    BY DEF Held
  <2>4. run'[r].status = "posted"
    BY <1>0, <2>1
  <2> HIDE DEF r, seen, held
  <2>5. ASSUME NEW x \in Rows, row'[x].run # Unclaimed, x[1] \notin astray'
        PROVE  row'[x].status
                 = IF run'[row'[x].run].status = "draft" THEN "pending" ELSE "paid"
    <3>1. CASE row[x].run = r
      BY <2>1, <2>2, <2>4, <2>5, <3>1
    <3>2. CASE row[x].run # r
      <4>1. row'[x].run = row[x].run /\ row[x].run \in Runs /\ x \notin held
        BY <1>0, <2>1, <2>3, <2>5, <3>2
      <4>2. run'[row'[x].run] = run[row[x].run]
        BY <2>1, <3>2, <4>1
      <4> QED
        BY <1>0, <2>1, <2>5, <4>1, <4>2 DEF HeldInv
    <3> QED
      BY <3>1, <3>2
  <2> QED
    BY <2>5 DEF HeldInv
<1>3. CASE Pay(s)
  <2>1. /\ r \in Runs /\ run[r].status \in {"posted", "paid"}
        /\ run'[r] = [run[r] EXCEPT !.status = "paid"]
        /\ \A q \in Runs : q # r => run'[q] = run[q]
        /\ UNCHANGED row
    BY <1>3, PayDoes
  <2> HIDE DEF r
  <2>2. \A q \in Runs : run'[q].status = "draft" <=> run[q].status = "draft"
    BY <1>0, <2>1
  <2> QED
    BY <1>0, <2>1, <2>2 DEF HeldInv
<1>4. CASE Disburse(s)
  <2>1. /\ \A x \in OfLoan(Rows, r) : row[x].status = "none"
        /\ \A x \in Rows :
             /\ row'[x].status = IF x[1] = r THEN "pending" ELSE row[x].status
             /\ row'[x].run = row[x].run
        /\ UNCHANGED run
    BY <1>4, DisburseDoes
  <2> HIDE DEF r
  <2>2. ASSUME NEW x \in Rows, row[x].run # Unclaimed, x[1] \notin astray'
        PROVE  x[1] # r
    <3>1. row[x].status # "none"
      BY <1>0, <2>2 DEF HeldInv
    <3> QED
      BY <2>1, <3>1 DEF OfLoan
  <2> QED
    BY <1>0, <2>1, <2>2 DEF HeldInv
<1>5. CASE WriteOff(s)
  <2>1. /\ \A x \in Rows :
             /\ row'[x].status = IF x[1] = r /\ row[x].status = "pending"
                                 THEN "waived" ELSE row[x].status
             /\ row'[x].run = row[x].run
             /\ x[1] = r /\ row[x].status = "pending" /\ row[x].run # Unclaimed
                  => r \in astray'
        /\ UNCHANGED run
    BY <1>5, WriteOffDoes
  <2> HIDE DEF r
  <2> QED
    BY <1>0, <2>1 DEF HeldInv
<1>6. CASE Void(s) \/ Approve(s) \/ Cancel(s) \/ VoidClaim(s)
  <2>1. UNCHANGED <<run, row>>
    BY <1>6 DEF Void, Approve, Cancel, VoidClaim
  <2> QED
    BY <1>0, <2>1 DEF HeldInv
<1> QED
  BY <1>1, <1>2, <1>3, <1>4, <1>5, <1>6 DEF Steps

\* A loan stays as it is when its header, its receivable and the states of its
\* instalments do.
LEMMA LoanAlone ==
  ASSUME NEW l \in Loans, LoanIs(l), loan'[l] = loan[l],
         books'.receivable[l] = books.receivable[l],
         \A x \in OfLoan(Rows, l) : row'[x].status = row[x].status
  PROVE  LoanIs(l)'
<1> DEFINE old == PaidRows(l)
           new == PaidRows(l)'
<1>1. new = old
  BY DEF PaidRows, OfLoan, Rows
<1>2. /\ Principal(PaidRows(l))' = Principal(new)
      /\ InterestOf(PaidRows(l))' = InterestOf(new)
  BY DEF Principal, InterestOf, Rows
<1>3. \A S : AllRows(l, S)' <=> AllRows(l, S)
  BY DEF AllRows, OfLoan, Rows
<1>4. \A v : SomeRow(l, v)' <=> SomeRow(l, v)
  BY DEF SomeRow, OfLoan, Rows
<1> QED
  BY <1>1, <1>2, <1>3, <1>4 DEF LoanIs

\* What is left of an ample loan when some of its instalments are paid.
LEMMA Rest ==
  ASSUME AmpleLoans, NEW l \in Loans, NEW paid, paid \subseteq OfLoan(Rows, l)
  PROVE  LET rest == OfLoan(Rows, l) \ paid IN
         /\ Principal(paid) \in Nat /\ InterestOf(paid) \in Nat
         /\ Terms[l].principal - Principal(paid) = Principal(rest)
         /\ Interest(l) - InterestOf(paid) = InterestOf(rest)
         /\ Principal(rest) \in Nat /\ InterestOf(rest) \in Nat
         /\ Principal(rest) = 0 /\ InterestOf(rest) = 0 <=> rest = {}
<1> DEFINE all == OfLoan(Rows, l)
           rest == OfLoan(Rows, l) \ paid
<1>1. paid \in SUBSET Rows /\ rest \in SUBSET Rows /\ paid \cap rest = {}
  BY DEF OfLoan
<1>2. all = paid \cup rest
  OBVIOUS
<1>3. Principal(all) = Terms[l].principal /\ InterestOf(all) = Interest(l)
  BY Whole
<1> HIDE DEF all, rest
<1>4. /\ Principal(all) = Principal(paid) + Principal(rest)
      /\ InterestOf(all) = InterestOf(paid) + InterestOf(rest)
  BY <1>1, <1>2, Amounts
<1>5. /\ Principal(paid) \in Nat /\ InterestOf(paid) \in Nat
      /\ Principal(rest) \in Nat /\ InterestOf(rest) \in Nat
  BY <1>1, Amounts
<1>6. Principal({}) = 0 /\ InterestOf({}) = 0
  BY Amounts
<1>7. rest # {} => Principal(rest) + InterestOf(rest) > 0
  BY <1>1, Amounts
<1>8. /\ Terms[l].principal - Principal(paid) = Principal(rest)
      /\ Interest(l) - InterestOf(paid) = InterestOf(rest)
  BY <1>3, <1>4, <1>5
<1>9. Principal(rest) = 0 /\ InterestOf(rest) = 0 <=> rest = {}
  BY <1>5, <1>6, <1>7
<1> QED
  BY <1>5, <1>8, <1>9 DEF rest

\* Loans after an approval or a cancellation.
LEMMA LoanDecided ==
  ASSUME TypeOK, TxnInv, LoanInv, NEW s \in Requests, Approve(s) \/ Cancel(s),
         NEW l \in Loans \ astray'
  PROVE  LoanIs(l)'
<1> DEFINE d == txn[s].does.on
<1>0. Steps(s)
  BY DEF Steps
<1>1. l \notin astray /\ LoanIs(l)
  BY <1>0, Marks DEF LoanInv
<1>2. /\ \/ Approve(s) /\ loan'[d] = [loan[d] EXCEPT !.status = "approved"]
         \/ Cancel(s) /\ loan'[d] = [loan[d] EXCEPT !.status = "cancelled"]
      /\ \A m \in Loans : m # d => loan'[m] = loan[m]
      /\ UNCHANGED <<run, row, claim, books>>
  BY DecideDoes
<1>3. CASE l # d
  BY <1>1, <1>2, <1>3, LoanAlone
<1>4. CASE l = d
  <2>1. ~ Void(s) /\ txn[s].does.op \in {"approve", "cancel"}
    BY Does DEF Approve, Cancel, Void, Doing
  <2>2. Accepts(txn[s].does)
    BY <1>0, <1>4, <2>1, Marks, TouchesThem
  <2>3. loan[l].status \in {"draft", "approved"}
    BY <1>4, <2>1, <2>2 DEF Accepts
  <2>4. loan[l] \in Headers
    BY TypeParts DEF LoanType
  <2>5. /\ loan'[l].status \in {"approved", "cancelled"}
        /\ loan'[l].principal = loan[l].principal
        /\ loan'[l].interest = loan[l].interest
        /\ loan'[l].repaid = loan[l].repaid
        /\ loan'[l].earned = loan[l].earned
        /\ loan'[l].written = loan[l].written
    BY <1>2, <1>4, <2>4 DEF Headers
  <2>6. PaidRows(l)' = PaidRows(l) /\ (AllRows(l, {"none"})' <=> AllRows(l, {"none"}))
    BY <1>2 DEF PaidRows, AllRows, OfLoan, Rows
  <2>7. /\ Principal(PaidRows(l))' = Principal(PaidRows(l))
        /\ InterestOf(PaidRows(l))' = InterestOf(PaidRows(l))
    BY <2>6 DEF Principal, InterestOf, Rows
  <2>8. loan[l].principal = 0 /\ loan[l].written = 0 /\ AllRows(l, {"none"})
    BY <1>1, <2>3 DEF LoanIs
  <2>9. /\ books.receivable[l] = loan[l].principal
        /\ loan[l].repaid = Principal(PaidRows(l))
        /\ loan[l].earned = InterestOf(PaidRows(l))
    BY <1>1 DEF LoanIs
  <2>10. books' = books
    BY <1>2
  <2> QED
    BY <2>5, <2>6, <2>7, <2>8, <2>9, <2>10 DEF LoanIs
<1> QED
  BY <1>3, <1>4

\* Loans after a disbursement.
LEMMA LoanDisbursed ==
  ASSUME TypeOK, TxnInv, LoanInv, NEW s \in Requests, Disburse(s),
         NEW l \in Loans \ astray'
  PROVE  LoanIs(l)'
<1> DEFINE d == txn[s].does.on
<1>0. Steps(s)
  BY DEF Steps
<1>1. l \notin astray /\ LoanIs(l)
  BY <1>0, Marks DEF LoanInv
<1>2. /\ d \in Loans
      /\ \A x \in OfLoan(Rows, d) : row[x].status = "none"
      /\ loan'[d] = [loan[d] EXCEPT !.status = "disbursed",
                                    !.principal = Terms[d].principal,
                                    !.interest = Interest(d)]
      /\ \A m \in Loans : m # d => loan'[m] = loan[m]
      /\ \A x \in Rows :
           row'[x].status = IF x[1] = d THEN "pending" ELSE row[x].status
      /\ \A m \in Loans : books'.receivable[m]
           = books.receivable[m] + (IF m = d THEN Terms[d].principal ELSE 0)
  BY DisburseDoes
<1>3. books.receivable[l] \in Int /\ loan[l] \in Headers
  BY TypeParts DEF BooksType, LoanType
<1>4. CASE l # d
  <2>1. books'.receivable[l] = books.receivable[l]
    BY <1>2, <1>3, <1>4
  <2>2. \A x \in OfLoan(Rows, l) : row'[x].status = row[x].status
    BY <1>2, <1>4 DEF OfLoan
  <2> QED
    BY <1>1, <1>2, <1>4, <2>1, <2>2, LoanAlone
<1>5. CASE l = d
  <2>1. ~ Void(s) /\ txn[s].does.op = "disburse"
    BY Does DEF Disburse, Void, Doing
  <2>2. Accepts(txn[s].does)
    BY <1>0, <1>5, <2>1, Marks, TouchesThem
  <2>3. loan[l].status = "approved"
    BY <1>5, <2>1, <2>2 DEF Accepts
  <2>4. loan[l].principal = 0 /\ loan[l].written = 0 /\ books.receivable[l] = 0
        /\ loan[l].repaid = Principal(PaidRows(l))
        /\ loan[l].earned = InterestOf(PaidRows(l))
    BY <1>1, <2>3 DEF LoanIs
  <2>5. PaidRows(l) = {} /\ PaidRows(l)' = {}
    BY <1>2, <1>5 DEF PaidRows, OfLoan, Rows
  <2>6. /\ Principal({}) = 0 /\ InterestOf({}) = 0
        /\ Principal(PaidRows(l))' = Principal(PaidRows(l)')
        /\ InterestOf(PaidRows(l))' = InterestOf(PaidRows(l)')
    BY Amounts DEF Principal, InterestOf, Rows
  <2>7. Terms[l].principal \in Nat /\ Interest(l) \in Nat
    BY Schedule
  <2>8. /\ loan'[l].status = "disbursed"
        /\ loan'[l].principal = Terms[l].principal
        /\ loan'[l].interest = Interest(l)
        /\ loan'[l].repaid = 0 /\ loan'[l].earned = 0 /\ loan'[l].written = 0
    BY <1>2, <1>3, <1>5, <2>4, <2>5, <2>6 DEF Headers
  <2>9. books'.receivable[l] = Terms[l].principal
    BY <1>2, <1>5, <2>4, <2>7
  <2>10. \A x \in OfLoan(Rows, l) : row'[x].status = "pending"
    BY <1>2, <1>5 DEF OfLoan
  <2>11. AllRows(l, {"pending", "paid"})' /\ SomeRow(l, "pending")'
    BY <2>10, FirstRow DEF AllRows, SomeRow, OfLoan, Rows
  <2>12. Principal(PaidRows(l))' = 0 /\ InterestOf(PaidRows(l))' = 0
    BY <2>5, <2>6
  <2> QED
    BY <2>7, <2>8, <2>9, <2>11, <2>12 DEF LoanIs
<1> QED
  BY <1>4, <1>5

\* Loans after a write-off.
LEMMA LoanWritten ==
  ASSUME TypeOK, TxnInv, LoanInv, NEW s \in Requests, WriteOff(s),
         NEW l \in Loans \ astray'
  PROVE  LoanIs(l)'
<1> DEFINE d == txn[s].does.on
           owed == txn[s].saw.owed
<1>0. Steps(s)
  BY DEF Steps
<1>1. l \notin astray /\ LoanIs(l)
  BY <1>0, Marks DEF LoanInv
<1>2. /\ loan'[d] = [loan[d] EXCEPT !.status = "written_off", !.written = owed,
                                    !.principal = 0, !.interest = 0]
      /\ \A m \in Loans : m # d => loan'[m] = loan[m]
      /\ \A x \in Rows : row'[x].status = IF x[1] = d /\ row[x].status = "pending"
                                          THEN "waived" ELSE row[x].status
      /\ \A m \in Loans : books'.receivable[m]
           = books.receivable[m] - (IF m = d THEN owed ELSE 0)
  BY WriteOffDoes
<1>3. books.receivable[l] \in Int /\ loan[l] \in Headers
  BY TypeParts DEF BooksType, LoanType
<1>4. CASE l # d
  <2>1. books'.receivable[l] = books.receivable[l]
    BY <1>2, <1>3, <1>4
  <2>2. \A x \in OfLoan(Rows, l) : row'[x].status = row[x].status
    BY <1>2, <1>4 DEF OfLoan
  <2> QED
    BY <1>1, <1>2, <1>4, <2>1, <2>2, LoanAlone
<1>5. CASE l = d
  <2>1. ~ Void(s) /\ txn[s].does.op = "write off"
    BY Does DEF WriteOff, Void, Doing
  <2>2. Accepts(txn[s].does) /\ Reads(txn[s].does) = txn[s].saw
    BY <1>0, <1>5, <2>1, Marks, TouchesThem
  <2>3. loan[l].status = "disbursed" /\ owed = loan[l].principal
    <3>1. loan[l].status = "disbursed"
      BY <1>5, <2>1, <2>2 DEF Accepts
    <3>2. Reads(txn[s].does).owed = loan[l].principal
      BY <1>5, <2>1 DEF Reads
    <3> QED
      BY <2>2, <3>1, <3>2
  <2>4. /\ books.receivable[l] = loan[l].principal
        /\ loan[l].repaid = Principal(PaidRows(l))
        /\ loan[l].earned = InterestOf(PaidRows(l))
        /\ loan[l].principal = Terms[l].principal - loan[l].repaid
        /\ AllRows(l, {"pending", "paid"}) /\ SomeRow(l, "pending")
    BY <1>1, <2>3 DEF LoanIs
  <2>5. PaidRows(l)' = PaidRows(l)
    BY <1>2, <1>5 DEF PaidRows, OfLoan, Rows
  <2>6. /\ Principal(PaidRows(l))' = Principal(PaidRows(l))
        /\ InterestOf(PaidRows(l))' = InterestOf(PaidRows(l))
    BY <2>5 DEF Principal, InterestOf, Rows
  <2>7. Terms[l].principal \in Nat
    BY Schedule
  <2>7a. loan'[l] = [loan[l] EXCEPT !.status = "written_off", !.written = loan[l].principal,
                                   !.principal = 0, !.interest = 0]
    BY <1>2, <1>5, <2>3
  <2>8. /\ loan'[l].status = "written_off"
        /\ loan'[l].principal = 0
        /\ loan'[l].written = loan[l].principal
        /\ loan'[l].repaid = loan[l].repaid /\ loan'[l].earned = loan[l].earned
        /\ loan[l].principal \in Int /\ loan[l].repaid \in Int
    BY <1>3, <2>7a DEF Headers
  <2>9. books'.receivable[l] = 0
    BY <1>2, <1>5, <2>3, <2>4, <2>8
  <2>10. AllRows(l, {"paid", "waived"})' /\ SomeRow(l, "waived")'
    BY <1>2, <1>5, <2>4 DEF AllRows, SomeRow, OfLoan, Rows
  <2>11. loan'[l].repaid + loan'[l].written = Terms[l].principal
    BY <2>4, <2>7, <2>8
  <2> QED
    BY <2>4, <2>6, <2>8, <2>9, <2>10, <2>11 DEF LoanIs
<1> QED
  BY <1>4, <1>5

\* Loans after the posting of a run.
LEMMA LoanRecovered ==
  ASSUME AmpleLoans, TypeOK, TxnInv, HeldInv, LoanInv, NEW s \in Requests, Post(s),
         NEW l \in Loans \ astray'
  PROVE  LoanIs(l)'
<1> DEFINE r == txn[s].does.on
           seen == txn[s].saw.rows
           held == IF seen = {} THEN {} ELSE Held(r)
<1>0. Steps(s)
  BY DEF Steps
<1>1. l \notin astray /\ LoanIs(l)
  BY <1>0, Marks DEF LoanInv
<1>2. /\ r \in Runs /\ seen \subseteq Rows
      /\ \A x \in Rows : row'[x].status = IF x \in held THEN "paid" ELSE row[x].status
      /\ loan'[l] = IF OfLoan(held, l) = {} THEN loan[l] ELSE Recover(l, OfLoan(held, l))
      /\ books'.receivable[l] = books.receivable[l] - Principal(OfLoan(seen, l))
  BY PostDoes
<1>3. books.receivable[l] \in Int /\ loan[l] \in Headers
  BY TypeParts DEF BooksType, LoanType
<1>4. ~ Void(s) /\ txn[s].does.op = "post"
  BY Does DEF Post, Void, Doing
<1>5. held \subseteq Rows
  BY DEF Held
<1>6. CASE OfLoan(held, l) = {} /\ OfLoan(seen, l) = {}
  <2>1. books'.receivable[l] = books.receivable[l]
    BY <1>2, <1>3, <1>6, Amounts
  <2>2. \A x \in OfLoan(Rows, l) : row'[x].status = row[x].status
    BY <1>2, <1>6 DEF OfLoan
  <2> QED
    BY <1>1, <1>2, <1>6, <2>1, <2>2, LoanAlone
<1>7. CASE OfLoan(held, l) # {} \/ OfLoan(seen, l) # {}
  <2>1. l \in Touches(s)
    <3>1. \A x \in seen : x[1] \in Touches(s)
      BY <1>0, TouchesThem
    <3>2. \A x \in held : x[1] \in Touches(s)
      BY <1>0, <1>4, TouchesThem
    <3> QED
      BY <1>7, <3>1, <3>2 DEF OfLoan
  <2>2. Accepts(txn[s].does) /\ Reads(txn[s].does) = txn[s].saw
    BY <1>0, <1>4, <2>1, Marks
  <2>3. run[r].status = "draft" /\ seen = Held(r)
    BY <1>4, <2>2 DEF Accepts, Reads
  <2>4. held = seen
    BY <2>3
  <2> DEFINE now == OfLoan(held, l)
             before == PaidRows(l)
             paid == before \cup now
             rest == OfLoan(Rows, l) \ paid
  <2>5. now # {} /\ now = OfLoan(seen, l)
    BY <1>7, <2>4
  <2>6. \A x \in now : x \in OfLoan(Rows, l) /\ row[x].status = "pending"
    <3> SUFFICES ASSUME NEW x \in now
                 PROVE  x \in OfLoan(Rows, l) /\ row[x].status = "pending"
      OBVIOUS
    <3>1. x \in Rows /\ x[1] = l /\ row[x].run = r
      BY <2>3, <2>4 DEF OfLoan, Held
    <3>2. row[x].status = "pending"
      BY <1>1, <1>2, <2>3, <3>1, NullAssumption DEF HeldInv
    <3> QED
      BY <3>1, <3>2 DEF OfLoan
  <2>7. before \subseteq OfLoan(Rows, l) /\ before \cap now = {}
    BY <2>6 DEF PaidRows
  <2>8. PaidRows(l)' = paid
    <3>1. \A x \in OfLoan(Rows, l) : row'[x].status = "paid" <=> x \in paid
      BY <1>2 DEF OfLoan, PaidRows
    <3>2. PaidRows(l)' = {x \in OfLoan(Rows, l) : row'[x].status = "paid"}
      BY DEF PaidRows, OfLoan, Rows
    <3> QED
      BY <2>6, <2>7, <3>1, <3>2
  <2>9. \A x \in rest : row'[x].status = row[x].status /\ row[x].status # "paid"
    BY <1>2 DEF OfLoan, PaidRows
  <2>10. \A x \in paid : row'[x].status = "paid"
    BY <1>2, <2>6 DEF OfLoan, PaidRows
  <2>11. /\ Principal(PaidRows(l))' = Principal(paid)
         /\ InterestOf(PaidRows(l))' = InterestOf(paid)
    BY <2>8 DEF Principal, InterestOf, Rows
  <2>12. loan[l].status = "disbursed"
    <3>1. PICK x \in now : TRUE
      BY <2>5
    <3>2. x \in OfLoan(Rows, l) /\ row[x].status = "pending"
      BY <2>6, <3>1
    <3>3. loan[l].status \in LoanStatus
      BY <1>3 DEF Headers
    <3> QED
      BY <1>1, <3>2, <3>3 DEF LoanIs, AllRows, LoanStatus
  <2>13. /\ books.receivable[l] = loan[l].principal
         /\ loan[l].repaid = Principal(before)
         /\ loan[l].earned = InterestOf(before)
         /\ loan[l].principal = Terms[l].principal - loan[l].repaid
         /\ loan[l].interest = Interest(l) - loan[l].earned
         /\ loan[l].written = 0
         /\ AllRows(l, {"pending", "paid"})
    BY <1>1, <2>12 DEF LoanIs
  <2>14. loan'[l] = Recover(l, now) /\ books'.receivable[l] = books.receivable[l] - Principal(now)
    BY <1>2, <2>5
  <2>15. now \in SUBSET Rows /\ before \in SUBSET Rows
    BY <2>6, <2>7 DEF OfLoan
  <2>16. now \subseteq OfLoan(Rows, l)
    BY <2>6
  <2> HIDE DEF r, seen, held, now, before
  <2>17. /\ Principal(paid) = Principal(before) + Principal(now)
         /\ InterestOf(paid) = InterestOf(before) + InterestOf(now)
         /\ Principal(before) \in Int /\ Principal(now) \in Int
         /\ InterestOf(before) \in Int /\ InterestOf(now) \in Int
    <3>1. /\ Principal(before) \in Int /\ Principal(now) \in Int
          /\ InterestOf(before) \in Int /\ InterestOf(now) \in Int
      BY <2>15, Amounts
    <3>2. before \cap now = {}
      BY <2>7
    <3>3. /\ Principal(before \cup now) = Principal(before) + Principal(now)
          /\ InterestOf(before \cup now) = InterestOf(before) + InterestOf(now)
      BY <2>15, <3>2, Amounts
    <3> QED
      BY <3>1, <3>3
  <2>18. paid \subseteq OfLoan(Rows, l)
    BY <2>7, <2>16
  <2> HIDE DEF paid
  <2>19. /\ Terms[l].principal - Principal(paid) = Principal(rest)
         /\ Interest(l) - InterestOf(paid) = InterestOf(rest)
         /\ Principal(rest) \in Nat /\ InterestOf(rest) \in Nat
         /\ Principal(rest) = 0 /\ InterestOf(rest) = 0 <=> rest = {}
    BY <2>18, Rest
  <2> HIDE DEF rest
  <2>20. Terms[l].principal \in Nat /\ Interest(l) \in Nat
    BY Schedule
  <2>21. /\ loan[l].principal - Principal(now) = Principal(rest)
         /\ loan[l].interest - InterestOf(now) = InterestOf(rest)
         /\ loan[l].repaid + Principal(now) = Principal(paid)
         /\ loan[l].earned + InterestOf(now) = InterestOf(paid)
    BY <2>13, <2>17, <2>19, <2>20
  <2>22. /\ AtLeastZero(loan[l].principal - Principal(now)) = Principal(rest)
         /\ AtLeastZero(loan[l].interest - InterestOf(now)) = InterestOf(rest)
    BY <2>19, <2>21 DEF AtLeastZero
  <2>23. loan'[l] = [loan[l] EXCEPT
           !.principal = Principal(rest), !.interest = InterestOf(rest),
           !.repaid = Principal(paid), !.earned = InterestOf(paid),
           !.status = IF rest = {} THEN "closed" ELSE "disbursed"]
    BY <2>12, <2>14, <2>19, <2>21, <2>22 DEF Recover
  <2>24. /\ loan'[l].status = IF rest = {} THEN "closed" ELSE "disbursed"
         /\ loan'[l].principal = Principal(rest)
         /\ loan'[l].interest = InterestOf(rest)
         /\ loan'[l].repaid = Principal(paid)
         /\ loan'[l].earned = InterestOf(paid)
         /\ loan'[l].written = 0
    BY <1>3, <2>13, <2>23 DEF Headers
  <2>25. books'.receivable[l] = loan'[l].principal
    BY <2>13, <2>14, <2>21, <2>24
  <2>26. \A x \in OfLoan(Rows, l) : x \in rest \/ x \in paid
    BY DEF rest
  <2>27. AllRows(l, {"pending", "paid"})'
    <3>1. \A x \in OfLoan(Rows, l) : row'[x].status \in {"pending", "paid"}
      BY <2>9, <2>10, <2>13, <2>26 DEF AllRows
    <3> QED
      BY <3>1 DEF AllRows, OfLoan, Rows
  <2>28. rest = {} => AllRows(l, {"paid"})'
    <3>1. rest = {} => \A x \in OfLoan(Rows, l) : row'[x].status \in {"paid"}
      BY <2>10, <2>26
    <3> QED
      BY <3>1 DEF AllRows, OfLoan, Rows
  <2>29. rest # {} => SomeRow(l, "pending")'
    <3>1. \A x \in rest : x \in OfLoan(Rows, l)
      BY DEF rest
    <3>2. \A x \in rest : row'[x].status = "pending"
      BY <2>9, <2>13, <3>1 DEF AllRows
    <3> QED
      BY <3>1, <3>2 DEF SomeRow, OfLoan, Rows
  <2> QED
    BY <2>11, <2>19, <2>24, <2>25, <2>27, <2>28, <2>29 DEF LoanIs
<1> QED
  BY <1>6, <1>7

\* LoanInv is inductive, for ample loans.
LEMMA LoanNext ==
  ASSUME AmpleLoans, TypeOK, TxnInv, HeldInv, LoanInv, NEW s \in Requests, Steps(s)
  PROVE  LoanInv'
<1> SUFFICES ASSUME NEW l \in Loans \ astray'
             PROVE  LoanIs(l)'
  BY DEF LoanInv
<1>1. l \notin astray /\ LoanIs(l)
  BY Marks DEF LoanInv
<1>2. CASE Approve(s) \/ Cancel(s)
  BY <1>2, LoanDecided
<1>3. CASE Disburse(s)
  BY <1>3, LoanDisbursed
<1>4. CASE WriteOff(s)
  BY <1>4, LoanWritten
<1>5. CASE Post(s)
  BY <1>5, LoanRecovered
<1>6. CASE Create(s)
  <2>1. /\ UNCHANGED <<loan, books>>
        /\ \A x \in Rows : row'[x].status = row[x].status
    BY <1>6, CreateDoes
  <2> QED
    BY <1>1, <2>1, LoanAlone DEF OfLoan
<1>7. CASE Pay(s)
  <2>1. UNCHANGED <<loan, row>> /\ books'.receivable = books.receivable
    BY <1>7, PayDoes
  <2> QED
    BY <1>1, <2>1, LoanAlone
<1>8. CASE Void(s) \/ VoidClaim(s)
  <2>1. UNCHANGED <<loan, row, books>>
    BY <1>8 DEF Void, VoidClaim
  <2> QED
    BY <1>1, <2>1, LoanAlone
<1> QED
  BY <1>2, <1>3, <1>4, <1>5, <1>6, <1>7, <1>8 DEF Steps

\* What the inductive invariant says of a loan is what its books promise.
LEMMA LoansTie ==
  ASSUME TypeOK, LoanInv
  PROVE  LoanTies
<1> SUFFICES ASSUME NEW l \in Loans \ astray
             PROVE  /\ books.receivable[l] = loan[l].principal
                    /\ loan[l].status \in {"disbursed", "closed", "written_off"} =>
                         loan[l].principal + loan[l].repaid + loan[l].written
                           = Terms[l].principal
                    /\ loan[l].status = "disbursed" =>
                         loan[l].interest + loan[l].earned = Interest(l)
                    /\ loan[l].status = "closed"
                         <=> \A x \in OfLoan(Rows, l) : row[x].status = "paid"
  BY DEF LoanTies
<1>1. LoanIs(l)
  BY DEF LoanInv
<1>2. loan[l] \in Headers
  BY TypeParts DEF LoanType
<1>3. Terms[l].principal \in Nat /\ Interest(l) \in Nat
  BY Schedule
<1>4. /\ loan[l].status \in LoanStatus /\ loan[l].principal \in Nat
      /\ loan[l].interest \in Nat /\ loan[l].repaid \in Int /\ loan[l].earned \in Int
      /\ loan[l].written \in Nat
  BY <1>2 DEF Headers
<1>5. books.receivable[l] = loan[l].principal
  BY <1>1 DEF LoanIs
<1>6. loan[l].status \in {"disbursed", "closed", "written_off"} =>
        loan[l].principal + loan[l].repaid + loan[l].written = Terms[l].principal
  <2>1. loan[l].status \in {"disbursed", "closed"} =>
          loan[l].principal = Terms[l].principal - loan[l].repaid /\ loan[l].written = 0
    BY <1>1 DEF LoanIs
  <2>2. loan[l].status = "written_off" =>
          loan[l].principal = 0 /\ loan[l].repaid + loan[l].written = Terms[l].principal
    BY <1>1 DEF LoanIs
  <2> QED
    BY <1>3, <1>4, <2>1, <2>2
<1>7. loan[l].status = "disbursed" => loan[l].interest + loan[l].earned = Interest(l)
  <2>1. loan[l].status = "disbursed" => loan[l].interest = Interest(l) - loan[l].earned
    BY <1>1 DEF LoanIs
  <2> QED
    BY <1>3, <1>4, <2>1
<1>8. loan[l].status = "closed" <=> \A x \in OfLoan(Rows, l) : row[x].status = "paid"
  <2>1. loan[l].status = "closed" => \A x \in OfLoan(Rows, l) : row[x].status = "paid"
    BY <1>1 DEF LoanIs, AllRows
  <2>2. loan[l].status # "closed" => \E x \in OfLoan(Rows, l) : row[x].status # "paid"
    BY <1>1, <1>4, FirstRow DEF LoanIs, AllRows, SomeRow, LoanStatus
  <2> QED
    BY <2>1, <2>2
<1> QED
  BY <1>5, <1>6, <1>7, <1>8

--------------------------------------------------------------------------------
\* The theorems

\* What holds for any loans, and what for ample ones.
Inv == TypeOK /\ TxnInv /\ LentInv /\ TakenInv /\ HoldsInv

\* Without runs, loans paid out and claims everything ties.
LEMMA InitInv == Init => Inv /\ HeldInv /\ LoanInv
<1> SUFFICES ASSUME Init PROVE Inv /\ HeldInv /\ LoanInv
  OBVIOUS
<1>1. TypeOK /\ TxnInv
  BY InitType
<1>2. LentInv
  BY DEF Init, LentInv
<1>3. TakenInv
  BY DEF Init, TakenInv, TakenOnce, NoRun
<1>4. HoldsInv
  BY DEF Init, HoldsInv, RunTies, NoRun
<1>5. HeldInv
  BY DEF Init, HeldInv
<1>6. ASSUME NEW l \in Loans
      PROVE  LoanIs(l)
  <2>1. loan[l] = [status |-> "draft", principal |-> 0, interest |-> 0,
                   repaid |-> 0, earned |-> 0, written |-> 0]
    BY DEF Init
  <2>2. books.receivable[l] = 0
    BY DEF Init
  <2>3. \A x \in OfLoan(Rows, l) : row[x].status = "none"
    BY DEF Init, OfLoan
  <2>4. PaidRows(l) = {} /\ AllRows(l, {"none"})
    BY <2>3 DEF PaidRows, AllRows
  <2>5. Principal(PaidRows(l)) = 0 /\ InterestOf(PaidRows(l)) = 0
    BY <2>4, Amounts
  <2> QED
    BY <2>1, <2>2, <2>4, <2>5 DEF LoanIs
<1> QED
  BY <1>1, <1>2, <1>3, <1>4, <1>5, <1>6 DEF Inv, LoanInv

\* A step that is not a commit changes no document.
LEMMA Idles ==
  ASSUME UNCHANGED <<run, loan, row, claim, books, astray>>
  PROVE  /\ LentInv => LentInv'
         /\ TakenInv => TakenInv'
         /\ HoldsInv => HoldsInv'
         /\ HeldInv => HeldInv'
         /\ LoanInv => LoanInv'
<1>1. (LentInv => LentInv') /\ (TakenInv => TakenInv') /\ (HeldInv => HeldInv')
  BY DEF LentInv, TakenInv, TakenOnce, HeldInv, Rows
<1>2. \A r \in Runs : Net(r)' = Net(r)
  BY NetKept
<1>3. HoldsInv => HoldsInv'
  BY <1>2 DEF HoldsInv, RunTies, Rows
<1>4. \A l \in Loans : LoanIs(l) => LoanIs(l)'
  BY LoanAlone
<1>5. LoanInv => LoanInv'
  BY <1>4 DEF LoanInv
<1> QED
  BY <1>1, <1>3, <1>5

\* The invariant is inductive.
LEMMA NextInv == Inv /\ [Next]_vars => Inv'
<1> SUFFICES ASSUME Inv, [Next]_vars PROVE Inv'
  OBVIOUS
<1>1. TypeOK' /\ TxnInv'
  BY NextType DEF Inv
<1>2. CASE UNCHANGED vars
  BY <1>1, <1>2, Idles DEF Inv, vars
<1>3. ASSUME NEW s \in Requests, Begin(s) \/ RollBack(s)
      PROVE  Inv'
  BY <1>1, <1>3, Waits, Idles DEF Inv
<1>4. ASSUME NEW s \in Requests, Steps(s)
      PROVE  Inv'
  BY <1>1, <1>4, LentNext, TakenNext, HoldsNext DEF Inv
<1> QED
  BY <1>2, <1>3, <1>4, NextIs

\* And so is what it says of the loan book.
LEMMA NextLoans ==
  AmpleLoans /\ Inv /\ HeldInv /\ LoanInv /\ [Next]_vars => HeldInv' /\ LoanInv'
<1> SUFFICES ASSUME AmpleLoans, Inv, HeldInv, LoanInv, [Next]_vars
             PROVE  HeldInv' /\ LoanInv'
  OBVIOUS
<1>1. CASE UNCHANGED vars
  BY <1>1, Idles DEF vars
<1>2. ASSUME NEW s \in Requests, Begin(s) \/ RollBack(s)
      PROVE  HeldInv' /\ LoanInv'
  BY <1>2, Waits, Idles
<1>3. ASSUME NEW s \in Requests, Steps(s)
      PROVE  HeldInv' /\ LoanInv'
  BY <1>3, HeldNext, LoanNext DEF Inv
<1> QED
  BY <1>1, <1>2, <1>3, NextIs

\* For any runs, loans, claims and number of requests in flight.
THEOREM Invariance == Spec => []Inv
<1>1. Init => Inv
  BY InitInv
<1>2. Inv /\ [Next]_vars => Inv'
  BY NextInv
<1> QED
  BY <1>1, <1>2, PTL DEF Spec

\* Whatever requests overlap, a loan is paid out once (POST
\* /employee-loans/:id/disburse): only the index of the schedule stops the second.
THEOREM LentOnlyOnce == Spec => []LentOnce
<1>1. Inv => LentOnce
  <2> SUFFICES ASSUME LentInv, NEW l \in Loans
               PROVE  books.lent[l] <= 1
    BY DEF Inv, LentOnce
  <2>1. books.lent[l] \in {0, 1}
    BY DEF LentInv
  <2>2. \A n \in {0, 1} : n <= 1
    OBVIOUS
  <2> QED
    BY <2>1, <2>2
<1> QED
  BY <1>1, Invariance, PTL

\* Whatever requests overlap, no month has two runs; and no instalment is deducted, no
\* claim reimbursed by two runs, of those that no late request marked.
THEOREM TakenOnlyOnce == Spec => []TakenOnce
<1>1. Inv => TakenOnce
  BY DEF Inv, TakenInv
<1> QED
  BY <1>1, Invariance, PTL

\* Whatever requests overlap, salaries payable and the deductions withheld agree with
\* the status of each run that no late request marked (post and pay of a run).
THEOREM RunsTie == Spec => []RunTies
<1>1. Inv => RunTies
  BY DEF Inv, HoldsInv
<1> QED
  BY <1>1, Invariance, PTL

\* For loans of at least n * n cents over n months: whatever requests overlap, and in
\* whatever order the months are run, the header of a loan that no late request marked
\* is what its instalments and the ledger say, and it is closed exactly when they
\* are all paid (buildSchedule, postPayrollRunCore, disburse and write-off).
THEOREM LoansTied == AmpleLoans => (Spec => []LoanTies)
<1> SUFFICES ASSUME AmpleLoans
             PROVE  Spec => []LoanTies
  OBVIOUS
<1> DEFINE All == Inv /\ HeldInv /\ LoanInv
<1>1. Init => All
  BY InitInv
<1>2. All /\ [Next]_vars => All'
  BY NextInv, NextLoans
<1>3. All => LoanTies
  BY LoansTie DEF Inv
<1> QED
  BY <1>1, <1>2, <1>3, PTL DEF Spec
================================================================================
