----------------------------- MODULE Arithmetic -----------------------------
(***************************************************************************)
(* What the proofs of several components know of natural numbers:          *)
(* Solidity's division, which rounds down, as \div; products; and          *)
(* induction, over sets of numbers: the library states it of predicates,   *)
(* which no prover here can instantiate, so it is derived from the fact    *)
(* that < is well-founded.                                                 *)
(***************************************************************************)
EXTENDS Integers, FiniteSets, WellFoundedInduction, FiniteSetTheorems, TLAPS

-----------------------------------------------------------------------------
(* Division and products. *)

\* A floored quotient is the largest number that times the divisor fits.
LEMMA DivFacts ==
  ASSUME NEW a \in Nat, NEW b \in Nat, b > 0
  PROVE  /\ a \div b \in Nat
         /\ b * (a \div b) <= a
  BY SMT

LEMMA DivUpper ==
  ASSUME NEW a \in Nat, NEW b \in Nat, b > 0
  PROVE  a < b * (a \div b) + b
  BY SMT

LEMMA DivLargest ==
  ASSUME NEW a \in Nat, NEW b \in Nat, NEW k \in Nat, b > 0, b * k <= a
  PROVE  k <= a \div b
  BY SMT

\* Products of natural numbers are natural and grow with their factors.
LEMMA Products ==
  ASSUME NEW a \in Nat, NEW b \in Nat, NEW c \in Nat, a <= b
  PROVE  a * c \in Nat /\ b * c \in Nat /\ a * c <= b * c
  BY SMT

\* A positive factor can be left out on both sides.
LEMMA Cancel ==
  ASSUME NEW a \in Nat, NEW b \in Nat, NEW c \in Nat, c > 0, a * c <= b * c
  PROVE  a <= b
<1>1. SUFFICES ASSUME b + 1 <= a PROVE FALSE
  BY SMT
<1>2. (b + 1) * c <= a * c
  BY <1>1, Products
<1>3. (b + 1) * c = b * c + c
  BY SMT
<1>4. b * c \in Nat /\ a * c \in Nat
  BY SMT
<1> QED
  BY <1>2, <1>3, <1>4, SMT

-----------------------------------------------------------------------------
(* Induction. *)

\* The order of the natural numbers, as a relation.
Less == {pair \in Nat \X Nat : pair[1] < pair[2]}

LEMMA LessIsWellFounded == IsWellFoundedOn(Less, Nat)
  BY NatLessThanWellFounded, Zenon DEF Less, OpToRel

\* Every set of natural numbers but the empty one has a least element.
LEMMA LeastElement ==
  ASSUME NEW T \in SUBSET Nat, T # {}
  PROVE  \E x \in T : \A y \in T : x <= y
<1>1. PICK x \in T : \A y \in T : <<y, x>> \notin Less
  BY LessIsWellFounded, WFMin, Zenon
<1>2. ASSUME NEW y \in T PROVE x <= y
  <2>1. x \in Nat /\ y \in Nat
    OBVIOUS
  <2>2. <<y, x>> \notin Less
    BY <1>1
  <2>3. ~(y < x)
    BY <2>1, <2>2 DEF Less
  <2> QED
    BY <2>1, <2>3
<1> QED
  BY <1>2

\* A set that has 0 and with every number the next one has all of them.
LEMMA Induction ==
  ASSUME NEW S, 0 \in S, \A n \in Nat : n \in S => n + 1 \in S
  PROVE  \A n \in Nat : n \in S
<1> SUFFICES ASSUME Nat \ S # {} PROVE FALSE
  OBVIOUS
<1>1. PICK m \in Nat \ S : \A y \in Nat \ S : m <= y
  <2>1. Nat \ S \in SUBSET Nat
    OBVIOUS
  <2> QED
    BY <2>1, LeastElement
<1>2. m # 0 /\ m - 1 \in Nat
  BY SMT
<1>3. m - 1 \in S
  BY <1>1, <1>2, SMT
<1>4. (m - 1) + 1 \in S
  BY <1>2, <1>3
<1> QED
  BY <1>4, SMT

\* The same up to a bound.
LEMMA InductionUpTo ==
  ASSUME NEW N \in Nat, NEW S, 0 \in S,
         \A n \in 0..(N - 1) : n \in S => n + 1 \in S
  PROVE  \A n \in 0..N : n \in S
<1> DEFINE T == {n \in Nat : n <= N => n \in S}
<1>1. 0 \in T
  OBVIOUS
<1>2. ASSUME NEW n \in Nat, n \in T PROVE n + 1 \in T
  BY <1>2
<1>3. \A n \in Nat : n \in T
  <2> HIDE DEF T
  <2> QED
    BY <1>1, <1>2, Induction
<1> QED
  BY <1>3

-----------------------------------------------------------------------------
(* Sums over finite sets, as MapThenSumSet of the community modules has    *)
(* them, of the values of a function.                                      *)

\* An element of a set, always the same.
Some(T) == CHOOSE x \in T : TRUE

\* What a sum is, given the sums over smaller sets.
SumFrom(f, sum, T) == IF T = {} THEN 0 ELSE f[Some(T)] + sum[T \ {Some(T)}]

SumOver(f, S) ==
  LET iter[s \in SUBSET S] ==
        IF s = {} THEN 0
        ELSE LET x == CHOOSE y \in s : TRUE
             IN  f[x] + iter[s \ {x}]
  IN  iter[S]

\* sum has the sums of f over the subsets of S.
Sums(f, S, sum) == sum = [T \in SUBSET S |-> SumFrom(f, sum, T)]

LEMMA SumOverIs ==
  ASSUME NEW f, NEW S
  PROVE  SumOver(f, S) = (CHOOSE sum : Sums(f, S, sum))[S]
  BY DEF SumOver, Sums, SumFrom, Some

LEMMA SomeIn ==
  ASSUME NEW T, T # {}
  PROVE  Some(T) \in T
  BY DEF Some

\* The size of a finite set without one of its elements.
LEMMA Smaller ==
  ASSUME NEW T, IsFiniteSet(T), NEW x \in T
  PROVE  /\ IsFiniteSet(T \ {x})
         /\ Cardinality(T) \in Nat /\ Cardinality(T) # 0
         /\ Cardinality(T \ {x}) = Cardinality(T) - 1
<1>1. Cardinality(T) \in Nat
  BY FS_CardinalityType
<1>2. Cardinality(T) # 0
  BY FS_EmptySet
<1>3. IsFiniteSet(T \ {x}) /\ Cardinality(T \ {x}) = Cardinality(T) - 1
  BY FS_RemoveElement
<1> QED
  BY <1>1, <1>2, <1>3

\* Induction over the subsets of a finite set: P has the empty one, and a
\* nonempty one as soon as it has all those with an element less.
LEMMA SetInduction ==
  ASSUME NEW S, IsFiniteSet(S), NEW P,
         {} \in P,
         \A T \in SUBSET S :
           T # {} /\ (\A x \in T : T \ {x} \in P) => T \in P
  PROVE  \A T \in SUBSET S : T \in P
<1> DEFINE N == {n \in Nat : \A T \in SUBSET S : Cardinality(T) = n => T \in P}
<1>0. \A T \in SUBSET S : IsFiniteSet(T) /\ Cardinality(T) \in Nat
  BY FS_Subset, FS_CardinalityType
<1>1. 0 \in N
  BY <1>0, FS_EmptySet
<1>2. ASSUME NEW n \in Nat, n \in N PROVE n + 1 \in N
  <2>1. ASSUME NEW T \in SUBSET S, Cardinality(T) = n + 1 PROVE T \in P
    <3>1. T # {}
      BY <1>0, <2>1, FS_EmptySet
    <3>2. ASSUME NEW x \in T PROVE T \ {x} \in P
      <4>1. Cardinality(T \ {x}) = n /\ T \ {x} \in SUBSET S
        BY <1>0, <2>1, Smaller
      <4> QED
        BY <1>2, <4>1
    <3> QED
      BY <3>1, <3>2
  <2> QED
    BY <2>1
<1>3. \A n \in Nat : n \in N
  <2> HIDE DEF N
  <2> QED
    BY <1>1, <1>2, Induction
<1> QED
  BY <1>0, <1>3

\* There are such sums: one size of set after the other.
LEMMA SumsExist ==
  ASSUME NEW f, NEW S, IsFiniteSet(S)
  PROVE  \E sum : Sums(f, S, sum)
<1> DEFINE UpTo(n, sum) ==
             sum = [T \in SUBSET S |->
                      IF Cardinality(T) <= n THEN SumFrom(f, sum, T) ELSE 0]
           N == {n \in Nat : \E sum : UpTo(n, sum)}
<1>0. \A T \in SUBSET S : IsFiniteSet(T) /\ Cardinality(T) \in Nat
                            /\ Cardinality(T) <= Cardinality(S)
  BY FS_Subset, FS_CardinalityType
<1>00. \A T \in SUBSET S : (Cardinality(T) = 0 <=> T = {})
  BY <1>0, FS_EmptySet
<1>000. \A T \in SUBSET S : T # {} =>
          /\ T \ {Some(T)} \in SUBSET S
          /\ Cardinality(T \ {Some(T)}) = Cardinality(T) - 1
  BY <1>0, Smaller, SomeIn
<1>1. 0 \in N
  <2> DEFINE zero == [T \in SUBSET S |-> 0]
  <2>1. ASSUME NEW T \in SUBSET S
        PROVE  (IF Cardinality(T) <= 0 THEN SumFrom(f, zero, T) ELSE 0) = 0
    BY <1>0, <1>00 DEF SumFrom
  <2>2. UpTo(0, zero)
    BY <2>1
  <2> QED
    BY <2>2
<1>2. ASSUME NEW n \in Nat, n \in N PROVE n + 1 \in N
  <2>1. PICK sum : UpTo(n, sum)
    BY <1>2
  <2> DEFINE more == [T \in SUBSET S |->
                        IF Cardinality(T) <= n + 1 THEN SumFrom(f, sum, T) ELSE 0]
  <2>2. ASSUME NEW T \in SUBSET S, Cardinality(T) <= n
        PROVE  more[T] = sum[T]
    <3>1. Cardinality(T) <= n + 1
      BY <1>0, <2>2
    <3> QED
      BY <2>1, <2>2, <3>1
  <2>3. ASSUME NEW T \in SUBSET S, Cardinality(T) <= n + 1
        PROVE  SumFrom(f, sum, T) = SumFrom(f, more, T)
    <3>1. CASE T = {}
      BY <3>1 DEF SumFrom
    <3>2. CASE T # {}
      <4>1. T \ {Some(T)} \in SUBSET S /\ Cardinality(T \ {Some(T)}) <= n
        BY <1>0, <1>000, <2>3, <3>2
      <4>2. more[T \ {Some(T)}] = sum[T \ {Some(T)}]
        BY <2>2, <4>1
      <4> QED
        BY <4>2 DEF SumFrom
    <3> QED
      BY <3>1, <3>2
  <2>4. UpTo(n + 1, more)
    BY <2>3
  <2>5. \E g : UpTo(n + 1, g)
    <3> HIDE DEF UpTo, more
    <3> QED
      BY <2>4
  <2> QED
    BY <2>5
<1>3. \A n \in Nat : n \in N
  <2> HIDE DEF N
  <2> QED
    BY <1>1, <1>2, Induction
<1>4. PICK sum : UpTo(Cardinality(S), sum)
  BY <1>0, <1>3
<1>5. sum = [T \in SUBSET S |-> SumFrom(f, sum, T)]
  BY <1>0, <1>4
<1> QED
  BY <1>5 DEF Sums

\* The sums over common subsets are the same, and those of functions that
\* agree.
LEMMA SumsAgree ==
  ASSUME NEW f, NEW S, NEW sum, Sums(f, S, sum),
         NEW g, NEW R, NEW tot, Sums(g, R, tot),
         IsFiniteSet(S), S \subseteq R, \A x \in S : f[x] = g[x]
  PROVE  \A T \in SUBSET S : sum[T] = tot[T]
<1> DEFINE P == {T \in SUBSET S : sum[T] = tot[T]}
<1>0. \A T \in SUBSET S : /\ sum[T] = SumFrom(f, sum, T)
                           /\ tot[T] = SumFrom(g, tot, T)
  BY DEF Sums
<1>1. {} \in P
  BY <1>0 DEF SumFrom
<1>2. ASSUME NEW T \in SUBSET S, T # {}, \A x \in T : T \ {x} \in P
      PROVE  T \in P
  <2>1. Some(T) \in T
    BY <1>2, SomeIn
  <2>2. sum[T \ {Some(T)}] = tot[T \ {Some(T)}]
    BY <1>2, <2>1
  <2> QED
    BY <1>0, <1>2, <2>1, <2>2 DEF SumFrom
<1>3. \A T \in SUBSET S : T \in P
  <2> HIDE DEF P
  <2> QED
    BY <1>1, <1>2, SetInduction
<1> QED
  BY <1>3

LEMMA SumsOf ==
  ASSUME NEW f, NEW S, IsFiniteSet(S)
  PROVE  \E sum : Sums(f, S, sum) /\ \A T \in SUBSET S : SumOver(f, T) = sum[T]
<1> DEFINE Of(T) == CHOOSE sum : Sums(f, T, sum)
<1>1. \A T \in SUBSET S : Sums(f, T, Of(T))
  <2>1. ASSUME NEW T \in SUBSET S PROVE \E sum : Sums(f, T, sum)
    BY FS_Subset, SumsExist
  <2> QED
    BY <2>1
<1>2. ASSUME NEW T \in SUBSET S PROVE SumOver(f, T) = Of(S)[T]
  <2>1. SumOver(f, T) = Of(T)[T]
    BY SumOverIs
  <2>2. IsFiniteSet(T)
    BY FS_Subset
  <2>3. Sums(f, T, Of(T)) /\ Sums(f, S, Of(S))
    BY <1>1
  <2>4. \A U \in SUBSET T : Of(T)[U] = Of(S)[U]
    <3> HIDE DEF Of
    <3> QED
      BY <2>2, <2>3, SumsAgree
  <2> QED
    BY <2>1, <2>4
<1> QED
  BY <1>1, <1>2

\* A sum over nothing, and a sum over something.
LEMMA SumEmpty ==
  ASSUME NEW f
  PROVE  SumOver(f, {}) = 0
<1>1. PICK sum : Sums(f, {}, sum) /\ \A T \in SUBSET {} : SumOver(f, T) = sum[T]
  BY SumsOf, FS_EmptySet
<1> QED
  BY <1>1 DEF Sums, SumFrom

LEMMA SumSome ==
  ASSUME NEW f, NEW S, IsFiniteSet(S), S # {}
  PROVE  SumOver(f, S) = f[Some(S)] + SumOver(f, S \ {Some(S)})
<1>1. PICK sum : Sums(f, S, sum) /\ \A T \in SUBSET S : SumOver(f, T) = sum[T]
  BY SumsOf
<1> QED
  BY <1>1 DEF Sums, SumFrom

\* Only the values over the set count.
LEMMA SumAgree ==
  ASSUME NEW f, NEW g, NEW S, IsFiniteSet(S), \A x \in S : f[x] = g[x]
  PROVE  SumOver(f, S) = SumOver(g, S)
<1>1. PICK sum : Sums(f, S, sum) /\ \A T \in SUBSET S : SumOver(f, T) = sum[T]
  BY SumsOf
<1>2. PICK tot : Sums(g, S, tot) /\ \A T \in SUBSET S : SumOver(g, T) = tot[T]
  BY SumsOf
<1>3. sum[S] = tot[S]
  BY <1>1, <1>2, SumsAgree
<1> QED
  BY <1>1, <1>2, <1>3

LEMMA SumType ==
  ASSUME NEW f, NEW S, IsFiniteSet(S), \A x \in S : f[x] \in Nat
  PROVE  SumOver(f, S) \in Nat
<1> DEFINE P == {T \in SUBSET S : SumOver(f, T) \in Nat}
<1>1. {} \in P
  BY SumEmpty
<1>2. ASSUME NEW T \in SUBSET S, T # {}, \A x \in T : T \ {x} \in P
      PROVE  T \in P
  <2>1. Some(T) \in T /\ IsFiniteSet(T)
    BY <1>2, SomeIn, FS_Subset
  <2>2. SumOver(f, T) = f[Some(T)] + SumOver(f, T \ {Some(T)})
    BY <1>2, <2>1, SumSome
  <2>3. f[Some(T)] \in Nat /\ SumOver(f, T \ {Some(T)}) \in Nat
    BY <1>2, <2>1
  <2> QED
    BY <2>2, <2>3
<1>3. \A T \in SUBSET S : T \in P
  <2> HIDE DEF P
  <2> QED
    BY <1>1, <1>2, SetInduction
<1> QED
  BY <1>3

\* Any element may be taken first.
LEMMA SumWithout ==
  ASSUME NEW f, NEW S, IsFiniteSet(S), \A x \in S : f[x] \in Nat,
         NEW a \in S
  PROVE  /\ SumOver(f, S) = f[a] + SumOver(f, S \ {a})
         /\ SumOver(f, S \ {a}) \in Nat
<1> DEFINE P == {T \in SUBSET S :
                   \A x \in T : SumOver(f, T) = f[x] + SumOver(f, T \ {x})}
<1>0. \A T \in SUBSET S : IsFiniteSet(T) /\ SumOver(f, T) \in Nat
  <2>1. ASSUME NEW T \in SUBSET S PROVE IsFiniteSet(T) /\ SumOver(f, T) \in Nat
    <3>1. IsFiniteSet(T)
      BY FS_Subset
    <3> QED
      BY <3>1, SumType
  <2> QED
    BY <2>1
<1>1. {} \in P
  OBVIOUS
<1>2. ASSUME NEW T \in SUBSET S, T # {}, \A x \in T : T \ {x} \in P
      PROVE  T \in P
  <2> DEFINE c == Some(T)
  <2>1. c \in T
    BY <1>2, SomeIn
  <2>2. SumOver(f, T) = f[c] + SumOver(f, T \ {c})
    BY <1>0, <1>2, SumSome
  <2> HIDE DEF c
  <2>3. ASSUME NEW x \in T, x # c
        PROVE  SumOver(f, T) = f[x] + SumOver(f, T \ {x})
    <3> DEFINE rest == (T \ {c}) \ {x}
    <3>1. T \ {c} \in P /\ T \ {x} \in P
      BY <1>2, <2>1
    <3>2. SumOver(f, T \ {c}) = f[x] + SumOver(f, rest)
      BY <2>3, <3>1
    <3>3. SumOver(f, T \ {x}) = f[c] + SumOver(f, rest)
      <4>1. (T \ {x}) \ {c} = rest
        OBVIOUS
      <4>2. SumOver(f, T \ {x}) = f[c] + SumOver(f, (T \ {x}) \ {c})
        BY <2>1, <2>3, <3>1
      <4> QED
        BY <4>1, <4>2
    <3>4. f[x] \in Nat /\ f[c] \in Nat /\ SumOver(f, rest) \in Nat
      BY <1>0, <2>1
    <3> HIDE DEF rest
    <3> QED
      BY <2>2, <3>2, <3>3, <3>4, SMT
  <2> QED
    BY <2>2, <2>3
<1>3. \A T \in SUBSET S : T \in P
  <2> HIDE DEF P
  <2> QED
    BY <1>1, <1>2, SetInduction
<1>4. S \ {a} \in SUBSET S
  OBVIOUS
<1> QED
  BY <1>0, <1>3, <1>4

\* Elements of value 0 may be left out.
LEMMA SumZeros ==
  ASSUME NEW f, NEW S, IsFiniteSet(S), \A x \in S : f[x] \in Nat,
         NEW R \in SUBSET S, \A x \in S \ R : f[x] = 0
  PROVE  SumOver(f, S) = SumOver(f, R)
<1> DEFINE P == {T \in SUBSET S : SumOver(f, T) = SumOver(f, T \cap R)}
<1>0. \A T \in SUBSET S : IsFiniteSet(T)
  BY FS_Subset
<1>1. {} \in P
  <2>1. {} \cap R = {}
    OBVIOUS
  <2> QED
    BY <2>1
<1>2. ASSUME NEW T \in SUBSET S, T # {}, \A x \in T : T \ {x} \in P
      PROVE  T \in P
  <2>1. PICK c \in T : TRUE
    BY <1>2
  <2>2. /\ SumOver(f, T) = f[c] + SumOver(f, T \ {c})
        /\ SumOver(f, T \ {c}) \in Nat /\ f[c] \in Nat
    <3>1. IsFiniteSet(T) /\ \A x \in T : f[x] \in Nat
      BY <1>0
    <3>2. \A x \in T : SumOver(f, T) = f[x] + SumOver(f, T \ {x})
                         /\ SumOver(f, T \ {x}) \in Nat
      BY <3>1, SumWithout, Zenon
    <3> QED
      BY <2>1, <3>1, <3>2, Zenon
  <2>3. SumOver(f, T \ {c}) = SumOver(f, (T \ {c}) \cap R)
    BY <1>2
  <2>4. CASE c \in R
    <3>1. (T \cap R) \ {c} = (T \ {c}) \cap R /\ c \in T \cap R /\ T \cap R \in SUBSET S
      BY <2>4
    <3>2. SumOver(f, T \cap R) = f[c] + SumOver(f, (T \cap R) \ {c})
      <4>1. IsFiniteSet(T \cap R) /\ \A x \in T \cap R : f[x] \in Nat
        BY <1>0, <3>1
      <4> QED
        BY <3>1, <4>1, SumWithout
    <3> QED
      BY <2>2, <2>3, <3>1, <3>2
  <2>5. CASE c \notin R
    <3>1. T \cap R = (T \ {c}) \cap R
      BY <2>5
    <3>2. f[c] = 0
      BY <2>5
    <3>3. SumOver(f, T) = SumOver(f, T \ {c})
      BY <2>2, <3>2
    <3> QED
      BY <2>3, <3>1, <3>3
  <2> QED
    BY <2>4, <2>5
<1>3. \A T \in SUBSET S : T \in P
  <2> HIDE DEF P
  <2> QED
    BY <1>1, <1>2, SetInduction
<1>4. S \cap R = R
  OBVIOUS
<1> QED
  BY <1>3, <1>4

\* One value changes, and the sum with it.
LEMMA SumChange ==
  ASSUME NEW S, IsFiniteSet(S), NEW f \in [S -> Nat], NEW g \in [S -> Nat],
         NEW a \in S, \A x \in S \ {a} : g[x] = f[x]
  PROVE  /\ SumOver(f, S) \in Nat
         /\ SumOver(g, S) = SumOver(f, S) - f[a] + g[a]
<1> DEFINE rest == S \ {a}
<1>1. f[a] \in Nat /\ g[a] \in Nat
  OBVIOUS
<1>2. SumOver(f, S) = f[a] + SumOver(f, rest) /\ SumOver(f, rest) \in Nat
  <2>1. \A x \in S : f[x] \in Nat
    OBVIOUS
  <2> QED
    BY <2>1, SumWithout
<1>3. SumOver(g, S) = g[a] + SumOver(g, rest)
  <2>1. \A x \in S : g[x] \in Nat
    OBVIOUS
  <2> QED
    BY <2>1, SumWithout
<1>4. SumOver(f, rest) = SumOver(g, rest)
  <2>1. IsFiniteSet(rest)
    BY FS_RemoveElement
  <2> QED
    BY <2>1, SumAgree
<1> HIDE DEF rest
<1> QED
  BY <1>1, <1>2, <1>3, <1>4, SMT

\* No value, and no two values together, exceed the sum.
LEMMA SumCovers ==
  ASSUME NEW S, IsFiniteSet(S), NEW f \in [S -> Nat], NEW a \in S
  PROVE  /\ SumOver(f, S) \in Nat
         /\ f[a] <= SumOver(f, S)
         /\ \A b \in S \ {a} : f[a] + f[b] <= SumOver(f, S)
<1> DEFINE rest == S \ {a}
<1>1. f[a] \in Nat
  OBVIOUS
<1>2. SumOver(f, S) = f[a] + SumOver(f, rest) /\ SumOver(f, rest) \in Nat
  <2>1. \A x \in S : f[x] \in Nat
    OBVIOUS
  <2> QED
    BY <2>1, SumWithout
<1>3. ASSUME NEW b \in rest PROVE f[a] + f[b] <= SumOver(f, S)
  <2>1. IsFiniteSet(rest) /\ \A x \in rest : f[x] \in Nat
    BY FS_RemoveElement
  <2>2. /\ SumOver(f, rest) = f[b] + SumOver(f, rest \ {b})
        /\ SumOver(f, rest \ {b}) \in Nat
    BY <2>1, SumWithout
  <2>3. f[b] \in Nat
    BY <2>1
  <2> QED
    BY <1>1, <1>2, <2>2, <2>3, SMT
<1>4. f[a] <= SumOver(f, S) /\ SumOver(f, S) \in Nat
  BY <1>1, <1>2, SMT
<1> QED
  BY <1>3, <1>4

\* Sums grow with the values.
LEMMA SumMonotone ==
  ASSUME NEW S, IsFiniteSet(S), NEW f \in [S -> Nat], NEW g \in [S -> Nat],
         \A x \in S : f[x] <= g[x]
  PROVE  /\ SumOver(f, S) \in Nat /\ SumOver(g, S) \in Nat
         /\ SumOver(f, S) <= SumOver(g, S)
<1> DEFINE P == {T \in SUBSET S : SumOver(f, T) <= SumOver(g, T)}
<1>0. \A T \in SUBSET S : /\ IsFiniteSet(T)
                           /\ SumOver(f, T) \in Nat /\ SumOver(g, T) \in Nat
  <2> SUFFICES ASSUME NEW T \in SUBSET S
               PROVE  /\ IsFiniteSet(T)
                      /\ SumOver(f, T) \in Nat /\ SumOver(g, T) \in Nat
    OBVIOUS
  <2>1. IsFiniteSet(T)
    BY FS_Subset
  <2>2. \A x \in T : f[x] \in Nat /\ g[x] \in Nat
    OBVIOUS
  <2> QED
    BY <2>1, <2>2, SumType
<1>1. {} \in P
  BY SumEmpty
<1>2. ASSUME NEW T \in SUBSET S, T # {}, \A x \in T : T \ {x} \in P
      PROVE  T \in P
  <2> DEFINE c == Some(T)
  <2>1. c \in T /\ IsFiniteSet(T)
    BY <1>0, <1>2, SomeIn
  <2>2. /\ SumOver(f, T) = f[c] + SumOver(f, T \ {c})
        /\ SumOver(g, T) = g[c] + SumOver(g, T \ {c})
    BY <1>2, <2>1, SumSome
  <2> HIDE DEF c
  <2>3. SumOver(f, T \ {c}) <= SumOver(g, T \ {c})
    BY <1>2, <2>1
  <2>4. T \ {c} \in SUBSET S
    OBVIOUS
  <2>5. /\ SumOver(f, T \ {c}) \in Nat /\ SumOver(g, T \ {c}) \in Nat
        /\ f[c] \in Nat /\ g[c] \in Nat /\ f[c] <= g[c]
    BY <1>0, <2>1, <2>4
  <2>6. SumOver(f, T) <= SumOver(g, T)
    BY <2>2, <2>3, <2>5, SMT
  <2> QED
    BY <2>6
<1>3. \A T \in SUBSET S : T \in P
  <2> HIDE DEF P
  <2> QED
    BY <1>1, <1>2, SetInduction
<1> QED
  BY <1>0, <1>3

\* Sums are linear.
Linear(h, f, k, g, S) == \A x \in S : h[x] = f[x] + k * g[x]

LEMMA SumLinear ==
  ASSUME NEW S, IsFiniteSet(S), NEW f \in [S -> Nat], NEW g \in [S -> Nat],
         NEW k \in Nat, NEW h \in [S -> Nat], Linear(h, f, k, g, S)
  PROVE  SumOver(h, S) = SumOver(f, S) + k * SumOver(g, S)
<1> DEFINE P == {T \in SUBSET S :
                   SumOver(h, T) = SumOver(f, T) + k * SumOver(g, T)}
<1>0. \A T \in SUBSET S : /\ IsFiniteSet(T) /\ SumOver(h, T) \in Nat
                           /\ SumOver(f, T) \in Nat /\ SumOver(g, T) \in Nat
  <2> SUFFICES ASSUME NEW T \in SUBSET S
               PROVE  /\ IsFiniteSet(T) /\ SumOver(h, T) \in Nat
                      /\ SumOver(f, T) \in Nat /\ SumOver(g, T) \in Nat
    OBVIOUS
  <2>1. IsFiniteSet(T)
    BY FS_Subset
  <2>2. \A x \in T : f[x] \in Nat /\ g[x] \in Nat /\ h[x] \in Nat
    OBVIOUS
  <2> QED
    BY <2>1, <2>2, SumType
<1>1. {} \in P
  <2>1. SumOver(h, {}) = 0 /\ SumOver(f, {}) = 0 /\ SumOver(g, {}) = 0
    BY SumEmpty
  <2>2. SumOver(h, {}) = SumOver(f, {}) + k * SumOver(g, {})
    BY <2>1, SMT
  <2> QED
    BY <2>2
<1>2. ASSUME NEW T \in SUBSET S, T # {}, \A x \in T : T \ {x} \in P
      PROVE  T \in P
  <2> DEFINE c == Some(T)
             F == SumOver(f, T \ {c})
             G == SumOver(g, T \ {c})
  <2>1. c \in T /\ IsFiniteSet(T)
    BY <1>0, <1>2, SomeIn
  <2>2. /\ SumOver(f, T) = f[c] + F
        /\ SumOver(g, T) = g[c] + G
        /\ SumOver(h, T) = h[c] + SumOver(h, T \ {c})
    BY <1>2, <2>1, SumSome
  <2>3. SumOver(h, T \ {c}) = F + k * G
    BY <1>2, <2>1
  <2>4. T \ {c} \in SUBSET S
    OBVIOUS
  <2>5. F \in Nat /\ G \in Nat
    BY <1>0, <2>4
  <2>6. f[c] \in Nat /\ g[c] \in Nat /\ h[c] = f[c] + k * g[c]
    BY <2>1 DEF Linear
  <2> HIDE DEF F, G, c
  <2>7. k * (g[c] + G) = k * g[c] + k * G
    BY <2>5, <2>6, SMT
  <2>8. k * g[c] \in Nat /\ k * G \in Nat
    BY <2>5, <2>6, SMT
  <2>9. (f[c] + k * g[c]) + (F + k * G) = (f[c] + F) + (k * g[c] + k * G)
    <3> DEFINE u == k * g[c]
               v == k * G
    <3> HIDE DEF u, v
    <3>1. u \in Nat /\ v \in Nat
      BY <2>8 DEF u, v
    <3>2. (f[c] + u) + (F + v) = (f[c] + F) + (u + v)
      BY <2>5, <2>6, <3>1, SMT
    <3> QED
      BY <3>2 DEF u, v
  <2>10. SumOver(h, T) = SumOver(f, T) + k * SumOver(g, T)
    BY <2>2, <2>3, <2>6, <2>7, <2>9
  <2> QED
    BY <2>10
<1>3. \A T \in SUBSET S : T \in P
  <2> HIDE DEF P
  <2> QED
    BY <1>1, <1>2, SetInduction
<1> QED
  BY <1>3

\* Zeros have no sum.
LEMMA SumZero ==
  ASSUME NEW S, IsFiniteSet(S), NEW f, \A x \in S : f[x] = 0
  PROVE  SumOver(f, S) = 0
<1>1. {} \in SUBSET S /\ \A x \in S : f[x] \in Nat
  OBVIOUS
<1>2. SumOver(f, S) = SumOver(f, {})
  BY <1>1, SumZeros
<1> QED
  BY <1>2, SumEmpty

\* A common factor may be taken out.
Scaled(h, k, f, S) == \A x \in S : h[x] = k * f[x]

LEMMA SumScaled ==
  ASSUME NEW S, IsFiniteSet(S), NEW f \in [S -> Nat], NEW k \in Nat,
         NEW h \in [S -> Nat], Scaled(h, k, f, S)
  PROVE  SumOver(h, S) = k * SumOver(f, S)
<1> DEFINE zero == [x \in S |-> 0]
<1>1. zero \in [S -> Nat] /\ \A x \in S : zero[x] = 0
  OBVIOUS
<1> HIDE DEF zero
<1>2. SumOver(zero, S) = 0
  BY <1>1, SumZero
<1>3. ASSUME NEW x \in S PROVE h[x] = zero[x] + k * f[x]
  <2>1. h[x] \in Nat /\ h[x] = k * f[x] /\ zero[x] = 0
    BY <1>1 DEF Scaled
  <2>2. h[x] = 0 + h[x]
    BY <2>1
  <2> QED
    BY <2>1, <2>2
<1>40. Linear(h, zero, k, f, S)
  BY <1>3 DEF Linear
<1>4. SumOver(h, S) = SumOver(zero, S) + k * SumOver(f, S)
  BY <1>1, <1>40, SumLinear
<1>5. SumOver(h, S) \in Nat
  <2>1. \A x \in S : h[x] \in Nat
    OBVIOUS
  <2> QED
    BY <2>1, SumType
<1>6. k * SumOver(f, S) \in Nat
  <2>1. SumOver(f, S) \in Nat
    <3>1. \A x \in S : f[x] \in Nat
      OBVIOUS
    <3> QED
      BY <3>1, SumType
  <2> QED
    BY <2>1, SMT
<1> QED
  BY <1>2, <1>4, <1>5, <1>6
=============================================================================
