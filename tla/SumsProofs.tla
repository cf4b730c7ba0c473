----------------------------- MODULE SumsProofs -----------------------------
(***************************************************************************)
(* What the sums of module Sums satisfy, for every finite set and every    *)
(* assignment of integers to it.                                           *)
(*                                                                         *)
(* SumOver is a fold, which is a recursive function on subsets.  That such *)
(* a function exists, and that the order of its recursion does not matter, *)
(* is shown by induction on the size of the subsets; the induction         *)
(* principles are stated over sets instead of predicates.  The last parts  *)
(* are the sweep that divides a settlement among the roles, and what F7's  *)
(* division of a round comes to.                                           *)
(***************************************************************************)
EXTENDS F7, FiniteSetTheorems, WellFoundedInduction, TLAPS

\* Induction over a finite set, with the property as a set P of subsets: the
\* provers here cannot instantiate a property that is an operator.
LEMMA SubsetInduction ==
  ASSUME NEW S, IsFiniteSet(S), NEW P,
         {} \in P,
         \A T \in SUBSET S : \A x \in S \ T : T \in P => T \cup {x} \in P
  PROVE  S \in P
<1> DEFINE Outside == {T \in SUBSET S : T \notin P}
           Less == StrictSubsetOrdering(S)
<1>1. IsWellFoundedOn(Less, SUBSET S)
  BY FS_StrictSubsetOrderingWellFounded, FS_FiniteSubsetsOfFinite
<1>2. SUFFICES ASSUME Outside # {} PROVE FALSE
  OBVIOUS
<1> HIDE DEF Less
<1>3. PICK T \in Outside : \A U \in Outside : ~(<<U, T>> \in Less)
  <2>1. Outside \subseteq SUBSET S
    OBVIOUS
  <2> HIDE DEF Outside
  <2> QED
    BY <1>1, <1>2, <2>1, WFMin
<1>4. PICK x \in T : TRUE
  OBVIOUS
<1>5. T \ {x} \in P
  <2>1. <<T \ {x}, T>> \in Less
    BY <1>4 DEF Less, StrictSubsetOrdering
  <2> QED
    BY <1>3, <1>4, <2>1
<1>6. (T \ {x}) \cup {x} = T
  BY <1>4
<1> QED
  BY <1>3, <1>4, <1>5, <1>6

\* Induction over the naturals, with the property as a set.
LEMMA NatSetInduction ==
  ASSUME NEW P, 0 \in P, \A n \in Nat : n \in P => n + 1 \in P
  PROVE  Nat \subseteq P
<1> DEFINE Outside == {n \in Nat : n \notin P}
           Less == OpToRel(<, Nat)
<1>1. IsWellFoundedOn(Less, Nat)
  BY NatLessThanWellFounded
<1>2. SUFFICES ASSUME Outside # {} PROVE FALSE
  OBVIOUS
<1> HIDE DEF Less
<1>3. PICK n \in Outside : \A m \in Outside : ~(<<m, n>> \in Less)
  <2>1. Outside \subseteq Nat
    OBVIOUS
  <2> HIDE DEF Outside
  <2> QED
    BY <1>1, <1>2, <2>1, WFMin
<1>4. n # 0 /\ n - 1 \in Nat
  OBVIOUS
<1>5. <<n - 1, n>> \in Less
  BY <1>4 DEF Less, OpToRel
<1> QED
  BY <1>3, <1>4, <1>5

\* A set of n + 1 elements less one of them has n.
LEMMA DropOne ==
  ASSUME NEW S, IsFiniteSet(S), NEW s \in SUBSET S, NEW x \in s, NEW n \in Nat,
         Cardinality(s) = n + 1
  PROVE  s \ {x} \in SUBSET S /\ Cardinality(s \ {x}) = n
<1>1. IsFiniteSet(s)
  BY FS_Subset
<1>2. Cardinality(s \ {x}) = Cardinality(s) - 1
  BY <1>1, FS_RemoveElement
<1> QED
  BY <1>2

\* The element MapThenSumSet takes out of s, and what its function satisfies.
Chosen(s) == CHOOSE x \in s : TRUE
IsFold(f, S, g) ==
  g = [s \in SUBSET S |-> IF s = {} THEN 0 ELSE f[Chosen(s)] + g[s \ {Chosen(s)}]]

\* SumOver is the value at S of the function its recursion describes.
LEMMA SumIsFold ==
  ASSUME NEW f, NEW S
  PROVE  SumOver(f, S) = (CHOOSE g : IsFold(f, S, g))[S]
  BY DEF SumOver, MapThenSumSet, MapThenFoldSet, IsFold, Chosen

\* The element a fold takes out next is one of the set.
LEMMA ChosenIn == \A s : s # {} => Chosen(s) \in s
  BY DEF Chosen

\* Some function satisfies the recursion: by induction on the size of the
\* subsets it is defined on.
LEMMA FoldExists ==
  ASSUME NEW S, IsFiniteSet(S), NEW f
  PROVE  \E g : IsFold(f, S, g)
<1> DEFINE Upto(n) == {s \in SUBSET S : Cardinality(s) <= n}
           Step(g, s) == IF s = {} THEN 0 ELSE f[Chosen(s)] + g[s \ {Chosen(s)}]
           Ok == {n \in Nat : \E g : g = [s \in Upto(n) |-> Step(g, s)]}
<1>1. \A s \in SUBSET S : IsFiniteSet(s) /\ Cardinality(s) \in Nat /\ Cardinality(s) <= Cardinality(S)
  BY FS_Subset, FS_CardinalityType
<1>2. \A s \in SUBSET S : s # {} => /\ s \ {Chosen(s)} \in SUBSET S
                                    /\ Cardinality(s \ {Chosen(s)}) = Cardinality(s) - 1
  BY <1>1, ChosenIn, FS_RemoveElement
<1>3. ASSUME NEW n \in Nat, n \in Ok PROVE n + 1 \in Ok
  <2>1. PICK g : g = [s \in Upto(n) |-> Step(g, s)]
    BY <1>3
  <2> DEFINE h == [s \in Upto(n + 1) |-> Step(g, s)]
  <2>2. \A s \in Upto(n) : s \in Upto(n + 1) /\ h[s] = g[s]
    <3> SUFFICES ASSUME NEW s \in Upto(n) PROVE s \in Upto(n + 1) /\ h[s] = g[s]
      OBVIOUS
    <3>1. s \in Upto(n + 1)
      BY <1>1
    <3> QED
      BY <2>1, <3>1
  <2>3. \A s \in Upto(n + 1) : s # {} => s \ {Chosen(s)} \in Upto(n)
    BY <1>1, <1>2
  <2>4. \A s \in Upto(n + 1) : Step(g, s) = Step(h, s)
    BY <2>2, <2>3
  <2>5. h = [s \in Upto(n + 1) |-> Step(h, s)]
    BY <2>4
  <2>6. \E k : k = [s \in Upto(n + 1) |-> Step(k, s)]
    <3> HIDE DEF Step, Upto
    <3> QED BY <2>5, Zenon
  <2>7. n + 1 \in Nat
    OBVIOUS
  <2> HIDE DEF Step, Upto
  <2> QED
    BY <2>6, <2>7, Zenon
<1>4. 0 \in Ok
  <2> DEFINE h == [s \in Upto(0) |-> 0]
  <2>1. \A s \in Upto(0) : s = {}
    BY <1>1, FS_EmptySet
  <2>2. h = [s \in Upto(0) |-> Step(h, s)]
    BY <2>1
  <2> QED
    BY <2>2
<1>5. Cardinality(S) \in Ok
  <2> HIDE DEF Ok
  <2> QED BY <1>1, <1>3, <1>4, NatSetInduction
<1>6. Upto(Cardinality(S)) = SUBSET S
  BY <1>1
<1> QED
  BY <1>5, <1>6 DEF IsFold

\* The recursion determines the value on every subset.
LEMMA FoldUnique ==
  ASSUME NEW S, IsFiniteSet(S), NEW f, NEW T \in SUBSET S,
         NEW g, IsFold(f, S, g), NEW h, IsFold(f, T, h)
  PROVE  g[T] = h[T]
<1> DEFINE Ok == {n \in Nat : \A s \in SUBSET T : Cardinality(s) = n => g[s] = h[s]}
<1>1. \A s \in SUBSET T : IsFiniteSet(s) /\ Cardinality(s) \in Nat
  BY FS_Subset, FS_CardinalityType
<1>2. \A s \in SUBSET T : s # {} => /\ s \ {Chosen(s)} \in SUBSET T
                                    /\ Cardinality(s \ {Chosen(s)}) = Cardinality(s) - 1
  BY <1>1, ChosenIn, FS_RemoveElement
<1>3. \A s \in SUBSET T :
        /\ g[s] = IF s = {} THEN 0 ELSE f[Chosen(s)] + g[s \ {Chosen(s)}]
        /\ h[s] = IF s = {} THEN 0 ELSE f[Chosen(s)] + h[s \ {Chosen(s)}]
  BY DEF IsFold
<1>4. 0 \in Ok
  BY <1>1, <1>3, FS_EmptySet
<1>5. ASSUME NEW n \in Nat, n \in Ok PROVE n + 1 \in Ok
  <2> SUFFICES ASSUME NEW s \in SUBSET T, Cardinality(s) = n + 1 PROVE g[s] = h[s]
    OBVIOUS
  <2>1. s # {}
    BY <1>1, FS_EmptySet
  <2>2. g[s \ {Chosen(s)}] = h[s \ {Chosen(s)}]
    BY <1>2, <1>5, <2>1
  <2> QED
    BY <1>3, <2>1, <2>2
<1>6. Cardinality(T) \in Ok
  <2> HIDE DEF Ok
  <2> QED BY <1>1, <1>4, <1>5, NatSetInduction
<1> QED
  BY <1>1, <1>6

\* The recursion as an equation of SumOver itself.
LEMMA SumUnfold ==
  ASSUME NEW S, IsFiniteSet(S), NEW f
  PROVE  SumOver(f, S) = IF S = {} THEN 0 ELSE f[Chosen(S)] + SumOver(f, S \ {Chosen(S)})
<1> DEFINE g == CHOOSE k : IsFold(f, S, k)
           R == S \ {Chosen(S)}
           h == CHOOSE k : IsFold(f, R, k)
<1>1. IsFold(f, S, g)
  BY FoldExists
<1>2. IsFiniteSet(R) /\ R \in SUBSET S
  BY FS_Subset
<1>3. IsFold(f, R, h)
  BY <1>2, FoldExists
<1>4. SumOver(f, S) = g[S] /\ SumOver(f, R) = h[R]
  BY SumIsFold
<1> HIDE DEF g, h
<1>5. g[R] = h[R]
  BY <1>1, <1>2, <1>3, FoldUnique
<1>6. g[S] = IF S = {} THEN 0 ELSE f[Chosen(S)] + g[R]
  BY <1>1 DEF IsFold
<1> QED
  BY <1>4, <1>5, <1>6

-----------------------------------------------------------------------------
(* Hypotheses of the theorems below, named so that the provers instantiate *)
(* a theorem by matching.                                                  *)

IntOn(f, S) == \A x \in S : f[x] \in Int
NatOn(f, S) == \A x \in S : f[x] \in Nat
SameOn(f, g, S) == \A x \in S : f[x] = g[x]
SumsOn(h, f, g, S) == \A x \in S : h[x] = f[x] + g[x]
LeqOn(f, g, S) == \A x \in S : f[x] <= g[x]
Scales(g, c, f, S) == \A x \in S : g[x] = c * f[x]
Group(S, key, k) == {x \in S : key[x] = k}
GroupSums(g, w, S, key, K) == \A k \in K : g[k] = SumOver(w, Group(S, key, k))
Positive(w, S) == \E x \in S : w[x] > 0
Shares(q, t, w, W, D) == \A d \in D : q[d] = (t * w[d]) \div W

-----------------------------------------------------------------------------
\* Nothing adds up to 0.
THEOREM SumEmpty == \A f : SumOver(f, {}) = 0
  BY SumUnfold, FS_EmptySet

\* A sum of integers is an integer.
THEOREM SumType ==
  ASSUME NEW S, IsFiniteSet(S), NEW f, IntOn(f, S)
  PROVE  SumOver(f, S) \in Int
<1> DEFINE Ok == {n \in Nat : \A s \in SUBSET S : Cardinality(s) = n => SumOver(f, s) \in Int}
<1>1. \A s \in SUBSET S : IsFiniteSet(s) /\ Cardinality(s) \in Nat
  BY FS_Subset, FS_CardinalityType
<1>2. 0 \in Ok
  BY <1>1, FS_EmptySet, SumEmpty
<1>3. ASSUME NEW n \in Nat, n \in Ok PROVE n + 1 \in Ok
  <2> SUFFICES ASSUME NEW s \in SUBSET S, Cardinality(s) = n + 1 PROVE SumOver(f, s) \in Int
    OBVIOUS
  <2>1. s # {} /\ Chosen(s) \in s
    BY <1>1, FS_EmptySet, ChosenIn
  <2>2. Cardinality(s \ {Chosen(s)}) = n /\ s \ {Chosen(s)} \in SUBSET S
    BY <2>1, DropOne
  <2>3. SumOver(f, s) = f[Chosen(s)] + SumOver(f, s \ {Chosen(s)})
    BY <1>1, <2>1, SumUnfold
  <2>4. SumOver(f, s \ {Chosen(s)}) \in Int /\ f[Chosen(s)] \in Int
    BY <1>3, <2>1, <2>2 DEF IntOn
  <2> QED
    BY <2>3, <2>4
<1>4. Cardinality(S) \in Ok
  <2> HIDE DEF Ok
  <2> QED BY <1>1, <1>2, <1>3, NatSetInduction
<1> QED
  BY <1>1, <1>4

\* The order in which a fold takes the elements does not matter: any of them
\* may be taken out first.
THEOREM SumRemove ==
  ASSUME NEW S, IsFiniteSet(S), NEW f, IntOn(f, S), NEW a \in S
  PROVE  SumOver(f, S) = f[a] + SumOver(f, S \ {a})
<1> DEFINE Ok == {n \in Nat : \A s \in SUBSET S : Cardinality(s) = n =>
                    \A x \in s : SumOver(f, s) = f[x] + SumOver(f, s \ {x})}
<1>1. \A s \in SUBSET S : IsFiniteSet(s) /\ Cardinality(s) \in Nat /\ SumOver(f, s) \in Int
  BY FS_Subset, FS_CardinalityType, SumType DEF IntOn
<1>2. 0 \in Ok
  BY <1>1, FS_EmptySet
<1>3. ASSUME NEW n \in Nat, n \in Ok PROVE n + 1 \in Ok
  <2> SUFFICES ASSUME NEW s \in SUBSET S, Cardinality(s) = n + 1, NEW x \in s
               PROVE  SumOver(f, s) = f[x] + SumOver(f, s \ {x})
    OBVIOUS
  <2> DEFINE p == Chosen(s)
  <2>1. p \in s /\ SumOver(f, s) = f[p] + SumOver(f, s \ {p})
    BY <1>1, ChosenIn, SumUnfold
  <2> HIDE DEF p
  <2>2. CASE x = p
    BY <2>1, <2>2
  <2>3. CASE x # p
    <3>1. Cardinality(s \ {p}) = n /\ s \ {p} \in SUBSET S /\ x \in s \ {p}
      BY <2>1, <2>3, DropOne
    <3>2. Cardinality(s \ {x}) = n /\ s \ {x} \in SUBSET S /\ p \in s \ {x}
      BY <2>1, <2>3, DropOne
    <3>3. SumOver(f, s \ {p}) = f[x] + SumOver(f, (s \ {p}) \ {x})
      BY <1>3, <3>1
    <3>4. SumOver(f, s \ {x}) = f[p] + SumOver(f, (s \ {x}) \ {p})
      BY <1>3, <3>2
    <3>5. (s \ {x}) \ {p} = (s \ {p}) \ {x}
      OBVIOUS
    <3>6. (s \ {x}) \ {p} \in SUBSET S
      OBVIOUS
    <3>7. f[x] \in Int /\ f[p] \in Int /\ SumOver(f, (s \ {x}) \ {p}) \in Int
      BY <1>1, <2>1, <3>6 DEF IntOn
    <3>8. SumOver(f, s) = f[p] + SumOver(f, s \ {p})
      BY <2>1
    <3> DEFINE u == SumOver(f, (s \ {x}) \ {p})
    <3>9. SumOver(f, s) = f[p] + (f[x] + u) /\ SumOver(f, s \ {x}) = f[p] + u
      BY <3>3, <3>4, <3>5, <3>8
    <3> QED
      BY <3>7, <3>9
  <2> QED
    BY <2>2, <2>3
<1>4. Cardinality(S) \in Ok
  <2> HIDE DEF Ok
  <2> QED BY <1>1, <1>2, <1>3, NatSetInduction
<1> QED
  BY <1>1, <1>4

\* One more element adds its value.
THEOREM SumInsert ==
  ASSUME NEW S, IsFiniteSet(S), NEW f, NEW a, a \notin S, IntOn(f, S \cup {a})
  PROVE  SumOver(f, S \cup {a}) = f[a] + SumOver(f, S)
<1>1. IsFiniteSet(S \cup {a})
  BY FS_AddElement
<1>2. (S \cup {a}) \ {a} = S
  OBVIOUS
<1> QED
  BY <1>1, <1>2, SumRemove

\* Only the values on the set count.
THEOREM SumCong ==
  ASSUME NEW S, IsFiniteSet(S), NEW f, NEW g, IntOn(f, S), SameOn(f, g, S)
  PROVE  SumOver(f, S) = SumOver(g, S)
<1> DEFINE P == {T \in SUBSET S : SumOver(f, T) = SumOver(g, T)}
<1>1. {} \in P
  BY SumEmpty
<1>2. ASSUME NEW T \in SUBSET S, NEW x \in S \ T, T \in P PROVE T \cup {x} \in P
  <2>1. IsFiniteSet(T) /\ IntOn(f, T \cup {x}) /\ IntOn(g, T \cup {x}) /\ f[x] = g[x]
    BY FS_Subset DEF IntOn, SameOn
  <2>2. SumOver(f, T \cup {x}) = f[x] + SumOver(f, T)
    BY <2>1, SumInsert
  <2>3. SumOver(g, T \cup {x}) = g[x] + SumOver(g, T)
    BY <2>1, SumInsert
  <2> QED
    BY <1>2, <2>1, <2>2, <2>3
<1>3. S \in P
  <2> HIDE DEF P
  <2> QED BY <1>1, <1>2, SubsetInduction
<1> QED
  BY <1>3

\* The sum of a pointwise sum.
THEOREM SumAdd ==
  ASSUME NEW S, IsFiniteSet(S), NEW f, NEW g, NEW h,
         IntOn(f, S), IntOn(g, S), SumsOn(h, f, g, S)
  PROVE  SumOver(h, S) = SumOver(f, S) + SumOver(g, S)
<1> DEFINE P == {T \in SUBSET S : SumOver(h, T) = SumOver(f, T) + SumOver(g, T)}
<1>1. {} \in P
  BY SumEmpty
<1>2. ASSUME NEW T \in SUBSET S, NEW x \in S \ T, T \in P PROVE T \cup {x} \in P
  <2>1. /\ IsFiniteSet(T)
        /\ IntOn(f, T) /\ IntOn(f, T \cup {x}) /\ IntOn(g, T) /\ IntOn(g, T \cup {x})
    BY FS_Subset DEF IntOn
  <2>2. SumOver(f, T \cup {x}) = f[x] + SumOver(f, T) /\ SumOver(f, T) \in Int
    BY <2>1, SumInsert, SumType
  <2>3. SumOver(g, T \cup {x}) = g[x] + SumOver(g, T) /\ SumOver(g, T) \in Int
    BY <2>1, SumInsert, SumType
  <2>4. IntOn(h, T \cup {x})
    BY DEF IntOn, SumsOn
  <2>5. SumOver(h, T \cup {x}) = h[x] + SumOver(h, T)
    BY <2>1, <2>4, SumInsert
  <2>6. h[x] = f[x] + g[x] /\ f[x] \in Int /\ g[x] \in Int
    BY DEF IntOn, SumsOn
  <2>7. SumOver(h, T) = SumOver(f, T) + SumOver(g, T)
    BY <1>2
  <2> QED
    BY <2>2, <2>3, <2>5, <2>6, <2>7
<1>3. S \in P
  <2> HIDE DEF P
  <2> QED BY <1>1, <1>2, SubsetInduction
<1> QED
  BY <1>3

\* Larger values, larger sum.
THEOREM SumMonotone ==
  ASSUME NEW S, IsFiniteSet(S), NEW f, NEW g,
         IntOn(f, S), IntOn(g, S), LeqOn(f, g, S)
  PROVE  SumOver(f, S) <= SumOver(g, S)
<1> DEFINE P == {T \in SUBSET S : SumOver(f, T) <= SumOver(g, T)}
<1>1. {} \in P
  BY SumEmpty
<1>2. ASSUME NEW T \in SUBSET S, NEW x \in S \ T, T \in P PROVE T \cup {x} \in P
  <2>1. /\ IsFiniteSet(T)
        /\ IntOn(f, T) /\ IntOn(f, T \cup {x}) /\ IntOn(g, T) /\ IntOn(g, T \cup {x})
    BY FS_Subset DEF IntOn
  <2>2. SumOver(f, T \cup {x}) = f[x] + SumOver(f, T) /\ SumOver(f, T) \in Int
    BY <2>1, SumInsert, SumType
  <2>3. SumOver(g, T \cup {x}) = g[x] + SumOver(g, T) /\ SumOver(g, T) \in Int
    BY <2>1, SumInsert, SumType
  <2>4. f[x] \in Int /\ g[x] \in Int /\ f[x] <= g[x] /\ SumOver(f, T) <= SumOver(g, T)
    BY <1>2 DEF IntOn, LeqOn
  <2> QED
    BY <2>2, <2>3, <2>4
<1>3. S \in P
  <2> HIDE DEF P
  <2> QED BY <1>1, <1>2, SubsetInduction
<1> QED
  BY <1>3

\* Zeros add up to 0.
THEOREM SumZero ==
  ASSUME NEW S, IsFiniteSet(S), NEW f, \A x \in S : f[x] = 0
  PROVE  SumOver(f, S) = 0
<1> DEFINE P == {T \in SUBSET S : SumOver(f, T) = 0}
<1>1. {} \in P
  BY SumEmpty
<1>2. ASSUME NEW T \in SUBSET S, NEW x \in S \ T, T \in P PROVE T \cup {x} \in P
  <2>1. IsFiniteSet(T) /\ IntOn(f, T \cup {x})
    BY FS_Subset DEF IntOn
  <2>2. SumOver(f, T \cup {x}) = f[x] + SumOver(f, T)
    BY <2>1, SumInsert
  <2> QED
    BY <1>2, <2>2
<1>3. S \in P
  <2> HIDE DEF P
  <2> QED BY <1>1, <1>2, SubsetInduction
<1> QED
  BY <1>3

\* A sum of naturals is a natural.
THEOREM SumNat ==
  ASSUME NEW S, IsFiniteSet(S), NEW f, NatOn(f, S)
  PROVE  SumOver(f, S) \in Nat /\ IntOn(f, S)
<1> DEFINE z == [x \in S |-> 0]
<1>0. IntOn(f, S)
  BY DEF IntOn, NatOn
<1>1. SumOver(z, S) = 0
  BY SumZero
<1>2. SumOver(z, S) <= SumOver(f, S)
  <2>1. IntOn(z, S) /\ LeqOn(z, f, S)
    BY DEF IntOn, NatOn, LeqOn
  <2> HIDE DEF z
  <2> QED BY <1>0, <2>1, SumMonotone
<1>3. SumOver(f, S) \in Int
  BY <1>0, SumType
<1> QED
  BY <1>0, <1>1, <1>2, <1>3

\* The sum over two disjoint sets.
THEOREM SumUnion ==
  ASSUME NEW S, IsFiniteSet(S), NEW T, IsFiniteSet(T), S \cap T = {}, NEW f,
         IntOn(f, S \cup T)
  PROVE  SumOver(f, S \cup T) = SumOver(f, S) + SumOver(f, T)
<1>0. IntOn(f, S)
  BY DEF IntOn
<1> DEFINE P == {U \in SUBSET T : SumOver(f, S \cup U) = SumOver(f, S) + SumOver(f, U)}
<1>1. {} \in P
  <2>1. S \cup {} = S
    OBVIOUS
  <2> QED BY <1>0, <2>1, SumEmpty, SumType
<1>2. ASSUME NEW U \in SUBSET T, NEW x \in T \ U, U \in P PROVE U \cup {x} \in P
  <2>1. IsFiniteSet(U) /\ IsFiniteSet(S \cup U)
    BY FS_Subset, FS_Union
  <2>0. IntOn(f, U) /\ IntOn(f, U \cup {x}) /\ IntOn(f, (S \cup U) \cup {x}) /\ f[x] \in Int
    BY DEF IntOn
  <2>2. SumOver(f, U \cup {x}) = f[x] + SumOver(f, U) /\ SumOver(f, U) \in Int
    BY <2>0, <2>1, SumInsert, SumType
  <2>3. S \cup (U \cup {x}) = (S \cup U) \cup {x} /\ x \notin S \cup U
    OBVIOUS
  <2>4. SumOver(f, S \cup (U \cup {x})) = f[x] + SumOver(f, S \cup U)
    BY <2>0, <2>1, <2>3, SumInsert
  <2>5. SumOver(f, S) \in Int /\ f[x] \in Int /\ SumOver(f, S \cup U) = SumOver(f, S) + SumOver(f, U)
    BY <1>0, <1>2, <2>0, SumType
  <2> QED
    BY <2>2, <2>4, <2>5
<1>3. T \in P
  <2> HIDE DEF P
  <2> QED BY <1>1, <1>2, SubsetInduction
<1> QED
  BY <1>3

\* Part of a set of naturals adds up to no more than all of it.
THEOREM SumSubset ==
  ASSUME NEW S, IsFiniteSet(S), NEW T \in SUBSET S, NEW f, NatOn(f, S)
  PROVE  SumOver(f, T) <= SumOver(f, S)
<1>1. IsFiniteSet(T) /\ IsFiniteSet(S \ T)
  BY FS_Subset
<1>0. NatOn(f, T) /\ NatOn(f, S \ T) /\ IntOn(f, T \cup (S \ T))
  BY DEF NatOn, IntOn
<1>2. SumOver(f, T \cup (S \ T)) = SumOver(f, T) + SumOver(f, S \ T)
  BY <1>0, <1>1, SumUnion
<1>3. T \cup (S \ T) = S
  OBVIOUS
<1>4. SumOver(f, T) \in Nat /\ SumOver(f, S \ T) \in Nat
  BY <1>0, <1>1, SumNat
<1>5. SumOver(f, S) = SumOver(f, T) + SumOver(f, S \ T)
  BY <1>2, <1>3
<1> QED
  BY <1>4, <1>5

\* A change at one place changes the sum by as much.
THEOREM SumUpdate ==
  ASSUME NEW S, IsFiniteSet(S), NEW f, NEW g, NEW a \in S,
         IntOn(f, S), IntOn(g, S), SameOn(f, g, S \ {a})
  PROVE  SumOver(g, S) = SumOver(f, S) - f[a] + g[a]
<1>1. IsFiniteSet(S \ {a})
  BY FS_RemoveElement
<1>2. SumOver(f, S \ {a}) = SumOver(g, S \ {a}) /\ SumOver(f, S \ {a}) \in Int
  <2>1. IntOn(f, S \ {a})
    BY DEF IntOn
  <2> QED BY <1>1, <2>1, SumCong, SumType
<1>3. SumOver(f, S) = f[a] + SumOver(f, S \ {a})
  BY SumRemove
<1>4. SumOver(g, S) = g[a] + SumOver(g, S \ {a})
  BY SumRemove
<1>5. f[a] \in Int /\ g[a] \in Int
  BY DEF IntOn
<1> QED
  BY <1>2, <1>3, <1>4, <1>5

\* Adding up group by group gives the sum of all.
THEOREM SumPartition ==
  ASSUME NEW S, IsFiniteSet(S), NEW K, IsFiniteSet(K), NEW w, NEW key, NEW g,
         IntOn(w, S), \A x \in S : key[x] \in K,
         GroupSums(g, w, S, key, K)
  PROVE  SumOver(g, K) = SumOver(w, S)
<1> DEFINE Of(T, k) == {x \in T : key[x] = k}
           Part(T) == [k \in K |-> SumOver(w, Of(T, k))]
           P == {T \in SUBSET S : SumOver(Part(T), K) = SumOver(w, T)}
<1>1. {} \in P
  <2>1. \A k \in K : Of({}, k) = {}
    OBVIOUS
  <2>2. \A k \in K : Part({})[k] = 0
    BY <2>1, SumEmpty
  <2>3. SumOver(Part({}), K) = 0
    <3> HIDE DEF Part
    <3> QED BY <2>2, SumZero
  <2> QED
    BY <2>3, SumEmpty
<1>2. \A T \in SUBSET S : \A k \in K : IsFiniteSet(Of(T, k)) /\ Part(T)[k] \in Int
  <2> SUFFICES ASSUME NEW T \in SUBSET S, NEW k \in K
               PROVE  IsFiniteSet(Of(T, k)) /\ SumOver(w, Of(T, k)) \in Int
    OBVIOUS
  <2>1. Of(T, k) \in SUBSET S
    OBVIOUS
  <2>2. IsFiniteSet(Of(T, k))
    BY <2>1, FS_Subset
  <2>3. IntOn(w, Of(T, k))
    BY DEF IntOn
  <2> QED
    BY <2>2, <2>3, SumType
<1>3. ASSUME NEW T \in SUBSET S, NEW x \in S \ T, T \in P PROVE T \cup {x} \in P
  <2> DEFINE U == T \cup {x}
             a == key[x]
  <2>1. a \in K /\ U \in SUBSET S
    OBVIOUS
  <2>2. \A k \in K \ {a} : Of(U, k) = Of(T, k)
    OBVIOUS
  <2>3. \A k \in K \ {a} : Part(U)[k] = Part(T)[k]
    BY <2>2
  <2>4. Of(U, a) = Of(T, a) \cup {x} /\ x \notin Of(T, a)
    OBVIOUS
  <2>5. SumOver(w, Of(T, a) \cup {x}) = w[x] + SumOver(w, Of(T, a))
    <3>1. IntOn(w, Of(T, a) \cup {x})
      BY DEF IntOn
    <3>2. IsFiniteSet(Of(T, a))
      BY <1>2, <2>1
    <3> HIDE DEF Of
    <3> QED
      BY <2>4, <3>1, <3>2, SumInsert
  <2>6. Part(U)[a] = w[x] + Part(T)[a]
    BY <2>1, <2>4, <2>5
  <2>7. \A k \in K : Part(T)[k] \in Int /\ Part(U)[k] \in Int
    BY <1>2, <2>1
  <2>8. SumOver(Part(U), K) = SumOver(Part(T), K) - Part(T)[a] + Part(U)[a]
    <3> DEFINE A == Part(T)
               B == Part(U)
    <3> HIDE DEF Part, A, B, a, U, P, Of
    <3>1. IntOn(A, K) /\ IntOn(B, K)
      BY <2>7 DEF A, B, IntOn
    <3>2. SameOn(A, B, K \ {a})
      BY <2>3 DEF A, B, SameOn
    <3>3. SumOver(B, K) = SumOver(A, K) - A[a] + B[a]
      BY <2>1, <3>1, <3>2, SumUpdate
    <3> QED BY <3>3 DEF A, B
  <2>9. SumOver(w, U) = w[x] + SumOver(w, T) /\ SumOver(w, T) \in Int
    <3>1. IsFiniteSet(T) /\ IntOn(w, T) /\ IntOn(w, T \cup {x})
      BY FS_Subset DEF IntOn
    <3> QED BY <3>1, SumInsert, SumType
  <2>10. SumOver(Part(T), K) = SumOver(w, T)
    BY <1>3
  <2>11. w[x] \in Int /\ Part(T)[a] \in Int
    BY <2>1, <2>7 DEF IntOn
  <2>12. SumOver(Part(U), K) = SumOver(w, U)
    <3> HIDE DEF Part, a, U
    <3> QED BY <2>6, <2>8, <2>9, <2>10, <2>11
  <2> QED
    BY <2>1, <2>12
<1>4. S \in P
  <2> HIDE DEF P
  <2> QED BY <1>1, <1>3, SubsetInduction
<1>5. \A k \in K : Part(S)[k] = g[k] /\ Part(S)[k] \in Int
  BY <1>2 DEF Group, GroupSums
<1>6. SumOver(Part(S), K) = SumOver(g, K)
  <2>1. IntOn(Part(S), K) /\ SameOn(Part(S), g, K)
    BY <1>5 DEF IntOn, SameOn
  <2> HIDE DEF Part
  <2> QED BY <2>1, SumCong
<1> QED
  BY <1>4, <1>6

\* Integer division.
LEMMA DivFact ==
  ASSUME NEW a \in Nat, NEW b \in Nat \ {0}
  PROVE  a \div b \in Nat /\ b * (a \div b) <= a /\ a < b * (a \div b) + b
  OBVIOUS

\* Used where a product of two unknowns is split.
LEMMA Distributes ==
  \A a, b, c \in Int : a * (b + c) = a * b + a * c
  OBVIOUS

\* A positive factor can be cancelled.
LEMMA ScaleLess ==
  ASSUME NEW n \in Nat \ {0}, NEW a \in Int, NEW b \in Int
  PROVE  /\ n * a <= n * b => a <= b
         /\ n * a < n * b => a < b
  OBVIOUS

\* A constant factor can be taken out of a sum.
THEOREM SumScale ==
  ASSUME NEW S, IsFiniteSet(S), NEW f, IntOn(f, S), NEW c \in Int, NEW g, Scales(g, c, f, S)
  PROVE  SumOver(g, S) = c * SumOver(f, S)
<1> DEFINE P == {T \in SUBSET S : SumOver(g, T) = c * SumOver(f, T)}
<1>1. {} \in P
  BY SumEmpty
<1>2. ASSUME NEW T \in SUBSET S, NEW x \in S \ T, T \in P PROVE T \cup {x} \in P
  <2>1. IsFiniteSet(T) /\ IntOn(f, T) /\ IntOn(f, T \cup {x}) /\ f[x] \in Int
    BY FS_Subset DEF IntOn
  <2>2. IntOn(g, T \cup {x}) /\ g[x] = c * f[x]
    BY DEF IntOn, Scales
  <2>3. SumOver(f, T \cup {x}) = f[x] + SumOver(f, T) /\ SumOver(f, T) \in Int
    BY <2>1, SumInsert, SumType
  <2>4. SumOver(g, T \cup {x}) = g[x] + SumOver(g, T)
    BY <2>1, <2>2, SumInsert
  <2>5. SumOver(g, T) = c * SumOver(f, T)
    BY <1>2
  <2>6. c * (f[x] + SumOver(f, T)) = c * f[x] + c * SumOver(f, T)
    BY <2>1, <2>3, Distributes
  <2> QED
    BY <2>2, <2>3, <2>4, <2>5, <2>6
<1> QED
  <2> HIDE DEF P
  <2>1. S \in P
    BY <1>1, <1>2, SubsetInduction
  <2> QED
    BY <2>1 DEF P

\* The division of t in proportion to w, floored part by part, as distribute,
\* advance_channel_meed and split_claim do it: no more than t is given out and
\* less than one unit per part stays behind.
THEOREM FloorSum ==
  ASSUME NEW D, IsFiniteSet(D), NEW w, NatOn(w, D),
         NEW W \in Nat \ {0}, SumOver(w, D) = W, NEW t \in Nat,
         NEW q, Shares(q, t, w, W, D)
  PROVE  /\ SumOver(q, D) \in Nat
         /\ SumOver(q, D) <= t
         /\ t - SumOver(q, D) < Cardinality(D)
<1>1. \A d \in D : q[d] \in Nat /\ W * q[d] <= t * w[d] /\ t * w[d] < W * q[d] + W
  <2> SUFFICES ASSUME NEW d \in D
               PROVE  q[d] \in Nat /\ W * q[d] <= t * w[d] /\ t * w[d] < W * q[d] + W
    OBVIOUS
  <2>1. t * w[d] \in Nat
    BY DEF NatOn
  <2>2. \A a \in Nat : a \div W \in Nat /\ W * (a \div W) <= a /\ a < W * (a \div W) + W
    BY DivFact
  <2>3. q[d] = (t * w[d]) \div W
    BY DEF Shares
  <2> DEFINE a == t * w[d]
  <2> HIDE DEF a
  <2>4. a \in Nat /\ q[d] = a \div W
    BY <2>1, <2>3 DEF a
  <2>5. q[d] \in Nat /\ W * q[d] <= a /\ a < W * q[d] + W
    BY <2>2, <2>4
  <2> QED
    BY <2>5 DEF a
<1> DEFINE P == {T \in SUBSET D :
                   /\ W * SumOver(q, T) <= t * SumOver(w, T)
                   /\ t * SumOver(w, T) + Cardinality(T) <= W * SumOver(q, T) + W * Cardinality(T)}
<1>2. {} \in P
  BY SumEmpty, FS_EmptySet
<1>3. ASSUME NEW T \in SUBSET D, NEW x \in D \ T, T \in P PROVE T \cup {x} \in P
  <2>1. IsFiniteSet(T) /\ Cardinality(T) \in Nat /\ Cardinality(T \cup {x}) = Cardinality(T) + 1
    BY FS_Subset, FS_CardinalityType, FS_AddElement
  <2>0. /\ IntOn(q, T) /\ IntOn(q, T \cup {x}) /\ q[x] \in Int
        /\ IntOn(w, T) /\ IntOn(w, T \cup {x}) /\ w[x] \in Int
    BY <1>1 DEF IntOn, NatOn
  <2>2. SumOver(q, T \cup {x}) = q[x] + SumOver(q, T) /\ SumOver(q, T) \in Int
    BY <2>0, <2>1, SumInsert, SumType
  <2>3. SumOver(w, T \cup {x}) = w[x] + SumOver(w, T) /\ SumOver(w, T) \in Int
    BY <2>0, <2>1, SumInsert, SumType
  <2>4. W * SumOver(q, T \cup {x}) = W * q[x] + W * SumOver(q, T)
    BY <2>0, <2>2, Distributes
  <2>5. t * SumOver(w, T \cup {x}) = t * w[x] + t * SumOver(w, T)
    BY <2>0, <2>3, Distributes
  <2>6. W * Cardinality(T \cup {x}) = W * Cardinality(T) + W
    BY <2>1, Distributes
  <2>7. /\ W * q[x] \in Int /\ W * SumOver(q, T) \in Int
        /\ t * w[x] \in Int /\ t * SumOver(w, T) \in Int
        /\ W * Cardinality(T) \in Int
    BY <2>0, <2>1, <2>2, <2>3
  <2>8. /\ W * SumOver(q, T) <= t * SumOver(w, T)
        /\ t * SumOver(w, T) + Cardinality(T) <= W * SumOver(q, T) + W * Cardinality(T)
        /\ W * q[x] <= t * w[x] /\ t * w[x] < W * q[x] + W
    BY <1>1, <1>3
  <2>9. W * SumOver(q, T \cup {x}) <= t * SumOver(w, T \cup {x})
    BY <2>4, <2>5, <2>7, <2>8
  <2>10. t * SumOver(w, T \cup {x}) + Cardinality(T \cup {x})
           <= W * SumOver(q, T \cup {x}) + W * Cardinality(T \cup {x})
    BY <2>1, <2>4, <2>5, <2>6, <2>7, <2>8
  <2> QED
    BY <2>9, <2>10
<1>4. D \in P
  <2> HIDE DEF P
  <2> QED BY <1>2, <1>3, SubsetInduction
<1> DEFINE G == SumOver(q, D)
           n == Cardinality(D)
<1>5. G \in Nat /\ n \in Nat
  <2>1. NatOn(q, D)
    BY <1>1 DEF NatOn
  <2> QED BY <2>1, SumNat, FS_CardinalityType
<1>6. n # 0
  BY SumEmpty, FS_EmptySet
<1>7. W * G <= t * W /\ t * W + n <= W * G + W * n
  BY <1>4
<1> HIDE DEF G, n, P
<1>8. W * G <= W * t
  BY <1>7
<1>9. W * t < W * (G + n)
  <2>1. W * (G + n) = W * G + W * n
    BY <1>5, Distributes
  <2> QED BY <1>5, <1>6, <1>7, <2>1
<1>10. G <= t /\ t < G + n
  BY <1>5, <1>8, <1>9, ScaleLess
<1> QED
  BY <1>5, <1>10 DEF G, n

\* A larger total entitles every part to at least as much.
LEMMA ShareMonotone ==
  ASSUME NEW n \in Nat \ {0}, NEW w \in Nat, NEW s \in Nat, NEW t \in Nat, s <= t
  PROVE  (s * w) \div n <= (t * w) \div n
<1>1. s * w \in Nat /\ t * w \in Nat /\ s * w <= t * w
  OBVIOUS
<1> DEFINE a == s * w
           b == t * w
<1> HIDE DEF a, b
<1>2. a \in Nat /\ b \in Nat /\ a <= b
  BY <1>1 DEF a, b
<1>3. /\ a \div n \in Nat /\ n * (a \div n) <= a
      /\ b \div n \in Nat /\ b < n * (b \div n) + n
  BY <1>2, DivFact
<1>4. n * (a \div n) < n * ((b \div n) + 1)
  <2>1. n * ((b \div n) + 1) = n * (b \div n) + n * 1
    BY <1>3, Distributes
  <2> QED BY <1>2, <1>3, <2>1
<1>5. a \div n < (b \div n) + 1
  BY <1>3, <1>4, ScaleLess
<1> QED
  BY <1>3, <1>5 DEF a, b

\* The destinations of finitely many roles, the weight of each taken together, and
\* the division of t among them: FloorSum for parts that share a destination.
THEOREM DividedByDest ==
  ASSUME NEW R, IsFiniteSet(R), NEW w \in [R -> Nat], Positive(w, R),
         NEW dest, NEW D, D = {dest[r] : r \in R}, NEW bp,
         GroupSums(bp, w, R, dest, D),
         NEW t \in Nat, NEW q, Shares(q, t, bp, SumOver(w, R), D)
  PROVE  /\ IsFiniteSet(D) /\ Cardinality(D) \in Nat
         /\ SumOver(w, R) \in Nat \ {0}
         /\ \A d \in D : bp[d] \in Nat /\ q[d] \in Nat
         /\ SumOver(q, D) \in Nat
         /\ SumOver(q, D) <= t
         /\ t - SumOver(q, D) < Cardinality(D)
<1> DEFINE f == [r \in R |-> dest[r]]
           W == SumOver(w, R)
<1>1. f \in Surjection(R, D)
  BY DEF Surjection
<1>2. IsFiniteSet(D) /\ Cardinality(D) \in Nat
  BY <1>1, FS_Surjection, FS_CardinalityType
<1>3. \A d \in D : bp[d] \in Nat
  <2> SUFFICES ASSUME NEW d \in D PROVE bp[d] \in Nat
    OBVIOUS
  <2>1. Group(R, dest, d) \in SUBSET R
    BY DEF Group
  <2>2. SumOver(w, Group(R, dest, d)) \in Nat
    BY <2>1, FS_Subset, SumNat DEF NatOn
  <2> QED BY <2>2 DEF GroupSums
<1>4. W \in Nat \ {0}
  <2>1. PICK r \in R : w[r] > 0
    BY DEF Positive
  <2>2. IsFiniteSet(R \ {r}) /\ SumOver(w, R \ {r}) \in Nat
    BY FS_RemoveElement, SumNat DEF NatOn
  <2>3. W = w[r] + SumOver(w, R \ {r})
    BY SumRemove DEF IntOn
  <2> QED
    BY <2>1, <2>2, <2>3
<1>5. SumOver(bp, D) = W
  <2>1. IntOn(w, R) /\ \A r \in R : dest[r] \in D
    BY DEF IntOn
  <2> HIDE DEF f
  <2> QED BY <1>2, <2>1, SumPartition
<1> HIDE DEF W
<1>6. Shares(q, t, bp, W, D)
  BY DEF W
<1>7. \A d \in D : q[d] \in Nat
  <2> SUFFICES ASSUME NEW d \in D PROVE q[d] \in Nat
    OBVIOUS
  <2>1. t * bp[d] \in Nat
    BY <1>3
  <2>2. q[d] = (t * bp[d]) \div W
    BY <1>6 DEF Shares
  <2> DEFINE a == t * bp[d]
  <2>3. a \in Nat /\ q[d] = a \div W
    BY <2>1, <2>2
  <2> HIDE DEF a
  <2> QED BY <1>4, <2>3, DivFact
<1>8. /\ SumOver(q, D) \in Nat
      /\ SumOver(q, D) <= t
      /\ t - SumOver(q, D) < Cardinality(D)
  <2>1. NatOn(bp, D)
    BY <1>3 DEF NatOn
  <2> QED BY <1>2, <2>1, <1>4, <1>5, <1>6, FloorSum
<1> QED
  BY <1>2, <1>3, <1>4, <1>7, <1>8 DEF W

-----------------------------------------------------------------------------
(* The sweeps of extinguish_per_role (crates/paytp-f7/src/lib.rs).         *)

\* One visit of the role r: a unit if something is left to place and r has room.
SweepVisit(er, r, n, e) ==
  IF SumOver(er, DOMAIN er) < e /\ er[r] < n[r] THEN [er EXCEPT ![r] = @ + 1] ELSE er
SweepVisits(n, e) == [r \in DOMAIN n |-> [er \in Seq(Nat) |-> SweepVisit(er, r, n, e)]]

\* f is the sweeps from q, visit by visit.
IsSweep(f, q, v, L, K) ==
  f = [k \in 0..K |-> IF k = 0 THEN q ELSE v[((k - 1) % L) + 1][f[k - 1]]]

LEMMA SweepExists ==
  ASSUME NEW q, NEW v, NEW L, NEW K \in Nat
  PROVE  \E f : IsSweep(f, q, v, L, K)
<1> DEFINE Step(g, k) == IF k = 0 THEN q ELSE v[((k - 1) % L) + 1][g[k - 1]]
           Ok == {m \in Nat : \E g : g = [k \in 0..m |-> Step(g, k)]}
<1>1. 0 \in Ok
  <2> DEFINE h == [k \in 0..0 |-> q]
  <2>1. h = [k \in 0..0 |-> Step(h, k)]
    OBVIOUS
  <2> QED
    BY <2>1
<1>2. ASSUME NEW m \in Nat, m \in Ok PROVE m + 1 \in Ok
  <2>1. PICK g : g = [k \in 0..m |-> Step(g, k)]
    BY <1>2
  <2> DEFINE h == [k \in 0..(m + 1) |-> Step(g, k)]
  <2>2. \A k \in 0..m : k \in 0..(m + 1) /\ h[k] = g[k]
    <3>1. \A k \in 0..m : k \in 0..(m + 1)
      OBVIOUS
    <3> HIDE DEF Step
    <3>2. \A k \in 0..m : g[k] = Step(g, k)
      BY <2>1, Zenon
    <3>3. \A k \in 0..m : h[k] = Step(g, k)
      BY <3>1, Zenon
    <3> QED BY <3>1, <3>2, <3>3, Zenon
  <2>3. \A k \in 0..(m + 1) : k # 0 => k - 1 \in 0..m
    OBVIOUS
  <2> HIDE DEF h
  <2>4. \A k \in 0..(m + 1) : Step(g, k) = Step(h, k)
    BY <2>2, <2>3
  <2> USE DEF h
  <2>5. h = [k \in 0..(m + 1) |-> Step(h, k)]
    BY <2>4
  <2>6. \E f : f = [k \in 0..(m + 1) |-> Step(f, k)]
    <3> HIDE DEF Step
    <3> QED BY <2>5, Zenon
  <2>7. m + 1 \in Nat
    OBVIOUS
  <2> HIDE DEF Step
  <2> QED
    BY <2>6, <2>7, Zenon
<1>3. K \in Ok
  <2> HIDE DEF Ok
  <2> QED BY <1>1, <1>2, NatSetInduction
<1> QED
  BY <1>3 DEF IsSweep

\* A sweep of the roles 1..L from q, which is below the caps n and within e.
Sweeping(f, q, n, L, e, K) ==
  /\ L \in Nat \ {0} /\ e \in Nat /\ K \in Nat
  /\ n \in [1..L -> Nat] /\ q \in [1..L -> Nat]
  /\ LeqOn(q, n, 1..L)
  /\ SumOver(q, 1..L) <= e
  /\ IsSweep(f, q, SweepVisits(n, e), L, K)

\* What a visit keeps: a vector below the caps and within e.
Within(er, n, L, e) ==
  er \in [1..L -> Nat] /\ LeqOn(er, n, 1..L) /\ SumOver(er, 1..L) <= e

\* What a visit of r makes of was.
Visited(was, now, r, n, L, e) ==
  /\ \A s \in 1..L : s # r => now[s] = was[s]
  /\ IF SumOver(was, 1..L) < e /\ was[r] < n[r]
     THEN now[r] = was[r] + 1 /\ SumOver(now, 1..L) = SumOver(was, 1..L) + 1
     ELSE now[r] = was[r] /\ SumOver(now, 1..L) = SumOver(was, 1..L)

LEMMA RolesFinite == ASSUME NEW L \in Nat PROVE IsFiniteSet(1..L)
  BY FS_Interval

LEMMA VisitKeeps ==
  ASSUME NEW L \in Nat \ {0}, NEW n \in [1..L -> Nat], NEW e \in Nat, NEW er,
         Within(er, n, L, e), NEW r \in 1..L, NEW w, w = SweepVisit(er, r, n, e)
  PROVE  Within(w, n, L, e) /\ Visited(er, w, r, n, L, e)
<1> DEFINE t == SumOver(er, 1..L)
           grows == t < e /\ er[r] < n[r]
<1>1. er \in [1..L -> Nat] /\ LeqOn(er, n, 1..L) /\ t <= e /\ DOMAIN er = 1..L
  BY DEF Within
<1>2. w = IF grows THEN [er EXCEPT ![r] = @ + 1] ELSE er
  BY <1>1 DEF SweepVisit
<1>3. IntOn(er, 1..L) /\ IsFiniteSet(1..L) /\ t \in Int
  <2>1. IntOn(er, 1..L)
    BY <1>1 DEF IntOn
  <2> QED
    BY <2>1, SumType, RolesFinite
<1>4. CASE ~grows
  <2>1. w = er
    BY <1>2, <1>4
  <2> QED
    BY <1>4, <2>1 DEF Visited
<1>5. CASE grows
  <2>1. w = [er EXCEPT ![r] = @ + 1]
    BY <1>2, <1>5
  <2>2. w \in [1..L -> Nat] /\ w[r] = er[r] + 1 /\ er[r] \in Nat
    BY <1>1, <2>1
  <2>3. \A s \in 1..L : s # r => w[s] = er[s]
    BY <1>1, <2>1
  <2>4. SumOver(w, 1..L) = t + 1
    <3> DEFINE D == 1..L
    <3>1. IntOn(w, D) /\ SameOn(er, w, D \ {r}) /\ IntOn(er, D) /\ r \in D /\ IsFiniteSet(D)
      BY <1>3, <2>2, <2>3 DEF IntOn, SameOn
    <3>2. SumOver(w, D) = SumOver(er, D) - er[r] + w[r]
      <4> HIDE DEF D
      <4> QED BY ONLY <3>1, SumUpdate
    <3> QED
      BY <1>3, <2>2, <3>2
  <2>5. LeqOn(w, n, 1..L)
    <3>1. er[r] + 1 <= n[r]
      BY <1>5, <2>2
    <3>2. \A s \in 1..L : w[s] <= n[s]
      BY <1>1, <2>2, <2>3, <3>1 DEF LeqOn
    <3> QED
      BY <3>2 DEF LeqOn
  <2>6. t + 1 <= e
    BY <1>3, <1>5
  <2> QED
    BY <1>5, <2>2, <2>3, <2>4, <2>5, <2>6 DEF Within, Visited
<1> QED
  BY <1>4, <1>5

\* Every visit is that of the role whose turn it is, to a vector within the bounds.
LEMMA SweepVisited ==
  ASSUME NEW f, NEW q, NEW n, NEW L, NEW e, NEW K, Sweeping(f, q, n, L, e, K)
  PROVE  /\ f[0] = q
         /\ \A k \in 0..K : Within(f[k], n, L, e)
         /\ \A k \in 0..K : k # K => f[k + 1] = SweepVisit(f[k], (k % L) + 1, n, e)
<1>1. L \in Nat \ {0} /\ e \in Nat /\ K \in Nat /\ n \in [1..L -> Nat] /\ DOMAIN n = 1..L
  BY DEF Sweeping
<1>2. f[0] = q /\ Within(q, n, L, e)
  BY DEF Sweeping, IsSweep, Within
<1>3. \A k \in Nat : (k % L) + 1 \in 1..L
  BY <1>1
<1>4. ASSUME NEW k \in 0..K, k # K, Within(f[k], n, L, e)
      PROVE  f[k + 1] = SweepVisit(f[k], (k % L) + 1, n, e)
  <2>1. k + 1 \in 0..K /\ k + 1 # 0 /\ (k + 1) - 1 = k /\ k \in Nat
    BY <1>1, <1>4
  <2>2. f[k + 1] = SweepVisits(n, e)[(k % L) + 1][f[k]]
    BY <2>1 DEF Sweeping, IsSweep
  <2>3. f[k] \in Seq(Nat)
    BY <1>1, <1>4 DEF Within
  <2>4. (k % L) + 1 \in DOMAIN n
    BY <1>1, <1>3, <2>1
  <2> QED
    BY <2>2, <2>3, <2>4 DEF SweepVisits
<1> DEFINE Ok == {k \in Nat : k \in 0..K => Within(f[k], n, L, e)}
<1>5. 0 \in Ok
  BY <1>2
<1>6. ASSUME NEW k \in Nat, k \in Ok PROVE k + 1 \in Ok
  <2> SUFFICES ASSUME k + 1 \in 0..K PROVE Within(f[k + 1], n, L, e)
    OBVIOUS
  <2>1. k \in 0..K /\ k # K
    BY <1>1
  <2>2. Within(f[k], n, L, e)
    BY <1>6, <2>1
  <2>3. f[k + 1] = SweepVisit(f[k], (k % L) + 1, n, e)
    BY <1>4, <2>1, <2>2
  <2> QED
    BY <1>1, <1>3, <2>2, <2>3, VisitKeeps
<1>7. Nat \subseteq Ok
  <2> HIDE DEF Ok
  <2> QED BY <1>5, <1>6, NatSetInduction
<1>8. \A k \in 0..K : Within(f[k], n, L, e)
  BY <1>1, <1>7
<1> QED
  BY <1>2, <1>4, <1>8

\* The roles q leaves room for, how many of them come before r, and what the sweep
\* makes of r: one unit more if r has room and the units last that far.
Spare(q, n, L) == {r \in 1..L : q[r] < n[r]}
Before(q, n, L, r) == Cardinality({s \in Spare(q, n, L) : s < r})
Swept(q, n, L, e, r) ==
  IF r \in Spare(q, n, L) /\ Before(q, n, L, r) < e - SumOver(q, 1..L) THEN q[r] + 1 ELSE q[r]

LEMMA BeforeCounts ==
  ASSUME NEW L \in Nat, NEW q, NEW n
  PROVE  /\ \A r \in Nat : Before(q, n, L, r) \in Nat
         /\ Before(q, n, L, 1) = 0
         /\ \A r \in 1..L : Before(q, n, L, r + 1) =
              IF r \in Spare(q, n, L) THEN Before(q, n, L, r) + 1 ELSE Before(q, n, L, r)
         /\ \A r, t \in Nat : r <= t => Before(q, n, L, r) <= Before(q, n, L, t)
<1> DEFINE S == Spare(q, n, L)
           B(r) == {s \in S : s < r}
<1>1. IsFiniteSet(S) /\ S \subseteq 1..L
  <2>1. S \subseteq 1..L
    BY DEF Spare
  <2> QED
    BY <2>1, RolesFinite, FS_Subset
<1>2. \A r \in Nat : IsFiniteSet(B(r)) /\ Cardinality(B(r)) \in Nat
  <2> SUFFICES ASSUME NEW r \in Nat PROVE IsFiniteSet(B(r)) /\ Cardinality(B(r)) \in Nat
    OBVIOUS
  <2>1. B(r) \subseteq S
    OBVIOUS
  <2> QED
    BY <1>1, <2>1, FS_Subset, FS_CardinalityType
<1>3. Cardinality(B(1)) = 0
  <2>1. B(1) = {}
    BY <1>1
  <2> QED
    BY <2>1, FS_EmptySet
<1>4. ASSUME NEW r \in 1..L
      PROVE  Cardinality(B(r + 1)) = IF r \in S THEN Cardinality(B(r)) + 1 ELSE Cardinality(B(r))
  <2>1. CASE r \in S
    <3>1. B(r + 1) = B(r) \cup {r} /\ r \notin B(r)
      BY <1>1, <2>1
    <3>2. IsFiniteSet(B(r)) /\ Cardinality(B(r)) \in Nat
      BY <1>2
    <3>3. Cardinality(B(r) \cup {r}) = Cardinality(B(r)) + 1
      <4> HIDE DEF B
      <4> QED BY <3>1, <3>2, FS_AddElement
    <3> QED
      BY <2>1, <3>1, <3>3
  <2>2. CASE r \notin S
    <3>1. B(r + 1) = B(r)
      BY <1>1, <2>2
    <3> QED
      BY <2>2, <3>1
  <2> QED
    BY <2>1, <2>2
<1>5. ASSUME NEW r \in Nat, NEW t \in Nat, r <= t PROVE Cardinality(B(r)) <= Cardinality(B(t))
  <2>1. B(r) \subseteq B(t)
    BY <1>1, <1>5
  <2>2. IsFiniteSet(B(t))
    BY <1>2
  <2> HIDE DEF B
  <2> QED
    BY <2>1, <2>2, FS_Subset
<1>6. \A r : Before(q, n, L, r) = Cardinality(B(r))
  BY DEF Before
<1> HIDE DEF B, S
<1>7. 1 \in Nat /\ \A r \in 1..L : r \in Nat /\ r + 1 \in Nat
  OBVIOUS
<1>8. \A r \in 1..L : Before(q, n, L, r + 1) =
              IF r \in Spare(q, n, L) THEN Before(q, n, L, r) + 1 ELSE Before(q, n, L, r)
  BY <1>4, <1>6 DEF S
<1>9. \A r \in Nat : Before(q, n, L, r) \in Nat
  BY <1>2, <1>6
<1>10. Before(q, n, L, 1) = 0
  BY <1>3, <1>6
<1>11. \A r, t \in Nat : r <= t => Before(q, n, L, r) <= Before(q, n, L, t)
  BY <1>5, <1>6
<1> QED
  BY <1>8, <1>9, <1>10, <1>11

LEMMA SmallRemainder ==
  ASSUME NEW a \in Nat, NEW b \in Nat \ {0}, a < b
  PROVE  a % b = a
  OBVIOUS

\* After k visits of the first sweep: the roles up to k have had their turn.
FirstSweep(f, q, n, L, e, k) ==
  /\ \A r \in 1..L : f[k][r] = IF r <= k THEN Swept(q, n, L, e, r) ELSE q[r]
  /\ LET placed == SumOver(f[k], 1..L) - SumOver(q, 1..L)
         short == e - SumOver(q, 1..L)
     IN  placed = IF Before(q, n, L, k + 1) < short THEN Before(q, n, L, k + 1) ELSE short

LEMMA FirstSweepHolds ==
  ASSUME NEW f, NEW q, NEW n, NEW L, NEW e, NEW K, Sweeping(f, q, n, L, e, K)
  PROVE  \A k \in 0..L : k <= K => FirstSweep(f, q, n, L, e, k)
<1>1. L \in Nat \ {0} /\ e \in Nat /\ K \in Nat /\ n \in [1..L -> Nat] /\ q \in [1..L -> Nat]
  BY DEF Sweeping
<1> DEFINE Sum(v) == SumOver(v, 1..L)
           B(r) == Before(q, n, L, r)
           Ok == {k \in Nat : k \in 0..L /\ k <= K => FirstSweep(f, q, n, L, e, k)}
<1>2. Sum(q) \in Nat /\ Sum(q) <= e
  <2>1. NatOn(q, 1..L) /\ IsFiniteSet(1..L)
    BY <1>1, RolesFinite DEF NatOn
  <2> QED
    BY <2>1, SumNat DEF Sweeping
<1>3. /\ \A r \in Nat : B(r) \in Nat
      /\ B(1) = 0
      /\ \A r \in 1..L : B(r + 1) = IF r \in Spare(q, n, L) THEN B(r) + 1 ELSE B(r)
  BY <1>1, BeforeCounts
<1>4. 0 \in Ok
  <2>1. f[0] = q
    BY SweepVisited
  <2>2. \A r \in 1..L : ~(r <= 0)
    BY <1>1
  <2>3. Sum(q) - Sum(q) = 0 /\ e - Sum(q) >= 0
    BY <1>1, <1>2
  <2> HIDE DEF Sum, B
  <2>4. Sum(q) - Sum(q) = IF B(0 + 1) < e - Sum(q) THEN B(0 + 1) ELSE e - Sum(q)
    BY <1>1, <1>2, <1>3, <2>3, SMTT(30)
  <2> QED
    BY <2>1, <2>2, <2>4 DEF FirstSweep, Sum, B
<1>5. ASSUME NEW k \in Nat, k \in Ok PROVE k + 1 \in Ok
  <2> SUFFICES ASSUME k + 1 \in 0..L, k + 1 <= K PROVE FirstSweep(f, q, n, L, e, k + 1)
    OBVIOUS
  <2>1. k \in 0..L /\ k <= K /\ k \in 0..K /\ k # K /\ k + 1 \in 1..L /\ k % L = k
    <3>1. k \in 0..L /\ k <= K /\ k \in 0..K /\ k # K /\ k + 1 \in 1..L /\ k < L
      BY <1>1
    <3>2. k % L = k
      BY <1>1, <3>1, SmallRemainder
    <3> QED
      BY <3>1, <3>2
  <2>2. FirstSweep(f, q, n, L, e, k)
    BY <1>5, <2>1
  <2>3. Within(f[k], n, L, e) /\ f[k + 1] = SweepVisit(f[k], k + 1, n, e)
    BY <2>1, SweepVisited
  <2> DEFINE r == k + 1
             short == e - Sum(q)
             placed == Sum(f[k]) - Sum(q)
  <2>4. Sum(f[k]) \in Nat /\ f[k] \in [1..L -> Nat]
    <3>1. NatOn(f[k], 1..L) /\ IsFiniteSet(1..L)
      BY <1>1, <2>3, RolesFinite DEF NatOn, Within
    <3> QED
      BY <2>3, <3>1, SumNat DEF Within
  <2>5. f[k][r] = q[r] /\ placed = IF B(r) < short THEN B(r) ELSE short
    BY <2>1, <2>2 DEF FirstSweep
  <2>6. /\ \A s \in 1..L : s # r => f[r][s] = f[k][s]
        /\ IF Sum(f[k]) < e /\ f[k][r] < n[r]
           THEN f[r][r] = f[k][r] + 1 /\ Sum(f[r]) = Sum(f[k]) + 1
           ELSE f[r][r] = f[k][r] /\ Sum(f[r]) = Sum(f[k])
    <3> DEFINE was == f[k]
               now == f[k + 1]
    <3>1. Within(was, n, L, e) /\ now = SweepVisit(was, r, n, e) /\ r \in 1..L
      BY <2>1, <2>3
    <3>2. Visited(was, now, r, n, L, e)
      <4> HIDE DEF was, now, r
      <4> QED BY <1>1, <3>1, VisitKeeps
    <3> QED
      BY <3>2 DEF Visited
  <2>7. r \in Nat /\ B(r) \in Nat /\ B(r + 1) = IF r \in Spare(q, n, L) THEN B(r) + 1 ELSE B(r)
    BY <1>3, <2>1
  <2>8. r \in Spare(q, n, L) <=> q[r] < n[r]
    BY <2>1 DEF Spare
  <2>9. Swept(q, n, L, e, r) = IF q[r] < n[r] /\ B(r) < short THEN q[r] + 1 ELSE q[r]
    BY <2>8 DEF Swept
  <2>10. q[r] \in Nat /\ n[r] \in Nat
    BY <1>1, <2>1
  <2>11. Sum(f[k]) < e <=> B(r) < short
    <3> HIDE DEF Sum, B, r
    <3> QED BY <1>1, <1>2, <2>4, <2>5, <2>7, SMTT(30)
  <2>12. f[r][r] = Swept(q, n, L, e, r)
    BY <2>5, <2>6, <2>9, <2>11
  <2>13. \A s \in 1..L : f[r][s] = IF s <= r THEN Swept(q, n, L, e, s) ELSE q[s]
    <3> SUFFICES ASSUME NEW s \in 1..L
                 PROVE  f[r][s] = IF s <= r THEN Swept(q, n, L, e, s) ELSE q[s]
      OBVIOUS
    <3>1. CASE s = r
      BY <2>12, <3>1
    <3>2. CASE s # r
      <4>1. f[r][s] = f[k][s] /\ f[k][s] = IF s <= k THEN Swept(q, n, L, e, s) ELSE q[s]
        BY <2>2, <2>6, <3>2 DEF FirstSweep
      <4>2. s <= r <=> s <= k
        BY <3>2
      <4> QED
        BY <4>1, <4>2
    <3> QED
      BY <3>1, <3>2
  <2>14. Sum(f[r]) - Sum(q) = IF B(r + 1) < short THEN B(r + 1) ELSE short
    <3>1. CASE Sum(f[k]) < e /\ q[r] < n[r]
      <4>1. Sum(f[r]) = Sum(f[k]) + 1 /\ B(r + 1) = B(r) + 1 /\ B(r) < short
        BY <2>5, <2>6, <2>7, <2>8, <2>11, <3>1
      <4> HIDE DEF Sum, B, r
      <4> QED
        BY <1>1, <1>2, <2>4, <2>5, <2>7, <4>1
    <3>2. CASE ~(Sum(f[k]) < e) /\ q[r] < n[r]
      <4>1. Sum(f[r]) = Sum(f[k]) /\ B(r + 1) = B(r) + 1 /\ ~(B(r) < short)
        BY <2>5, <2>6, <2>7, <2>8, <2>11, <3>2
      <4> HIDE DEF Sum, B, r
      <4> QED
        BY <1>1, <1>2, <2>4, <2>5, <2>7, <4>1, SMTT(30)
    <3>3. CASE ~(q[r] < n[r])
      <4>1. Sum(f[r]) = Sum(f[k]) /\ B(r + 1) = B(r)
        BY <2>5, <2>6, <2>7, <2>8, <3>3
      <4> HIDE DEF Sum, B, r
      <4> QED
        BY <1>1, <1>2, <2>4, <2>5, <2>7, <4>1
    <3> QED
      BY <3>1, <3>2, <3>3
  <2> QED
    BY <2>13, <2>14 DEF FirstSweep
<1>6. Nat \subseteq Ok
  <2> HIDE DEF Ok
  <2> QED BY <1>4, <1>5, NatSetInduction
<1> QED
  BY <1>1, <1>6

\* The floored share of e that falls to a cap, and one unit more.
LEMMA ShareBounds ==
  ASSUME NEW N \in Nat \ {0}, NEW e \in Nat, e <= N, NEW c \in Nat, NEW q, q = (e * c) \div N
  PROVE  q \in Nat /\ q <= c /\ N * q <= e * c /\ e * c <= N * (q + 1) /\ e * c <= N * c
<1> DEFINE a == e * c
<1>1. a \in Nat /\ a <= N * c
  OBVIOUS
<1>2. q \in Nat /\ N * q <= a /\ a < N * q + N
  <2> HIDE DEF a
  <2>1. \A b \in Nat : b \div N \in Nat /\ N * (b \div N) <= b /\ b < N * (b \div N) + N
    BY DivFact
  <2>2. q = a \div N
    BY DEF a
  <2> QED
    BY <1>1, <2>1, <2>2
<1>3. N * (q + 1) = N * q + N
  BY <1>2, Distributes
<1>4. N * q <= N * c
  <2> HIDE DEF a
  <2>1. N * q \in Int /\ N * c \in Int
    BY <1>2
  <2> QED BY <1>1, <1>2, <2>1
<1>5. q <= c
  BY <1>2, <1>4, ScaleLess
<1> QED
  BY <1>1, <1>2, <1>3, <1>5

\* The shares of e in proportion to the caps.
SharesOfCaps(q, n, L, e) ==
  q = [r \in 1..L |-> IF SumOver(n, 1..L) = 0 THEN 0 ELSE (e * n[r]) \div SumOver(n, 1..L)]

\* One sweep from the floored shares places everything.
LEMMA OneSweepSuffices ==
  ASSUME NEW f, NEW q, NEW n, NEW L, NEW e, NEW K, Sweeping(f, q, n, L, e, K), L <= K,
         SharesOfCaps(q, n, L, e), e <= SumOver(n, 1..L)
  PROVE  SumOver(f[L], 1..L) = e
<1>1. L \in Nat \ {0} /\ e \in Nat /\ K \in Nat /\ n \in [1..L -> Nat] /\ q \in [1..L -> Nat]
  BY DEF Sweeping
<1> DEFINE D == 1..L
           w == f[L]
           N == SumOver(n, D)
           G == SumOver(w, D)
<1>2. L \in 0..L /\ L \in 0..K
  BY <1>1
<1>3. FirstSweep(f, q, n, L, e, L)
  BY <1>2, FirstSweepHolds
<1>4. Within(w, n, L, e)
  BY <1>2, SweepVisited
<1>5. IsFiniteSet(D) /\ NatOn(w, D) /\ IntOn(w, D) /\ NatOn(n, D) /\ IntOn(n, D) /\ NatOn(q, D)
  BY <1>1, <1>4, RolesFinite DEF Within, NatOn, IntOn
<1>6. G \in Nat /\ N \in Nat /\ SumOver(q, D) \in Nat
  <2> HIDE DEF D, w
  <2> QED BY <1>5, SumNat
<1>7. G <= e
  BY <1>4 DEF Within
<1>8. SUFFICES ASSUME G < e PROVE FALSE
  BY <1>1, <1>6, <1>7
<1>9. N \in Nat \ {0}
  <2> HIDE DEF D, w
  <2>1. e <= N
    BY DEF D
  <2> HIDE DEF N, G
  <2> QED
    BY <1>1, <1>6, <1>8, <2>1
<1>10. Before(q, n, L, L + 1) < e - SumOver(q, D)
  <2>1. G - SumOver(q, D) = IF Before(q, n, L, L + 1) < e - SumOver(q, D)
                            THEN Before(q, n, L, L + 1) ELSE e - SumOver(q, D)
    BY <1>3 DEF FirstSweep
  <2> HIDE DEF D, G
  <2> QED
    BY <1>1, <1>6, <1>8, <2>1
<1>11. ASSUME NEW r \in D
       PROVE  e * n[r] <= N * w[r] /\ w[r] \in Nat /\ n[r] \in Nat
  <2>1. w[r] = Swept(q, n, L, e, r)
    BY <1>1, <1>3 DEF FirstSweep
  <2>2. Before(q, n, L, r) < e - SumOver(q, D)
    <3>1. r \in Nat /\ L + 1 \in Nat /\ r <= L + 1
      BY <1>1
    <3>2. /\ Before(q, n, L, r) <= Before(q, n, L, L + 1)
          /\ Before(q, n, L, r) \in Nat /\ Before(q, n, L, L + 1) \in Nat
      BY <1>1, <3>1, BeforeCounts
    <3> HIDE DEF D
    <3> QED
      BY <1>1, <1>6, <1>10, <3>2
  <2>3. w[r] = IF q[r] < n[r] THEN q[r] + 1 ELSE q[r]
    BY <2>1, <2>2 DEF Swept, Spare
  <2>4. n[r] \in Nat /\ w[r] \in Nat /\ q[r] \in Nat
    BY <1>1, <1>5 DEF NatOn
  <2>5. q[r] = (e * n[r]) \div N
    BY <1>9 DEF SharesOfCaps
  <2>6. e <= N
    OBVIOUS
  <2>7. q[r] <= n[r] /\ e * n[r] <= N * (q[r] + 1) /\ e * n[r] <= N * n[r]
    <3> HIDE DEF N, D, w
    <3> QED BY <1>1, <1>9, <2>4, <2>5, <2>6, ShareBounds
  <2>8. CASE q[r] < n[r]
    BY <2>3, <2>4, <2>7, <2>8
  <2>9. CASE ~(q[r] < n[r])
    <3>1. w[r] = n[r]
      <4> HIDE DEF N, D, w
      <4> QED BY <2>3, <2>4, <2>7, <2>9
    <3> QED
      BY <2>4, <2>7, <3>1
  <2> QED
    BY <2>8, <2>9
<1> DEFINE lo == [r \in D |-> e * n[r]]
           hi == [r \in D |-> N * w[r]]
<1>12. /\ Scales(lo, e, n, D) /\ Scales(hi, N, w, D) /\ LeqOn(lo, hi, D)
       /\ IntOn(lo, D) /\ IntOn(hi, D)
  <2>1. Scales(lo, e, n, D) /\ Scales(hi, N, w, D) /\ LeqOn(lo, hi, D)
    BY <1>11 DEF Scales, LeqOn
  <2>2. \A r \in D : lo[r] \in Int /\ hi[r] \in Int
    <3> HIDE DEF D, w, N
    <3> QED BY <1>1, <1>9, <1>11
  <2> QED
    BY <2>1, <2>2 DEF IntOn
<1> HIDE DEF lo, hi, D, w
<1>13. SumOver(lo, D) = e * N /\ SumOver(hi, D) = N * G /\ SumOver(lo, D) <= SumOver(hi, D)
  BY <1>1, <1>5, <1>6, <1>12, SumScale, SumMonotone
<1> HIDE DEF N, G
<1>14. N * e <= N * G
  BY <1>1, <1>6, <1>9, <1>13
<1>15. e <= G
  BY <1>1, <1>6, <1>9, <1>14, ScaleLess
<1> QED
  BY <1>1, <1>6, <1>8, <1>15

\* A visit changes nothing once everything is placed.
LEMMA SweepRests ==
  ASSUME NEW f, NEW q, NEW n, NEW L, NEW e, NEW K, Sweeping(f, q, n, L, e, K),
         NEW m \in 0..K, SumOver(f[m], 1..L) = e
  PROVE  f[K] = f[m]
<1>1. L \in Nat \ {0} /\ e \in Nat /\ K \in Nat
  BY DEF Sweeping
<1> DEFINE Ok == {k \in Nat : k \in m..K => f[k] = f[m]}
<1>2. 0 \in Ok
  <2>1. 0 \in m..K => m = 0
    BY <1>1
  <2> QED
    BY <2>1
<1>3. ASSUME NEW k \in Nat, k \in Ok PROVE k + 1 \in Ok
  <2> SUFFICES ASSUME k + 1 \in m..K PROVE f[k + 1] = f[m]
    OBVIOUS
  <2>1. CASE k + 1 = m
    BY <2>1
  <2>2. CASE k + 1 # m
    <3>1. k \in m..K /\ k \in 0..K /\ k # K
      BY <1>1, <2>2
    <3>2. f[k] = f[m] /\ f[k + 1] = SweepVisit(f[k], (k % L) + 1, n, e) /\ Within(f[k], n, L, e)
      BY <1>3, <3>1, SweepVisited
    <3>3. DOMAIN f[k] = 1..L /\ ~(e < e)
      BY <1>1, <3>2 DEF Within
    <3>4. ~(SumOver(f[k], DOMAIN f[k]) < e)
      BY <3>2, <3>3
    <3> QED
      BY <3>2, <3>4 DEF SweepVisit
  <2> QED
    BY <2>1, <2>2
<1>4. Nat \subseteq Ok
  <2> HIDE DEF Ok
  <2> QED BY <1>2, <1>3, NatSetInduction
<1>5. K \in m..K
  BY <1>1
<1> QED
  BY <1>1, <1>4, <1>5

\* The floored shares are within the caps and within e.
LEMMA SharesWithin ==
  ASSUME NEW L \in Nat \ {0}, NEW n \in [1..L -> Nat], NEW e \in Nat, e <= SumOver(n, 1..L),
         NEW q, SharesOfCaps(q, n, L, e), NEW K, K = (e - SumOver(q, 1..L)) * L
  PROVE  /\ Within(q, n, L, e) /\ SumOver(q, 1..L) \in Nat
         /\ e - SumOver(q, 1..L) \in Nat /\ K \in Nat
<1> DEFINE D == 1..L
           N == SumOver(n, D)
           Q == SumOver(q, D)
<1>1. IsFiniteSet(D) /\ NatOn(n, D)
  BY RolesFinite DEF NatOn
<1>2. N \in Nat /\ IntOn(n, D)
  <2> HIDE DEF D
  <2> QED BY <1>1, SumNat
<1>3. \A r \in D : q[r] \in Nat /\ q[r] <= n[r]
  <2> SUFFICES ASSUME NEW r \in D PROVE q[r] \in Nat /\ q[r] <= n[r]
    OBVIOUS
  <2>1. CASE N = 0
    BY <2>1 DEF SharesOfCaps
  <2>2. CASE N # 0
    <3>1. q[r] = (e * n[r]) \div N /\ n[r] \in Nat /\ N \in Nat \ {0} /\ e <= N
      BY <1>2, <2>2 DEF SharesOfCaps
    <3> HIDE DEF D, N
    <3> QED
      BY <3>1, ShareBounds
  <2> QED
    BY <2>1, <2>2
<1>4. q \in [1..L -> Nat] /\ LeqOn(q, n, D) /\ NatOn(q, D) /\ IntOn(q, D)
  BY <1>3 DEF LeqOn, NatOn, IntOn, SharesOfCaps
<1>5. Q \in Nat /\ Q <= e
  <2>1. Q \in Nat
    <3> HIDE DEF D
    <3> QED BY <1>1, <1>4, SumNat
  <2>2. CASE N = 0
    <3>1. Q <= N
      <4> HIDE DEF D
      <4> QED BY <1>1, <1>2, <1>4, SumMonotone
    <3> QED
      BY <2>1, <2>2, <3>1
  <2>3. CASE N # 0
    <3>1. Shares(q, e, n, N, D)
      BY <2>3 DEF Shares, SharesOfCaps
    <3> DEFINE M == N
    <3>2. M \in Nat \ {0} /\ SumOver(n, D) = M /\ Shares(q, e, n, M, D)
      BY <1>2, <2>3, <3>1
    <3> HIDE DEF D, M
    <3> QED
      BY <1>1, <2>1, <3>2, FloorSum
  <2> QED
    BY <2>2, <2>3
<1>6. e - Q \in Nat /\ K = (e - Q) * L
  <2>1. K = (e - Q) * L
    OBVIOUS
  <2> HIDE DEF Q
  <2> QED BY <1>5, <2>1
<1>7. K \in Nat
  <2> HIDE DEF Q
  <2> QED BY <1>6
<1> QED
  BY <1>4, <1>5, <1>6, <1>7 DEF Within

\* The canonical division: everything is placed, no role beyond its cap, and the units
\* above the floored shares go to the lowest roles that have room.
THEOREM SweepCanonical ==
  ASSUME NEW L \in Nat \ {0}, NEW n \in [1..L -> Nat], NEW e \in Nat, e <= SumOver(n, 1..L),
         NEW q, SharesOfCaps(q, n, L, e),
         NEW K, K = (e - SumOver(q, 1..L)) * L,
         NEW f, f = CHOOSE g : IsSweep(g, q, SweepVisits(n, e), L, K)
  PROVE  /\ K \in Nat
         /\ Within(f[K], n, L, e) /\ SumOver(f[K], 1..L) = e
         /\ \A r \in 1..L : f[K][r] = Swept(q, n, L, e, r)
<1> DEFINE D == 1..L
           Q == SumOver(q, D)
<1>1. Within(q, n, L, e) /\ Q \in Nat /\ e - Q \in Nat /\ K \in Nat /\ K = (e - Q) * L
  BY SharesWithin
<1>2. Q <= e
  BY <1>1 DEF Within
<1>3. IsSweep(f, q, SweepVisits(n, e), L, K)
  BY <1>1, SweepExists
<1>8. Sweeping(f, q, n, L, e, K)
  BY <1>1, <1>2, <1>3 DEF Sweeping, Within
<1>9. K \in 0..K /\ Within(f[K], n, L, e)
  BY <1>1, <1>8, SweepVisited
<1>10. CASE Q = e
  <2>1. K = 0
    <3> HIDE DEF Q
    <3> QED BY <1>1, <1>10
  <2>2. f[K] = q
    BY <1>8, <2>1, SweepVisited
  <2>3. \A r \in D : ~(Before(q, n, L, r) < e - Q)
    <3> SUFFICES ASSUME NEW r \in D PROVE ~(Before(q, n, L, r) < e - Q)
      OBVIOUS
    <3>1. r \in Nat /\ L \in Nat
      OBVIOUS
    <3>2. Before(q, n, L, r) \in Nat
      BY <3>1, BeforeCounts
    <3> HIDE DEF Q
    <3> QED
      BY <1>10, <3>2
  <2>4. \A r \in 1..L : Swept(q, n, L, e, r) = q[r]
    BY <2>3 DEF Swept
  <2> QED
    BY <1>1, <1>9, <1>10, <2>2, <2>4
<1>11. CASE Q # e
  <2>1. L <= K
    <3> HIDE DEF Q
    <3>1. e - Q >= 1
      BY <1>1, <1>2, <1>11
    <3> DEFINE d == e - Q
    <3>2. d \in Nat /\ d >= 1 /\ K = d * L
      BY <1>1, <3>1
    <3> HIDE DEF d
    <3> QED BY <3>2
  <2>2. L \in 0..K /\ L \in 0..L
    BY <1>1, <2>1
  <2>3. SumOver(f[L], 1..L) = e
    BY <1>8, <2>1, OneSweepSuffices
  <2>4. f[K] = f[L]
    BY <1>8, <2>2, <2>3, SweepRests
  <2>5. FirstSweep(f, q, n, L, e, L)
    BY <1>8, <2>1, <2>2, FirstSweepHolds
  <2>6. \A r \in 1..L : r <= L
    OBVIOUS
  <2> QED
    BY <1>1, <1>9, <2>3, <2>4, <2>5, <2>6 DEF FirstSweep
<1> QED
  BY <1>10, <1>11

-----------------------------------------------------------------------------
(* The division of a round among L roles.                                  *)

LEMMA TotalIs ==
  ASSUME NEW L \in Nat, NEW v \in [1..L -> Nat]
  PROVE  Total(v) = SumOver(v, 1..L) /\ Total(v) \in Nat /\ NatOn(v, 1..L) /\ IntOn(v, 1..L)
<1>1. DOMAIN v = 1..L /\ NatOn(v, 1..L)
  BY DEF NatOn
<1>2. SumOver(v, 1..L) \in Nat /\ IntOn(v, 1..L)
  BY <1>1, RolesFinite, SumNat
<1> QED
  BY <1>1, <1>2 DEF Total

\* extinguish_per_role is a sweep over the shares.
LEMMA ExtinguishIsSweep ==
  ASSUME NEW e, NEW n, NEW K, K = (e - Total(Share(e, n))) * Len(n)
  PROVE  ExtinguishPerRole(e, n) =
           (CHOOSE f : IsSweep(f, Share(e, n), SweepVisits(n, e), Len(n), K))[K]
  BY DEF ExtinguishPerRole, IsSweep, SweepVisits, SweepVisit, Total

\* extinguish_per_role places all of E, no role is beyond what it is owed, and the
\* units above the floored shares go to the lowest roles that have room.
LEMMA ExtinguishPlaces ==
  ASSUME NEW L \in Nat \ {0}, NEW n \in [1..L -> Nat], NEW e \in Nat, e <= Total(n),
         NEW er, er = ExtinguishPerRole(e, n)
  PROVE  /\ Within(er, n, L, e) /\ Total(er) = e
         /\ Total(Share(e, n)) = SumOver(Share(e, n), 1..L)
         /\ \A r \in 1..L : er[r] = Swept(Share(e, n), n, L, e, r)
<1> DEFINE q == Share(e, n)
           K == (e - SumOver(q, 1..L)) * L
           f == CHOOSE g : IsSweep(g, q, SweepVisits(n, e), L, K)
<1>1. DOMAIN n = 1..L /\ L \in Nat
  OBVIOUS
<1>2. Total(n) = SumOver(n, 1..L) /\ e <= SumOver(n, 1..L)
  BY <1>1, TotalIs
<1>3. SharesOfCaps(q, n, L, e) /\ DOMAIN q = 1..L
  BY <1>1, <1>2 DEF Share, SharesOfCaps
<1>4. Len(n) = L
  <2>1. n \in Seq(Nat)
    BY <1>1
  <2> QED
    BY <1>1, <2>1
<1>5. Total(q) = SumOver(q, 1..L)
  BY <1>3 DEF Total
<1>6. er = f[K]
  BY <1>4, <1>5, ExtinguishIsSweep
<1> HIDE DEF q, f
<1>7. Within(er, n, L, e) /\ SumOver(er, 1..L) = e /\ \A r \in 1..L : er[r] = Swept(q, n, L, e, r)
  <2> DEFINE M == K
  <2>1. M = (e - SumOver(q, 1..L)) * L /\ f = CHOOSE g : IsSweep(g, q, SweepVisits(n, e), L, M)
    BY DEF f
  <2>2. /\ Within(f[M], n, L, e) /\ SumOver(f[M], 1..L) = e
        /\ \A r \in 1..L : f[M][r] = Swept(q, n, L, e, r)
    <3> HIDE DEF M
    <3> QED BY <1>1, <1>2, <1>3, <2>1, SweepCanonical
  <2> QED
    BY <1>6, <2>2
<1>8. Total(er) = e
  <2>1. er \in [1..L -> Nat]
    BY <1>7 DEF Within
  <2> QED
    BY <1>1, <1>7, <2>1, TotalIs
<1> QED
  BY <1>5, <1>7, <1>8 DEF q

\* A round at unity pays every whole unit outstanding and extinguishes exactly that.
LEMMA UnityDivides ==
  ASSUME NEW L \in Nat \ {0}, NEW n \in [1..L -> Nat], NEW d, d = DivideRound(n, Unity)
  PROVE  /\ d.p = Total(n) \div BpDenom /\ d.p \in Nat
         /\ d.leg <=> d.p # 0
         /\ d.er \in [1..L -> Nat] /\ Total(d.er) = BpDenom * d.p
         /\ \A r \in 1..L : d.er[r] <= n[r]
<1> DEFINE N == Total(n)
           p == N \div BpDenom
           e == BpDenom * p
<1>1. N \in Nat /\ BpDenom \in Nat \ {0}
  BY TotalIs, BpDenomAssumption
<1>2. p \in Nat /\ e <= N /\ e \in Nat
  <2> HIDE DEF N
  <2> QED BY <1>1, DivFact
<1>3. ComputeP(N, Unity) = p
  <2> HIDE DEF N
  <2>1. N * 1 = N /\ 1 * BpDenom = BpDenom
    BY <1>1
  <2> QED
    BY <2>1 DEF ComputeP, Unity
<1>4. ComputeE(p, Unity) = e
  <2> HIDE DEF p
  <2>1. p * 1 * BpDenom = e /\ e \in Nat
    BY <1>1, <1>2
  <2>2. \A a \in Nat : a \div 1 = a
    OBVIOUS
  <2> HIDE DEF e
  <2> QED
    BY <2>1, <2>2 DEF ComputeE, Unity
<1>5. d.p = p /\ d.e = e /\ d.er = ExtinguishPerRole(e, n) /\ d.leg = (e # 0)
  <2> HIDE DEF p, e
  <2> QED BY <1>2, <1>3, <1>4 DEF DivideRound
<1>6. e # 0 <=> p # 0
  <2> HIDE DEF p
  <2> QED BY <1>1, <1>2
<1>7. /\ d.er \in [1..L -> Nat] /\ Total(d.er) = e
      /\ \A r \in 1..L : d.er[r] <= n[r]
  <2> HIDE DEF e
  <2>1. Within(d.er, n, L, e) /\ Total(d.er) = e
    BY <1>2, <1>5, ExtinguishPlaces
  <2> QED BY <2>1 DEF Within, LeqOn
<1> QED
  BY <1>2, <1>5, <1>6, <1>7
=============================================================================
