-------------------------------- MODULE Sums --------------------------------
(***************************************************************************)
(* What the folds of the community modules add up to: facts about the sum  *)
(* of a function's values, for every finite set of arguments.  The proofs  *)
(* go by induction on finite sets, which the library offers as an operator *)
(* of a predicate; here the predicate is a set of sets instead.            *)
(***************************************************************************)
EXTENDS Integers, Functions, FiniteSetTheorems, WellFoundedInduction, TLAPS

\* The sum of f[x] for the x in S, as FoldFunction forms it.
SumOver(f, S) == FoldFunctionOnSet(+, 0, f, S)

\* The element the fold takes out of a set first.
Picked(s) == CHOOSE x \in s : TRUE
Rest(s) == s \ {Picked(s)}

\* g is the function the fold defines on the subsets of S.
Iterates(f, g, S) ==
  g = [s \in SUBSET S |-> IF s = {} THEN 0 ELSE f[Picked(s)] + g[Rest(s)]]

-----------------------------------------------------------------------------
(***************************************************************************)
(* Induction.                                                              *)
(***************************************************************************)

\* A set of subsets of a finite set that is not empty has a minimal member.
LEMMA MinimalSubset ==
  ASSUME NEW S, IsFiniteSet(S), NEW B \in SUBSET (SUBSET S), B # {}
  PROVE  \E T \in B : \A U \in SUBSET T : U # T => U \notin B
<1> DEFINE R == StrictSubsetOrdering(S)
<1>1. IsWellFoundedOn(R, SUBSET S)
  BY FS_StrictSubsetOrderingWellFounded, FS_FiniteSubsetsOfFinite
<1>2. \A T, U \in SUBSET S : U \subseteq T /\ U # T => <<U, T>> \in R
  BY DEF StrictSubsetOrdering
<1> HIDE DEF R
<1>3. PICK T \in B : \A U \in B : ~ (<<U, T>> \in R)
  BY <1>1, WFMin
<1> QED
  BY <1>2, <1>3

\* What holds of the empty set, and of a set with one more member when it
\* holds of the set, holds of every finite set.
LEMMA SetInduction ==
  ASSUME NEW S, IsFiniteSet(S), NEW F, {} \in F,
         \A T \in SUBSET S : \A x \in S \ T : T \in F => T \cup {x} \in F
  PROVE  S \in F
<1> DEFINE B == {T \in SUBSET S : T \notin F}
<1> SUFFICES ASSUME B # {} PROVE FALSE
  OBVIOUS
<1>a. B \in SUBSET (SUBSET S) /\ \A T \in SUBSET S : T \notin B => T \in F
  OBVIOUS
<1>b. \A T \in B : T \notin F
  OBVIOUS
<1> HIDE DEF B
<1>1. PICK T \in B : \A U \in SUBSET T : U # T => U \notin B
  BY <1>a, MinimalSubset
<1>2. PICK x \in T : TRUE
  BY <1>b, <1>1
<1>3. T \ {x} \in F
  BY <1>a, <1>1, <1>2
<1>4. (T \ {x}) \cup {x} = T /\ T \ {x} \in SUBSET S /\ x \in S \ (T \ {x})
  BY <1>a, <1>1, <1>2
<1> QED
  BY <1>b, <1>1, <1>3, <1>4

\* What holds of 0, and of the next number when it holds of one, holds up to n.
LEMMA IntervalInduction ==
  ASSUME NEW n \in Nat, NEW F, 0 \in F, \A k \in 0..(n - 1) : k \in F => k + 1 \in F
  PROVE  \A k \in 0..n : k \in F
<1> DEFINE S == 0..n
           B == {0..k : k \in {j \in 0..n : j \notin F}}
<1> SUFFICES ASSUME NEW i \in 0..n, i \notin F PROVE FALSE
  OBVIOUS
<1>1. IsFiniteSet(S) /\ B \in SUBSET (SUBSET S) /\ B # {}
  <2>1. IsFiniteSet(S)
    BY FS_Interval
  <2>2. 0..i \in B
    OBVIOUS
  <2>3. \A T \in B : T \in SUBSET S
    OBVIOUS
  <2> QED
    BY <2>1, <2>2, <2>3
<1>2. \A T \in B : \E k \in 0..n : k \notin F /\ T = 0..k
  OBVIOUS
<1>3. \A k \in 0..n : k \notin F => 0..k \in B
  OBVIOUS
<1> HIDE DEF S, B
<1>4. PICK T \in B : \A U \in SUBSET T : U # T => U \notin B
  BY <1>1, MinimalSubset
<1>5. PICK k \in 0..n : k \notin F /\ T = 0..k
  BY <1>2
<1>6. k - 1 \in 0..(n - 1) /\ k - 1 \notin F
  <2>1. k # 0
    BY <1>5
  <2>2. k - 1 \in 0..(n - 1) /\ (k - 1) + 1 = k
    BY <2>1
  <2> QED
    BY <1>5, <2>2
<1>7. 0..(k - 1) \in SUBSET T /\ 0..(k - 1) # T
  <2>1. k \in 0..k /\ k \notin 0..(k - 1)
    OBVIOUS
  <2> QED
    BY <1>5, <2>1
<1>8. k - 1 \in 0..n
  BY <1>6
<1> QED
  BY <1>3, <1>4, <1>6, <1>7, <1>8

-----------------------------------------------------------------------------
(***************************************************************************)
(* The function the fold defines exists and is unique.                     *)
(***************************************************************************)

LEMMA PickedIn == \A s : s # {} => Picked(s) \in s /\ Rest(s) \subseteq s /\ Rest(s) # s
  BY DEF Picked, Rest

LEMMA IterateUnique ==
  ASSUME NEW S, IsFiniteSet(S), NEW T \in SUBSET S, NEW f, NEW g, NEW h,
         Iterates(f, g, S), Iterates(f, h, T)
  PROVE  g[T] = h[T]
<1> DEFINE B == {s \in SUBSET T : g[s] # h[s]}
<1> SUFFICES ASSUME B # {} PROVE FALSE
  OBVIOUS
<1>1. B \in SUBSET (SUBSET S)
  OBVIOUS
<1>2. PICK s \in B : \A u \in SUBSET s : u # s => u \notin B
  <2> HIDE DEF B
  <2> QED
    BY <1>1, MinimalSubset
<1>3. /\ g[s] = IF s = {} THEN 0 ELSE f[Picked(s)] + g[Rest(s)]
      /\ h[s] = IF s = {} THEN 0 ELSE f[Picked(s)] + h[Rest(s)]
  BY <1>2 DEF Iterates
<1>4. s # {} => g[Rest(s)] = h[Rest(s)]
  BY <1>2, PickedIn
<1> QED
  BY <1>2, <1>3, <1>4

LEMMA IterateExists ==
  ASSUME NEW S, IsFiniteSet(S), NEW f
  PROVE  \E g : Iterates(f, g, S)
<1> DEFINE B == {T \in SUBSET S : ~ \E g : Iterates(f, g, T)}
<1> SUFFICES ASSUME B # {} PROVE FALSE
  OBVIOUS
<1>a. B \in SUBSET (SUBSET S)
  OBVIOUS
<1>1. PICK T \in B : \A U \in SUBSET T : U # T => U \notin B
  <2> HIDE DEF B
  <2> QED
    BY <1>a, MinimalSubset
<1> DEFINE h(U) == CHOOSE g : Iterates(f, g, U)
           g == [s \in SUBSET T |-> IF s = {} THEN 0 ELSE f[Picked(s)] + h(Rest(s))[Rest(s)]]
<1>2. \A U \in SUBSET T : U # T => Iterates(f, h(U), U)
  BY <1>1
<1> HIDE DEF h
<1>3. ASSUME NEW s \in SUBSET T, s # {} PROVE h(Rest(s))[Rest(s)] = g[Rest(s)]
  <2> DEFINE u == Rest(s)
  <2>1. u \in SUBSET T /\ u # T /\ IsFiniteSet(u)
    <3>1. u \in SUBSET S /\ u \in SUBSET T /\ u # T
      BY <1>1, <1>3, PickedIn
    <3> QED
      BY <3>1, FS_Subset
  <2>2. h(u)[u] = IF u = {} THEN 0 ELSE f[Picked(u)] + h(u)[Rest(u)]
    <3>1. Iterates(f, h(u), u)
      BY <1>2, <2>1
    <3> HIDE DEF u
    <3> QED
      BY <3>1 DEF Iterates
  <2>3. u # {} => h(u)[Rest(u)] = h(Rest(u))[Rest(u)]
    <3> SUFFICES ASSUME u # {} PROVE h(u)[Rest(u)] = h(Rest(u))[Rest(u)]
      OBVIOUS
    <3>1. Rest(u) \in SUBSET u /\ Rest(u) \in SUBSET T /\ Rest(u) # T
      BY <2>1, PickedIn
    <3> HIDE DEF u
    <3>2. Iterates(f, h(u), u) /\ Iterates(f, h(Rest(u)), Rest(u))
      BY <1>2, <2>1, <3>1
    <3> QED
      BY <2>1, <3>1, <3>2, IterateUnique
  <2>4. g[u] = IF u = {} THEN 0 ELSE f[Picked(u)] + h(Rest(u))[Rest(u)]
    BY <2>1
  <2> HIDE DEF u, g
  <2>5. h(u)[u] = g[u]
    BY <2>2, <2>3, <2>4
  <2> QED
    BY <2>5 DEF u
<1>4. Iterates(f, g, T)
  <2>1. g = [s \in SUBSET T |-> IF s = {} THEN 0 ELSE f[Picked(s)] + g[Rest(s)]]
    BY <1>3
  <2> QED
    BY <2>1 DEF Iterates
<1> QED
  BY <1>1, <1>4

LEMMA SumIterates ==
  ASSUME NEW f, NEW S
  PROVE  SumOver(f, S) = (CHOOSE g : Iterates(f, g, S))[S]
  BY DEF SumOver, FoldFunctionOnSet, MapThenFoldSet, Iterates, Picked, Rest

\* The sum, one element at a time.
LEMMA SumUnfolds ==
  ASSUME NEW f, NEW S, IsFiniteSet(S)
  PROVE  SumOver(f, S) = IF S = {} THEN 0 ELSE f[Picked(S)] + SumOver(f, Rest(S))
<1> DEFINE h(U) == CHOOSE g : Iterates(f, g, U)
<1>1. Iterates(f, h(S), S)
  BY IterateExists
<1>2. SumOver(f, S) = h(S)[S] /\ SumOver(f, Rest(S)) = h(Rest(S))[Rest(S)]
  BY SumIterates
<1>3. Rest(S) \in SUBSET S /\ IsFiniteSet(Rest(S))
  BY FS_RemoveElement DEF Rest
<1>4. Iterates(f, h(Rest(S)), Rest(S))
  BY <1>3, IterateExists
<1> HIDE DEF h
<1>5. h(S)[S] = IF S = {} THEN 0 ELSE f[Picked(S)] + h(S)[Rest(S)]
  BY <1>1 DEF Iterates
<1>6. h(S)[Rest(S)] = h(Rest(S))[Rest(S)]
  BY <1>1, <1>3, <1>4, IterateUnique
<1> QED
  BY <1>2, <1>5, <1>6

-----------------------------------------------------------------------------
(***************************************************************************)
(* The facts to cite.                                                      *)
(***************************************************************************)

LEMMA SumEmpty == ASSUME NEW f PROVE SumOver(f, {}) = 0
  BY SumUnfolds, FS_EmptySet

LEMMA SumType ==
  ASSUME NEW S, IsFiniteSet(S), NEW f, \A x \in S : f[x] \in Int
  PROVE  SumOver(f, S) \in Int
<1> DEFINE B == {T \in SUBSET S : SumOver(f, T) \notin Int}
<1> SUFFICES ASSUME B # {} PROVE FALSE
  OBVIOUS
<1>1. B \in SUBSET (SUBSET S)
  OBVIOUS
<1>2. PICK T \in B : \A U \in SUBSET T : U # T => U \notin B
  <2> HIDE DEF B
  <2> QED
    BY <1>1, MinimalSubset
<1>3. SumOver(f, T) = IF T = {} THEN 0 ELSE f[Picked(T)] + SumOver(f, Rest(T))
  BY <1>2, FS_Subset, SumUnfolds
<1>4. T # {} => f[Picked(T)] \in Int /\ SumOver(f, Rest(T)) \in Int
  BY <1>2, PickedIn
<1> QED
  BY <1>2, <1>3, <1>4

\* The order the fold takes the elements in does not matter.
LEMMA SumTakeOut ==
  ASSUME NEW S, IsFiniteSet(S), NEW f, \A x \in S : f[x] \in Int, NEW y \in S
  PROVE  SumOver(f, S) = f[y] + SumOver(f, S \ {y})
<1> DEFINE Splits(T) == \A x \in T : SumOver(f, T) = f[x] + SumOver(f, T \ {x})
           B == {T \in SUBSET S : ~ Splits(T)}
<1> SUFFICES ASSUME B # {} PROVE FALSE
  OBVIOUS
<1>1. B \in SUBSET (SUBSET S)
  OBVIOUS
<1>2. PICK T \in B : \A U \in SUBSET T : U # T => U \notin B
  <2> HIDE DEF B
  <2> QED
    BY <1>1, MinimalSubset
<1>3. PICK x \in T : SumOver(f, T) # f[x] + SumOver(f, T \ {x})
  BY <1>2
<1> DEFINE c == Picked(T)
<1>4. SumOver(f, T) = f[c] + SumOver(f, T \ {c}) /\ c \in T
  BY <1>2, <1>3, FS_Subset, SumUnfolds, PickedIn DEF Rest
<1> HIDE DEF c
<1>5. c # x
  BY <1>3, <1>4
<1>6. Splits(T \ {c}) /\ Splits(T \ {x})
  BY <1>2, <1>3, <1>4
<1>7. SumOver(f, T \ {c}) = f[x] + SumOver(f, (T \ {c}) \ {x})
  BY <1>3, <1>5, <1>6
<1>8. SumOver(f, T \ {x}) = f[c] + SumOver(f, (T \ {x}) \ {c})
  BY <1>4, <1>5, <1>6
<1>9. SumOver(f, T \ {x}) = f[c] + SumOver(f, (T \ {c}) \ {x})
  <2>1. (T \ {c}) \ {x} = (T \ {x}) \ {c}
    OBVIOUS
  <2> QED
    BY <1>8, <2>1, Zenon
<1>10. f[x] \in Int /\ f[c] \in Int /\ SumOver(f, (T \ {c}) \ {x}) \in Int
  <2>1. (T \ {c}) \ {x} \in SUBSET S
    BY <1>2
  <2> QED
    BY <1>2, <1>3, <1>4, <2>1, FS_Subset, SumType
<1> QED
  BY <1>3, <1>4, <1>7, <1>9, <1>10

LEMMA SumAdd ==
  ASSUME NEW S, IsFiniteSet(S), NEW f, NEW y, y \notin S,
         \A x \in S \cup {y} : f[x] \in Int
  PROVE  SumOver(f, S \cup {y}) = SumOver(f, S) + f[y]
<1>1. IsFiniteSet(S \cup {y}) /\ (S \cup {y}) \ {y} = S
  BY FS_AddElement
<1>2. SumOver(f, S) \in Int /\ f[y] \in Int
  BY SumType
<1>3. SumOver(f, S \cup {y}) = f[y] + SumOver(f, (S \cup {y}) \ {y})
  BY <1>1, SumTakeOut
<1>4. SumOver(f, S \cup {y}) = f[y] + SumOver(f, S)
  BY <1>1, <1>3, Zenon
<1> QED
  BY <1>2, <1>4

\* The sum depends on the values at the members of the set and nothing else.
LEMMA SumCongruence ==
  ASSUME NEW S, IsFiniteSet(S), NEW f, NEW g, \A x \in S : f[x] = g[x]
  PROVE  SumOver(f, S) = SumOver(g, S)
<1> DEFINE B == {T \in SUBSET S : SumOver(f, T) # SumOver(g, T)}
<1> SUFFICES ASSUME B # {} PROVE FALSE
  OBVIOUS
<1>1. B \in SUBSET (SUBSET S)
  OBVIOUS
<1>2. PICK T \in B : \A U \in SUBSET T : U # T => U \notin B
  <2> HIDE DEF B
  <2> QED
    BY <1>1, MinimalSubset
<1>3. /\ SumOver(f, T) = IF T = {} THEN 0 ELSE f[Picked(T)] + SumOver(f, Rest(T))
      /\ SumOver(g, T) = IF T = {} THEN 0 ELSE g[Picked(T)] + SumOver(g, Rest(T))
  BY <1>2, FS_Subset, SumUnfolds
<1>4. T # {} => f[Picked(T)] = g[Picked(T)] /\ SumOver(f, Rest(T)) = SumOver(g, Rest(T))
  BY <1>2, PickedIn
<1> QED
  BY <1>2, <1>3, <1>4

\* One value changes.
LEMMA SumChange ==
  ASSUME NEW S, IsFiniteSet(S), NEW f, NEW g, NEW y \in S,
         \A x \in S : f[x] \in Int /\ g[x] \in Int,
         \A x \in S \ {y} : f[x] = g[x]
  PROVE  SumOver(g, S) = SumOver(f, S) - f[y] + g[y]
<1>1. IsFiniteSet(S \ {y})
  BY FS_RemoveElement
<1>2. SumOver(f, S \ {y}) = SumOver(g, S \ {y}) /\ SumOver(f, S \ {y}) \in Int
  BY <1>1, SumCongruence, SumType
<1>3. SumOver(f, S) = f[y] + SumOver(f, S \ {y}) /\ SumOver(g, S) = g[y] + SumOver(g, S \ {y})
  BY SumTakeOut
<1> QED
  BY <1>2, <1>3

LEMMA ImageFinite ==
  ASSUME NEW S, IsFiniteSet(S), NEW h
  PROVE  IsFiniteSet({h[x] : x \in S})
<1> DEFINE T == {h[x] : x \in S}
           f == [x \in S |-> h[x]]
<1>1. f \in Surjection(S, T)
  BY DEF Surjection
<1> QED
  BY <1>1, FS_Surjection

\* The sum over a set is that over another which it numbers.
LEMMA SumReindex ==
  ASSUME NEW S, IsFiniteSet(S), NEW h, NEW f, NEW g,
         \A x \in S : g[h[x]] = f[x] /\ f[x] \in Int,
         \A x, y \in S : h[x] = h[y] => x = y
  PROVE  SumOver(f, S) = SumOver(g, {h[x] : x \in S})
<1> DEFINE Image(T) == {h[x] : x \in T}
           B == {T \in SUBSET S : SumOver(f, T) # SumOver(g, Image(T))}
<1> SUFFICES ASSUME B # {} PROVE FALSE
  OBVIOUS
<1>1. B \in SUBSET (SUBSET S)
  OBVIOUS
<1>2. PICK T \in B : \A U \in SUBSET T : U # T => U \notin B
  <2> HIDE DEF B
  <2> QED
    BY <1>1, MinimalSubset
<1>3. T # {}
  <2>1. SumOver(f, {}) = 0 /\ SumOver(g, {}) = 0
    BY SumEmpty
  <2>2. Image({}) = {}
    OBVIOUS
  <2> QED
    BY <1>2, <2>1, <2>2
<1>4. PICK c \in T : TRUE
  BY <1>3
<1>5. /\ T \in SUBSET S /\ IsFiniteSet(T) /\ IsFiniteSet(T \ {c})
      /\ SumOver(f, T \ {c}) = SumOver(g, Image(T \ {c}))
      /\ SumOver(f, T) # SumOver(g, Image(T))
  BY <1>2, <1>4, FS_Subset, FS_RemoveElement
<1>6. Image(T) = Image(T \ {c}) \cup {h[c]} /\ h[c] \notin Image(T \ {c})
  BY <1>4, <1>5
<1>7. IsFiniteSet(Image(T \ {c}))
  BY <1>5, ImageFinite
<1>8. \A z \in Image(T \ {c}) \cup {h[c]} : g[z] \in Int
  BY <1>4, <1>5
<1> HIDE DEF Image
<1>9. SumOver(g, Image(T)) = SumOver(g, Image(T \ {c})) + g[h[c]]
  <2> DEFINE I == Image(T \ {c})
             z == h[c]
  <2>1. IsFiniteSet(I) /\ z \notin I /\ \A x \in I \cup {z} : g[x] \in Int
    BY <1>6, <1>7, <1>8
  <2>2. Image(T) = I \cup {z}
    BY <1>6
  <2> HIDE DEF I, z, B
  <2>3. SumOver(g, I \cup {z}) = SumOver(g, I) + g[z]
    BY <2>1, SumAdd
  <2> QED
    BY <2>2, <2>3 DEF I, z
<1>10. SumOver(f, T) = f[c] + SumOver(f, T \ {c}) /\ SumOver(f, T \ {c}) \in Int
  BY <1>4, <1>5, SumTakeOut, SumType
<1> QED
  BY <1>4, <1>5, <1>9, <1>10

\* The sum over the places of a list that has become one longer.
LEMMA SumAppend ==
  ASSUME NEW n \in Nat, NEW f, NEW g,
         \A k \in 1..(n + 1) : g[k] \in Int,
         \A k \in 1..n : f[k] = g[k]
  PROVE  SumOver(g, 1..(n + 1)) = SumOver(f, 1..n) + g[n + 1]
<1>1. IsFiniteSet(1..n)
  BY FS_Interval
<1>2. 1..(n + 1) = (1..n) \cup {n + 1} /\ n + 1 \notin 1..n
  OBVIOUS
<1> DEFINE S == 1..n
           y == n + 1
<1>3. IsFiniteSet(S) /\ y \notin S /\ \A k \in S \cup {y} : g[k] \in Int
  BY <1>1, <1>2
<1>4. \A k \in S : f[k] = g[k]
  OBVIOUS
<1>5. 1..(n + 1) = S \cup {y}
  BY <1>2
<1> HIDE DEF S, y
<1>6. SumOver(g, S \cup {y}) = SumOver(g, S) + g[y]
  BY <1>3, SumAdd, SMTT(30)
<1>7. SumOver(f, S) = SumOver(g, S)
  BY <1>3, <1>4, SumCongruence
<1> QED
  BY <1>5, <1>6, <1>7 DEF S, y

LEMMA SumZero ==
  ASSUME NEW S, IsFiniteSet(S), NEW f, \A x \in S : f[x] = 0
  PROVE  SumOver(f, S) = 0
<1> DEFINE B == {T \in SUBSET S : SumOver(f, T) # 0}
<1> SUFFICES ASSUME B # {} PROVE FALSE
  OBVIOUS
<1>1. B \in SUBSET (SUBSET S)
  OBVIOUS
<1>2. PICK T \in B : \A U \in SUBSET T : U # T => U \notin B
  <2> HIDE DEF B
  <2> QED
    BY <1>1, MinimalSubset
<1>3. SumOver(f, T) = IF T = {} THEN 0 ELSE f[Picked(T)] + SumOver(f, Rest(T))
  BY <1>2, FS_Subset, SumUnfolds
<1>4. T # {} => f[Picked(T)] = 0 /\ SumOver(f, Rest(T)) = 0
  BY <1>2, PickedIn
<1> QED
  BY <1>2, <1>3, <1>4

\* The sum over an interval one longer.
LEMMA SumInterval ==
  ASSUME NEW a \in Int, NEW b \in Int, a <= b, NEW f, \A k \in a..b : f[k] \in Int
  PROVE  SumOver(f, a..b) = SumOver(f, a..(b - 1)) + f[b]
<1> DEFINE S == a..(b - 1)
<1>1. IsFiniteSet(S) /\ b \notin S /\ \A k \in S \cup {b} : f[k] \in Int
  BY FS_Interval
<1>2. a..b = S \cup {b}
  OBVIOUS
<1> HIDE DEF S
<1>3. SumOver(f, S \cup {b}) = SumOver(f, S) + f[b]
  BY <1>1, SumAdd
<1> QED
  BY <1>2, <1>3 DEF S

\* The interval a..e is a..b and then places where f is c.
FlatFrom(f, a, b, e, c) ==
  /\ a \in Int /\ b \in Int /\ e \in Int /\ c \in Int /\ a <= b + 1 /\ b <= e
  /\ \A k \in a..b : f[k] \in Int
  /\ \A k \in (b + 1)..e : f[k] = c

\* The sum over an interval that is longer by some places of the same value.
LEMMA SumFlat ==
  ASSUME NEW f, NEW a, NEW b, NEW e, NEW c, FlatFrom(f, a, b, e, c)
  PROVE  SumOver(f, a..e) = SumOver(f, a..b) + (e - b) * c
<1> DEFINE d == e - b
           s == SumOver(f, a..b)
           F == {k \in 0..d : SumOver(f, a..(b + k)) = s + k * c}
<1>a. /\ a \in Int /\ b \in Int /\ e \in Int /\ c \in Int /\ a <= b + 1 /\ b <= e
      /\ \A k \in a..b : f[k] \in Int
      /\ \A k \in (b + 1)..e : f[k] = c
  BY DEF FlatFrom
<1>0. d \in Nat /\ e = b + d
  BY <1>a
<1>1. s \in Int
  <2> DEFINE S == a..b
  <2>1. IsFiniteSet(S) /\ \A k \in S : f[k] \in Int
    BY <1>a, FS_Interval
  <2> HIDE DEF S
  <2>2. SumOver(f, S) \in Int
    BY <2>1, SumType
  <2> QED
    BY <2>2 DEF S
<1>2. 0 \in F
  <2>1. b + 0 = b /\ s + 0 * c = s
    BY <1>a, <1>1
  <2> QED
    BY <1>0, <2>1
<1>3. ASSUME NEW k \in 0..(d - 1), k \in F PROVE k + 1 \in F
  <2> DEFINE h == b + (k + 1)
  <2>1. h \in Int /\ a <= h /\ h <= e /\ k \in Int /\ h - 1 = b + k /\ f[h] = c
    BY <1>a
  <2>2. \A j \in a..h : f[j] \in Int
    <3> TAKE j \in a..h
    <3>1. j \in a..b \/ j \in (b + 1)..e
      BY <1>a, <2>1
    <3> QED
      BY <1>a, <3>1
  <2>3. SumOver(f, a..(h - 1)) = s + k * c
    BY <1>3, <2>1
  <2> HIDE DEF h, s
  <2>4. SumOver(f, a..h) = SumOver(f, a..(h - 1)) + f[h]
    BY <1>a, <2>1, <2>2, SumInterval
  <2>5. SumOver(f, a..h) = (s + k * c) + c
    BY <2>1, <2>3, <2>4
  <2>6. (s + k * c) + c = s + (k + 1) * c
    BY <1>a, <1>1, <2>1
  <2> QED
    BY <1>a, <1>0, <2>1, <2>5, <2>6 DEF h
<1> HIDE DEF F, s, d
<1>4. \A k \in 0..d : k \in F
  BY <1>0, <1>2, <1>3, IntervalInduction
<1>5. d \in F
  BY <1>0, <1>4
<1> QED
  BY <1>0, <1>5 DEF F, s, d

\* At x, h is c times f less g.
Differs(c, f, g, h, x) == f[x] \in Int /\ g[x] \in Int /\ h[x] = c * f[x] - g[x]

\* A sum of such differences.
LEMMA SumLinear ==
  ASSUME NEW S, IsFiniteSet(S), NEW c \in Int, NEW f, NEW g, NEW h,
         \A x \in S : Differs(c, f, g, h, x)
  PROVE  SumOver(h, S) = c * SumOver(f, S) - SumOver(g, S)
<1> DEFINE F == {T \in SUBSET S : SumOver(h, T) = c * SumOver(f, T) - SumOver(g, T)}
<1>1. {} \in F
  BY SumEmpty
<1>2. ASSUME NEW T \in SUBSET S, NEW x \in S \ T, T \in F PROVE T \cup {x} \in F
  <2>1. IsFiniteSet(T)
    BY FS_Subset
  <2>2. /\ SumOver(f, T \cup {x}) = SumOver(f, T) + f[x]
        /\ SumOver(g, T \cup {x}) = SumOver(g, T) + g[x]
        /\ SumOver(h, T \cup {x}) = SumOver(h, T) + h[x]
    <3>1. \A y \in T \cup {x} : f[y] \in Int /\ g[y] \in Int /\ h[y] \in Int
      <4> TAKE y \in T \cup {x}
      <4>1. f[y] \in Int /\ g[y] \in Int /\ h[y] = c * f[y] - g[y]
        BY DEF Differs
      <4>2. c * f[y] \in Int
        BY <4>1
      <4> QED
        BY <4>1, <4>2
    <3>2. x \notin T
      OBVIOUS
    <3> HIDE DEF F
    <3>3. SumOver(f, T \cup {x}) = SumOver(f, T) + f[x]
      <4>1. \A y \in T \cup {x} : f[y] \in Int
        BY <3>1
      <4> QED
        BY <2>1, <3>2, <4>1, SumAdd, Zenon
    <3>4. SumOver(g, T \cup {x}) = SumOver(g, T) + g[x]
      <4>1. \A y \in T \cup {x} : g[y] \in Int
        BY <3>1
      <4> QED
        BY <2>1, <3>2, <4>1, SumAdd, Zenon
    <3>5. SumOver(h, T \cup {x}) = SumOver(h, T) + h[x]
      <4>1. \A y \in T \cup {x} : h[y] \in Int
        BY <3>1
      <4> QED
        BY <2>1, <3>2, <4>1, SumAdd, Zenon
    <3> QED
      BY <3>3, <3>4, <3>5
  <2>3. SumOver(f, T) \in Int /\ SumOver(g, T) \in Int
    <3>1. \A y \in T : f[y] \in Int /\ g[y] \in Int
      BY DEF Differs
    <3> QED
      BY <2>1, <3>1, SumType
  <2> DEFINE a == SumOver(f, T)
             b == SumOver(g, T)
  <2>4. a \in Int /\ b \in Int /\ f[x] \in Int /\ g[x] \in Int /\ h[x] = c * f[x] - g[x]
    BY <2>3 DEF Differs
  <2>5. SumOver(h, T) = c * a - b
    BY <1>2
  <2> HIDE DEF a, b
  <2>6. (c * a - b) + (c * f[x] - g[x]) = c * (a + f[x]) - (b + g[x])
    BY <2>4
  <2> QED
    BY <2>2, <2>4, <2>5, <2>6 DEF a, b
<1> HIDE DEF F
<1>3. S \in F
  BY <1>1, <1>2, SetInduction
<1> QED
  BY <1>3 DEF F

\* Values that are off by at most d each are off by at most d times their number.
LEMMA SumBetween ==
  ASSUME NEW S, IsFiniteSet(S), NEW c \in Int, NEW d \in Nat, NEW f, NEW g,
         \A x \in S : /\ f[x] \in Int /\ g[x] \in Int
                      /\ f[x] - d <= c * g[x] /\ c * g[x] <= f[x]
  PROVE  /\ SumOver(f, S) - d * Cardinality(S) <= c * SumOver(g, S)
         /\ c * SumOver(g, S) <= SumOver(f, S)
<1> DEFINE P(T) == /\ SumOver(f, T) - d * Cardinality(T) <= c * SumOver(g, T)
                   /\ c * SumOver(g, T) <= SumOver(f, T)
           F == {T \in SUBSET S : P(T)}
<1>1. {} \in F
  BY SumEmpty, FS_EmptySet
<1>2. ASSUME NEW T \in SUBSET S, NEW x \in S \ T, T \in F PROVE T \cup {x} \in F
  <2>1. IsFiniteSet(T)
    BY FS_Subset
  <2>2. /\ SumOver(f, T \cup {x}) = SumOver(f, T) + f[x]
        /\ SumOver(g, T \cup {x}) = SumOver(g, T) + g[x]
    <3>1. \A y \in T \cup {x} : f[y] \in Int /\ g[y] \in Int
      OBVIOUS
    <3> HIDE DEF F
    <3> QED
      BY <2>1, <3>1, SumAdd
  <2>3. SumOver(f, T) \in Int /\ SumOver(g, T) \in Int
    BY <2>1, SumType
  <2>4. Cardinality(T) \in Nat /\ Cardinality(T \cup {x}) = Cardinality(T) + 1
    BY <2>1, FS_CardinalityType, FS_AddElement
  <2> DEFINE a == SumOver(f, T)
             b == SumOver(g, T)
             n == Cardinality(T)
  <2>5. /\ a \in Int /\ b \in Int /\ n \in Nat /\ f[x] \in Int /\ g[x] \in Int
        /\ f[x] - d <= c * g[x] /\ c * g[x] <= f[x]
    BY <2>3, <2>4
  <2>6. a - d * n <= c * b /\ c * b <= a
    BY <1>2
  <2> HIDE DEF a, b, n
  <2>7. c * (b + g[x]) = c * b + c * g[x] /\ d * (n + 1) = d * n + d
    BY <2>5
  <2>8. c * b \in Int /\ c * g[x] \in Int /\ d * n \in Int
    BY <2>5
  <2>9. (a + f[x]) - d * (n + 1) <= c * (b + g[x]) /\ c * (b + g[x]) <= a + f[x]
    BY <2>5, <2>6, <2>7, <2>8
  <2>10. P(T \cup {x})
    BY <2>2, <2>4, <2>9 DEF a, b, n
  <2> QED
    BY <2>10
<1> HIDE DEF F
<1>3. S \in F
  BY <1>1, <1>2, SetInduction
<1> QED
  BY <1>3 DEF F
=============================================================================
