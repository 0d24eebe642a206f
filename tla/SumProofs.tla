----------------------------- MODULE SumProofs ------------------------------
(***************************************************************************)
(* Sums over finite sets.  MapThenSumSet takes its summand as an operator, *)
(* about which no lemma can be stated; IsSum says what the function it     *)
(* folds with is for a summand that is a function.                         *)
(***************************************************************************)
EXTENDS FiniteSetsExt, FiniteSetTheorems, WellFoundedInduction, TLAPS

Sum(f, S) == MapThenSumSet(LAMBDA x : f[x], S)

IsSum(g, f, S) ==
  g = [s \in SUBSET S |-> IF s = {} THEN 0
                          ELSE f[CHOOSE x \in s : TRUE] + g[s \ {CHOOSE x \in s : TRUE}]]

(* What holds for some finite set of W holds for a smallest one. *)
LEMMA SmallestSet ==
  ASSUME NEW S, IsFiniteSet(S), NEW W, W \subseteq SUBSET S, W # {}
  PROVE  \E w \in W : \A v \in W : v \subseteq w => v = w
<1> DEFINE R == StrictSubsetOrdering(S)
<1>1. IsWellFoundedOn(R, FiniteSubsetsOf(S))
  BY FS_StrictSubsetOrderingWellFounded, Zenon
<1>2. FiniteSubsetsOf(S) = SUBSET S
  BY FS_FiniteSubsetsOfFinite, Zenon
<1>3. PICK w \in W : \A v \in W : ~(<<v, w>> \in R)
  <2> HIDE DEF R
  <2> QED
    BY <1>1, <1>2, WFMin, Zenon
<1>4. ASSUME NEW v \in W, v \subseteq w, v # w PROVE FALSE
  <2>1. <<v, w>> \notin R
    BY <1>3
  <2> QED
    BY <1>4, <2>1 DEF StrictSubsetOrdering
<1> QED
  BY <1>4

LEMMA SumStep ==
  ASSUME NEW f, NEW S, NEW g, IsSum(g, f, S), NEW U, U \subseteq S
  PROVE  /\ U = {} => g[U] = 0
         /\ U # {} => \E c \in U : c = (CHOOSE x \in U : TRUE) /\ g[U] = f[c] + g[U \ {c}]
BY DEF IsSum

(* Sums of the same numbers are the same. *)
LEMMA SumSame ==
  ASSUME NEW f, NEW S, NEW g, IsSum(g, f, S),
         NEW e, NEW T, NEW h, IsSum(h, e, T),
         NEW U, U \subseteq S, U \subseteq T, IsFiniteSet(U), \A x \in U : f[x] = e[x]
  PROVE  g[U] = h[U]
<1> DEFINE W == {V \in SUBSET U : g[V] # h[V]}
<1> SUFFICES ASSUME W # {} PROVE FALSE
  OBVIOUS
<1>1. PICK w \in W : \A v \in W : v \subseteq w => v = w
  <2>1. W \subseteq SUBSET U
    OBVIOUS
  <2> HIDE DEF W
  <2> QED
    BY <2>1, SmallestSet
<1>2. w # {}
  <2>1. g[{}] = 0 /\ h[{}] = 0
    BY SumStep
  <2> QED
    BY <2>1
<1>3. PICK c \in w : c = (CHOOSE x \in w : TRUE) /\ g[w] = f[c] + g[w \ {c}]
  BY <1>2, SumStep
<1>4. h[w] = e[c] + h[w \ {c}]
  <2>1. PICK d \in w : d = (CHOOSE x \in w : TRUE) /\ h[w] = e[d] + h[w \ {d}]
    BY <1>2, SumStep
  <2> QED
    BY <1>3, <2>1
<1>5. g[w \ {c}] = h[w \ {c}]
  BY <1>1
<1> QED
  BY <1>3, <1>4, <1>5

LEMMA SumExists ==
  ASSUME NEW f, NEW S, IsFiniteSet(S)
  PROVE  \E g : IsSum(g, f, S)
<1> DEFINE W == {V \in SUBSET S : ~\E g : IsSum(g, f, V)}
<1> SUFFICES ASSUME W # {} PROVE FALSE
  OBVIOUS
<1>1. PICK U \in W : \A v \in W : v \subseteq U => v = U
  <2>1. W \subseteq SUBSET S
    OBVIOUS
  <2> HIDE DEF W
  <2> QED
    BY <2>1, SmallestSet
<1> DEFINE H(V) == CHOOSE g : IsSum(g, f, V)
           c == CHOOSE x \in U : TRUE
           g == [s \in SUBSET U |-> IF s = {} THEN 0
                                    ELSE IF s # U THEN H(s)[s] ELSE f[c] + H(U \ {c})[U \ {c}]]
<1>2. \A V \in SUBSET U : V # U => IsSum(H(V), f, V)
  BY <1>1
<1>3. \A V \in SUBSET U : IsFiniteSet(V)
  BY FS_Subset
<1>4. U # {} => c \in U
  OBVIOUS
<1> HIDE DEF H
<1>5. ASSUME NEW s \in SUBSET U
      PROVE  g[s] = IF s = {} THEN 0
                    ELSE f[CHOOSE x \in s : TRUE] + g[s \ {CHOOSE x \in s : TRUE}]
  <2>1. CASE s = {}
    BY <2>1
  <2>2. CASE s # {} /\ s # U
    <3>1. PICK d \in s : d = (CHOOSE x \in s : TRUE) /\ H(s)[s] = f[d] + H(s)[s \ {d}]
      BY <2>2, <1>2, SumStep
    <3>2. CASE s \ {d} = {}
      <4>1. H(s)[s \ {d}] = 0
        BY <3>2, <2>2, <1>2, SumStep
      <4> QED
        BY <3>1, <3>2, <4>1, <2>2
    <3>3. CASE s \ {d} # {}
      <4>1. H(s)[s \ {d}] = H(s \ {d})[s \ {d}]
        <5> DEFINE V == s \ {d}
        <5>1. IsSum(H(s), f, s) /\ IsSum(H(V), f, V) /\ V \subseteq s /\ IsFiniteSet(V)
          BY <1>2, <1>3, <2>2, <3>1
        <5> QED
          BY <5>1, SumSame
      <4>2. g[s \ {d}] = H(s \ {d})[s \ {d}]
        BY <3>1, <3>3, <2>2
      <4> QED
        BY <3>1, <4>1, <4>2, <2>2
    <3> QED
      BY <3>2, <3>3
  <2>3. CASE s # {} /\ s = U
    <3>1. g[U \ {c}] = H(U \ {c})[U \ {c}]
      <4>1. CASE U \ {c} = {}
        <5>1. H(U \ {c})[U \ {c}] = 0
          BY <4>1, <1>2, <1>4, <2>3, SumStep
        <5> QED
          BY <5>1, <4>1
      <4> QED
        BY <4>1, <1>4, <2>3
    <3> QED
      BY <2>3, <3>1
  <2> QED
    BY <2>1, <2>2, <2>3
<1>6. IsSum(g, f, U)
  <2>1. g = [s \in SUBSET U |-> g[s]]
    OBVIOUS
  <2> HIDE DEF g
  <2> QED
    BY <1>5, <2>1 DEF IsSum
<1> QED
  BY <1>6

(* A sum may take any element first. *)
LEMMA SumTake ==
  ASSUME NEW f, NEW S, IsFiniteSet(S), \A x \in S : f[x] \in Int, NEW g, IsSum(g, f, S),
         NEW U, U \subseteq S
  PROVE  /\ g[U] \in Int
         /\ \A x \in U : g[U] = f[x] + g[U \ {x}]
<1>1. \A V \in SUBSET S : g[V] \in Int
  <2> DEFINE W == {V \in SUBSET S : g[V] \notin Int}
  <2> SUFFICES ASSUME W # {} PROVE FALSE
    OBVIOUS
  <2>1. PICK w \in W : \A v \in W : v \subseteq w => v = w
    <3>1. W \subseteq SUBSET S
      OBVIOUS
    <3> HIDE DEF W
    <3> QED
      BY <3>1, SmallestSet
  <2>2. w # {}
    BY SumStep
  <2>3. PICK c \in w : g[w] = f[c] + g[w \ {c}]
    BY <2>2, SumStep
  <2>4. g[w \ {c}] \in Int
    BY <2>1
  <2> QED
    BY <2>3, <2>4
<1>2. \A V \in SUBSET S : \A x \in V : g[V] = f[x] + g[V \ {x}]
  <2> DEFINE W == {V \in SUBSET S : \E x \in V : g[V] # f[x] + g[V \ {x}]}
  <2> SUFFICES ASSUME W # {} PROVE FALSE
    OBVIOUS
  <2>1. PICK w \in W : \A v \in W : v \subseteq w => v = w
    <3>1. W \subseteq SUBSET S
      OBVIOUS
    <3> HIDE DEF W
    <3> QED
      BY <3>1, SmallestSet
  <2>2. PICK x \in w : g[w] # f[x] + g[w \ {x}]
    <3>1. w \in W
      OBVIOUS
    <3> QED
      BY <3>1, Zenon
  <2>3. PICK c \in w : c = (CHOOSE y \in w : TRUE) /\ g[w] = f[c] + g[w \ {c}]
    BY <2>2, SumStep
  <2>4. c # x
    BY <2>2, <2>3
  <2>5. w \ {c} \notin W /\ w \ {x} \notin W
    BY <2>1
  <2>6. PICK v : v = w \ {c, x} /\ v \in SUBSET S
    OBVIOUS
  <2>7. g[w \ {c}] = f[x] + g[v]
    <3>1. x \in w \ {c} /\ (w \ {c}) \ {x} = v
      BY <2>4, <2>6
    <3> QED
      BY <2>5, <3>1
  <2>8. g[w \ {x}] = f[c] + g[v]
    <3>1. c \in w \ {x} /\ (w \ {x}) \ {c} = v
      BY <2>4, <2>6
    <3> QED
      BY <2>5, <3>1
  <2>9. f[x] \in Int /\ f[c] \in Int /\ g[v] \in Int
    BY <1>1, <2>6
  <2> HIDE DEF W
  <2> QED
    BY <2>2, <2>3, <2>7, <2>8, <2>9
<1> QED
  BY <1>1, <1>2

-----------------------------------------------------------------------------
(* The same of Sum *)

LEMMA SumIsSum ==
  ASSUME NEW f, NEW S, IsFiniteSet(S)
  PROVE  \E g : IsSum(g, f, S) /\ Sum(f, S) = g[S]
<1> DEFINE g == CHOOSE g : g = [s \in SUBSET S |-> IF s = {} THEN 0
                          ELSE f[CHOOSE x \in s : TRUE] + g[s \ {CHOOSE x \in s : TRUE}]]
<1>1. Sum(f, S) = g[S]
  BY DEF Sum, MapThenSumSet, MapThenFoldSet
<1>2. IsSum(g, f, S)
  <2>1. PICK h : IsSum(h, f, S)
    BY SumExists
  <2> QED
    BY <2>1 DEF IsSum
<1> QED
  BY <1>1, <1>2

LEMMA SumPart ==
  ASSUME NEW f, NEW S, IsFiniteSet(S), NEW g, IsSum(g, f, S), NEW U, U \subseteq S
  PROVE  g[U] = Sum(f, U)
<1>1. IsFiniteSet(U)
  BY FS_Subset
<1>2. PICK h : IsSum(h, f, U) /\ Sum(f, U) = h[U]
  BY <1>1, SumIsSum
<1>3. g[U] = h[U]
  BY <1>1, <1>2, SumSame
<1> QED
  BY <1>2, <1>3

LEMMA EmptySum ==
  ASSUME NEW f
  PROVE  Sum(f, {}) = 0
<1>1. IsFiniteSet({})
  BY FS_EmptySet
<1>2. PICK g : IsSum(g, f, {}) /\ Sum(f, {}) = g[{}]
  BY <1>1, SumIsSum
<1> QED
  BY <1>2, SumStep

LEMMA SameSum ==
  ASSUME NEW S, IsFiniteSet(S), NEW f, NEW e, \A x \in S : f[x] = e[x]
  PROVE  Sum(f, S) = Sum(e, S)
<1>1. PICK g : IsSum(g, f, S) /\ Sum(f, S) = g[S]
  BY SumIsSum
<1>2. PICK h : IsSum(h, e, S) /\ Sum(e, S) = h[S]
  BY SumIsSum
<1> QED
  BY <1>1, <1>2, SumSame

(* Any element may be taken out of a sum *)
LEMMA TakenSum ==
  ASSUME NEW S, IsFiniteSet(S), NEW f, \A x \in S : f[x] \in Int
  PROVE  /\ Sum(f, S) \in Int
         /\ \A x \in S : Sum(f, S) = f[x] + Sum(f, S \ {x})
<1>1. PICK g : IsSum(g, f, S) /\ Sum(f, S) = g[S]
  BY SumIsSum
<1>2. g[S] \in Int
  BY <1>1, SumTake
<1>3. ASSUME NEW x \in S PROVE g[S] = f[x] + Sum(f, S \ {x})
  <2>1. g[S \ {x}] = Sum(f, S \ {x})
    <3>1. PICK U : U = S \ {x} /\ U \subseteq S
      OBVIOUS
    <3> QED
      BY <1>1, <3>1, SumPart
  <2>2. g[S] = f[x] + g[S \ {x}]
    BY <1>1, SumTake
  <2> QED
    BY <2>1, <2>2
<1> QED
  BY <1>1, <1>2, <1>3

LEMMA AddedSum ==
  ASSUME NEW S, IsFiniteSet(S), NEW f, \A x \in S : f[x] \in Int,
         NEW y, y \notin S, f[y] \in Int
  PROVE  Sum(f, S \cup {y}) = f[y] + Sum(f, S)
<1>1. IsFiniteSet(S \cup {y})
  BY FS_AddElement
<1>2. (S \cup {y}) \ {y} = S
  OBVIOUS
<1>3. \A x \in S \cup {y} : f[x] \in Int
  OBVIOUS
<1> QED
  BY <1>1, <1>2, <1>3, TakenSum

(* One summand changes. *)
LEMMA ChangedSum ==
  ASSUME NEW S, IsFiniteSet(S), NEW f, NEW e, NEW y \in S,
         \A x \in S : f[x] \in Int /\ e[x] \in Int, \A x \in S : x # y => e[x] = f[x]
  PROVE  Sum(e, S) = Sum(f, S) - f[y] + e[y]
<1> DEFINE T == S \ {y}
<1>1. IsFiniteSet(T)
  BY FS_Subset
<1>2. Sum(f, T) = Sum(e, T)
  BY <1>1, SameSum
<1>3. \A x \in S : f[x] \in Int
  OBVIOUS
<1>4. \A x \in S : e[x] \in Int
  OBVIOUS
<1>5. Sum(f, S) = f[y] + Sum(f, T)
  BY <1>3, TakenSum
<1>6. Sum(e, S) = e[y] + Sum(e, T)
  BY <1>4, TakenSum
<1>7. Sum(f, T) \in Int
  BY <1>1, <1>3, TakenSum
<1> QED
  BY <1>2, <1>3, <1>4, <1>5, <1>6, <1>7

(* Sums are ordered as their summands are. *)
LEMMA OrderedSums ==
  ASSUME NEW S, IsFiniteSet(S), NEW f, NEW e, \A x \in S : f[x] \in Int /\ e[x] \in Int /\ f[x] <= e[x]
  PROVE  /\ Sum(f, S) <= Sum(e, S)
         /\ (\E x \in S : f[x] < e[x]) => Sum(f, S) < Sum(e, S)
<1>1. \A T \in SUBSET S : IsFiniteSet(T)
  BY FS_Subset
<1>2. ASSUME NEW T \in SUBSET S
      PROVE  /\ Sum(f, T) \in Int /\ Sum(e, T) \in Int
             /\ \A x \in T : Sum(f, T) = f[x] + Sum(f, T \ {x}) /\ Sum(e, T) = e[x] + Sum(e, T \ {x})
  <2>1. /\ IsFiniteSet(T)
        /\ \A x \in T : f[x] \in Int
        /\ \A x \in T : e[x] \in Int
    BY <1>1
  <2>2. Sum(f, T) \in Int /\ \A x \in T : Sum(f, T) = f[x] + Sum(f, T \ {x})
    BY <2>1, TakenSum
  <2>3. Sum(e, T) \in Int /\ \A x \in T : Sum(e, T) = e[x] + Sum(e, T \ {x})
    BY <2>1, TakenSum
  <2> QED
    BY <2>2, <2>3
<1>3. \A T \in SUBSET S : Sum(f, T) <= Sum(e, T)
  <2> DEFINE W == {T \in SUBSET S : ~(Sum(f, T) <= Sum(e, T))}
  <2> SUFFICES ASSUME W # {} PROVE FALSE
    OBVIOUS
  <2>1. PICK w \in W : \A v \in W : v \subseteq w => v = w
    <3>1. W \subseteq SUBSET S
      OBVIOUS
    <3> HIDE DEF W
    <3> QED
      BY <3>1, SmallestSet
  <2>2. w # {}
    BY EmptySum
  <2>3. PICK x \in w : TRUE
    BY <2>2
  <2>4. PICK v : v = w \ {x} /\ v \in SUBSET S
    OBVIOUS
  <2>5. Sum(f, v) <= Sum(e, v)
    BY <2>1, <2>3, <2>4
  <2>6. Sum(f, w) = f[x] + Sum(f, v) /\ Sum(e, w) = e[x] + Sum(e, v)
    BY <1>2, <2>3, <2>4
  <2>7. Sum(f, v) \in Int /\ Sum(e, v) \in Int /\ ~(Sum(f, w) <= Sum(e, w))
    BY <1>2, <2>4
  <2>8. f[x] \in Int /\ e[x] \in Int /\ f[x] <= e[x]
    BY <2>3
  <2> HIDE DEF W
  <2> QED
    BY <2>5, <2>6, <2>7, <2>8
<1>4. ASSUME NEW x \in S, f[x] < e[x] PROVE Sum(f, S) < Sum(e, S)
  <2>1. PICK T : T = S \ {x} /\ T \in SUBSET S
    OBVIOUS
  <2>2. Sum(f, T) <= Sum(e, T)
    BY <1>3, <2>1
  <2>3. Sum(f, S) = f[x] + Sum(f, T) /\ Sum(e, S) = e[x] + Sum(e, T)
    BY <1>2, <2>1
  <2>4. Sum(f, T) \in Int /\ Sum(e, T) \in Int
    BY <1>2, <2>1
  <2> QED
    BY <1>4, <2>2, <2>3, <2>4
<1> QED
  BY <1>3, <1>4

(* A sum of nothing is nothing, whatever it is a sum over. *)
LEMMA ZeroSum ==
  ASSUME NEW S, IsFiniteSet(S), NEW f, \A x \in S : f[x] = 0
  PROVE  Sum(f, S) = 0
<1> DEFINE W == {T \in SUBSET S : Sum(f, T) # 0}
<1> SUFFICES ASSUME W # {} PROVE FALSE
  OBVIOUS
<1>1. PICK w \in W : \A v \in W : v \subseteq w => v = w
  <2>1. W \subseteq SUBSET S
    OBVIOUS
  <2> HIDE DEF W
  <2> QED
    BY <2>1, SmallestSet
<1>2. PICK x \in w : TRUE
  BY EmptySum
<1>3. Sum(f, w) = f[x] + Sum(f, w \ {x})
  <2>1. IsFiniteSet(w)
    BY FS_Subset
  <2> QED
    BY <2>1, TakenSum
<1>4. Sum(f, w \ {x}) = 0
  BY <1>1
<1> QED
  BY <1>3, <1>4

(* A sum over two sets that have nothing in common *)
LEMMA SplitSum ==
  ASSUME NEW S, IsFiniteSet(S), NEW f, \A x \in S : f[x] \in Int, NEW T, T \subseteq S
  PROVE  Sum(f, S) = Sum(f, T) + Sum(f, S \ T)
<1>0. \A U \in SUBSET S : /\ IsFiniteSet(U) /\ Sum(f, U) \in Int
                        /\ \A x \in U : Sum(f, U) = f[x] + Sum(f, U \ {x})
  BY FS_Subset, TakenSum
<1> DEFINE W == {U \in SUBSET T : Sum(f, (S \ T) \cup U) # Sum(f, U) + Sum(f, S \ T)}
<1> SUFFICES ASSUME W # {} PROVE FALSE
  <2>1. T \notin W
    OBVIOUS
  <2>2. (S \ T) \cup T = S
    OBVIOUS
  <2> QED
    BY <2>1, <2>2
<1>1. PICK w \in W : \A v \in W : v \subseteq w => v = w
  <2>1. W \subseteq SUBSET T /\ IsFiniteSet(T)
    BY <1>0
  <2> HIDE DEF W
  <2> QED
    BY <2>1, SmallestSet
<1>2. w # {}
  <2>1. PICK U : U = S \ T /\ U \cup {} = U /\ Sum(f, U) \in Int
    BY <1>0
  <2>2. Sum(f, U \cup {}) = Sum(f, {}) + Sum(f, U)
    BY <2>1, EmptySum
  <2>3. {} \notin W
    BY <2>1, <2>2
  <2> HIDE DEF W
  <2> QED
    BY <2>3
<1>3. PICK x \in w : TRUE
  BY <1>2
<1>4. PICK v : v = w \ {x} /\ v \in SUBSET T
  OBVIOUS
<1>5. Sum(f, w) = f[x] + Sum(f, v)
  BY <1>0, <1>3, <1>4
<1>6. Sum(f, (S \ T) \cup w) = f[x] + Sum(f, (S \ T) \cup v)
  <2>1. PICK R : R = (S \ T) \cup w
    OBVIOUS
  <2>2. R \in SUBSET S /\ x \in R /\ R \ {x} = (S \ T) \cup v
    BY <1>3, <1>4, <2>1
  <2>3. Sum(f, R) = f[x] + Sum(f, R \ {x})
    BY <1>0, <2>2
  <2> QED
    BY <2>1, <2>2, <2>3
<1>7. Sum(f, (S \ T) \cup v) = Sum(f, v) + Sum(f, S \ T)
  <2>1. v \notin W
    <3> HIDE DEF W
    <3> QED
      BY <1>1, <1>3, <1>4
  <2> QED
    BY <2>1, <1>4
<1>8. f[x] \in Int /\ Sum(f, v) \in Int /\ Sum(f, S \ T) \in Int
  BY <1>0, <1>3, <1>4
<1>9. Sum(f, (S \ T) \cup w) # Sum(f, w) + Sum(f, S \ T)
  OBVIOUS
<1> HIDE DEF W
<1> QED
  BY <1>5, <1>6, <1>7, <1>8, <1>9

(* A sum does not depend on the names of its elements. *)
LEMMA RenamedSum ==
  ASSUME NEW S, IsFiniteSet(S), NEW f, NEW e, NEW b,
         \A x \in S : e[x] \in Int /\ f[b[x]] = e[x], \A x, y \in S : b[x] = b[y] => x = y
  PROVE  Sum(f, {b[x] : x \in S}) = Sum(e, S)
<1> DEFINE Image(T) == {b[x] : x \in T}
           W == {T \in SUBSET S : Sum(f, Image(T)) # Sum(e, T)}
<1> SUFFICES ASSUME W # {} PROVE FALSE
  OBVIOUS
<1>1. PICK w \in W : \A v \in W : v \subseteq w => v = w
  <2>1. W \subseteq SUBSET S
    OBVIOUS
  <2> HIDE DEF W
  <2> QED
    BY <2>1, SmallestSet
<1>2. w # {}
  <2>1. Image({}) = {}
    OBVIOUS
  <2> HIDE DEF Image
  <2> QED
    BY <2>1, EmptySum
<1>3. PICK x \in w : TRUE
  BY <1>2
<1>4. PICK v : v = w \ {x} /\ v \in SUBSET S
  OBVIOUS
<1>5. Sum(e, w) = e[x] + Sum(e, v)
  <2>1. IsFiniteSet(w)
    BY FS_Subset
  <2> QED
    BY <1>3, <1>4, <2>1, TakenSum
<1>6. Sum(f, Image(w)) = e[x] + Sum(f, Image(v))
  <2>1. IsFiniteSet(v)
    BY <1>4, FS_Subset
  <2>2. IsFiniteSet(Image(v))
    <3> DEFINE h == [y \in v |-> b[y]]
    <3>1. h \in Surjection(v, Image(v))
      BY DEF Surjection
    <3> HIDE DEF h, Image
    <3> QED
      BY <2>1, <3>1, FS_Surjection
  <2>3. b[x] \notin Image(v) /\ Image(w) = Image(v) \cup {b[x]}
    BY <1>3, <1>4
  <2>4. f[b[x]] = e[x] /\ e[x] \in Int /\ \A y \in Image(v) : f[y] \in Int
    BY <1>3, <1>4
  <2> HIDE DEF Image
  <2> QED
    BY <2>2, <2>3, <2>4, AddedSum
<1>7. Sum(f, Image(v)) = Sum(e, v)
  BY <1>1, <1>3, <1>4
<1> QED
  BY <1>5, <1>6, <1>7

(* Sums are added summand by summand. *)
LEMMA PairedSums ==
  ASSUME NEW S, IsFiniteSet(S), NEW f, NEW g, NEW h,
         \A x \in S : f[x] \in Int /\ g[x] \in Int /\ h[x] \in Int /\ f[x] = g[x] + h[x]
  PROVE  /\ Sum(f, S) = Sum(g, S) + Sum(h, S)
         /\ Sum(f, S) \in Int /\ Sum(g, S) \in Int /\ Sum(h, S) \in Int
<1>1. ASSUME NEW T \in SUBSET S
      PROVE  /\ Sum(f, T) \in Int /\ \A x \in T : Sum(f, T) = f[x] + Sum(f, T \ {x})
             /\ Sum(g, T) \in Int /\ \A x \in T : Sum(g, T) = g[x] + Sum(g, T \ {x})
             /\ Sum(h, T) \in Int /\ \A x \in T : Sum(h, T) = h[x] + Sum(h, T \ {x})
  <2>1. /\ IsFiniteSet(T)
        /\ \A x \in T : f[x] \in Int
        /\ \A x \in T : g[x] \in Int
        /\ \A x \in T : h[x] \in Int
    BY FS_Subset
  <2>2. Sum(f, T) \in Int /\ \A x \in T : Sum(f, T) = f[x] + Sum(f, T \ {x})
    BY <2>1, TakenSum
  <2>3. Sum(g, T) \in Int /\ \A x \in T : Sum(g, T) = g[x] + Sum(g, T \ {x})
    BY <2>1, TakenSum
  <2>4. Sum(h, T) \in Int /\ \A x \in T : Sum(h, T) = h[x] + Sum(h, T \ {x})
    BY <2>1, TakenSum
  <2> QED
    BY <2>2, <2>3, <2>4
<1>2. Sum(f, S) = Sum(g, S) + Sum(h, S)
  <2> DEFINE W == {T \in SUBSET S : Sum(f, T) # Sum(g, T) + Sum(h, T)}
  <2> SUFFICES ASSUME W # {} PROVE FALSE
    OBVIOUS
  <2>1. PICK w \in W : \A v \in W : v \subseteq w => v = w
    <3>1. W \subseteq SUBSET S
      OBVIOUS
    <3> HIDE DEF W
    <3> QED
      BY <3>1, SmallestSet
  <2>2. w # {}
    <3>1. Sum(f, {}) = 0 /\ Sum(g, {}) = 0 /\ Sum(h, {}) = 0
      BY EmptySum
    <3>2. Sum(f, w) # Sum(g, w) + Sum(h, w)
      OBVIOUS
    <3> HIDE DEF W
    <3> QED
      BY <3>1, <3>2
  <2>3. PICK x \in w : TRUE
    BY <2>2
  <2>4. PICK v : v = w \ {x} /\ v \in SUBSET S
    OBVIOUS
  <2>5. Sum(f, v) = Sum(g, v) + Sum(h, v)
    BY <2>1, <2>3, <2>4
  <2>6. Sum(f, w) = f[x] + Sum(f, v) /\ Sum(g, w) = g[x] + Sum(g, v) /\ Sum(h, w) = h[x] + Sum(h, v)
    BY <1>1, <2>3, <2>4
  <2>7. Sum(f, v) \in Int /\ Sum(g, v) \in Int /\ Sum(h, v) \in Int /\ Sum(f, w) # Sum(g, w) + Sum(h, w)
    BY <1>1, <2>4
  <2>8. f[x] \in Int /\ g[x] \in Int /\ h[x] \in Int /\ f[x] = g[x] + h[x]
    BY <2>3
  <2> HIDE DEF W
  <2> QED
    BY <2>5, <2>6, <2>7, <2>8
<1> QED
  BY <1>1, <1>2

(* A sum of which one summand changes and the others do not fall *)
LEMMA GrownSum ==
  ASSUME NEW S, IsFiniteSet(S), NEW f, NEW e, NEW y \in S,
         \A x \in S : f[x] \in Int /\ e[x] \in Int, \A x \in S : x # y => f[x] <= e[x]
  PROVE  Sum(f, S) - f[y] + e[y] <= Sum(e, S) /\ Sum(f, S) \in Int /\ Sum(e, S) \in Int
<1> DEFINE T == S \ {y}
<1>1. IsFiniteSet(T)
  BY FS_Subset
<1>2. (\A x \in S : f[x] \in Int) /\ (\A x \in S : e[x] \in Int)
  OBVIOUS
<1>3. Sum(f, S) \in Int /\ Sum(f, S) = f[y] + Sum(f, T)
  BY <1>2, TakenSum
<1>4. Sum(e, S) \in Int /\ Sum(e, S) = e[y] + Sum(e, T)
  BY <1>2, TakenSum
<1>5. \A x \in T : f[x] \in Int /\ e[x] \in Int /\ f[x] <= e[x]
  OBVIOUS
<1> HIDE DEF T
<1>6. Sum(f, T) <= Sum(e, T)
  BY <1>1, <1>5, OrderedSums
<1>7. Sum(f, T) \in Int /\ Sum(e, T) \in Int
  <2>1. (\A x \in T : f[x] \in Int) /\ (\A x \in T : e[x] \in Int)
    BY <1>5
  <2>2. Sum(f, T) \in Int
    BY <1>1, <2>1, TakenSum
  <2>3. Sum(e, T) \in Int
    BY <1>1, <2>1, TakenSum
  <2> QED
    BY <2>2, <2>3
<1>8. f[y] \in Int /\ e[y] \in Int
  OBVIOUS
<1> QED
  BY <1>3, <1>4, <1>6, <1>7, <1>8
=============================================================================
