-------------------------- MODULE CarcassonneProofs --------------------------
(***************************************************************************)
(* For every catalogue, every number of players and every match: no meeple *)
(* and no tile is lost, the borders of the tiles continue each other, each *)
(* turn can be ended, a player is offered what is accepted, a meeple goes  *)
(* on a free region, and the engine takes turns as the turn automaton      *)
(* says.                                                                   *)
(*                                                                         *)
(* The engine searches, folds and sums.  The first sections prove that the *)
(* functions that stand for it exist and stay on the board; the later ones *)
(* follow a state through a turn.                                          *)
(***************************************************************************)
EXTENDS Carcassonne, FiniteSetTheorems, SequenceTheorems, WellFoundedInduction, TLAPS

(* Induction and recursion *)

\* Sets of numbers: the prover has no schema for properties.
LEMMA LeastNumber ==
  ASSUME NEW T, T \subseteq Nat, T # {}
  PROVE  \E n \in T : \A m \in T : n <= m
  <1> DEFINE R == OpToRel(<, Nat)
  <1>1. IsWellFoundedOn(R, Nat)
    BY NatLessThanWellFounded
  <1>2. \A m, n \in Nat : m < n => <<m, n>> \in R
    BY DEF OpToRel
  <1> HIDE DEF R
  <1>3. PICK n \in T : \A m \in T : <<m, n>> \notin R
    BY <1>1, WFMin
  <1>4. ASSUME NEW m \in T PROVE n <= m
    <2>1. m \in Nat /\ n \in Nat /\ <<m, n>> \notin R
      BY <1>3
    <2>2. ~(m < n)
      BY <1>2, <2>1
    <2> QED BY <2>1, <2>2
  <1> QED BY <1>4

LEMMA SetInduction ==
  ASSUME NEW S, 0 \in S, \A n \in Nat : n \in S => n + 1 \in S
  PROVE  Nat \subseteq S
  <1> DEFINE T == Nat \ S
  <1> SUFFICES ASSUME T # {} PROVE FALSE
    OBVIOUS
  <1>1. PICK n \in T : \A m \in T : n <= m
    <2>1. T \subseteq Nat
      OBVIOUS
    <2> HIDE DEF T
    <2> QED BY <2>1, LeastNumber
  <1>2. n \in Nat /\ n \notin S /\ n # 0
    OBVIOUS
  <1>3. n - 1 \in Nat /\ n - 1 \notin T
    <2>1. n - 1 \in Nat /\ ~(n <= n - 1)
      BY <1>2
    <2> QED BY <1>1, <2>1
  <1>4. n - 1 \in S
    BY <1>3
  <1>5. (n - 1) + 1 \in S
    BY <1>3, <1>4
  <1>6. (n - 1) + 1 = n
    BY <1>2
  <1> QED BY <1>2, <1>5, <1>6

\* Induction over the subsets of a finite set, for sets of subsets.
LEMMA FiniteInduction ==
  ASSUME NEW S, IsFiniteSet(S), NEW A, {} \in A,
         \A T \in SUBSET S : T # {} /\ (\A x \in T : T \ {x} \in A) => T \in A
  PROVE  \A T \in SUBSET S : T \in A
  <1> DEFINE C == {n \in Nat : \A T \in SUBSET S : Cardinality(T) = n => T \in A}
  <1>1. \A T \in SUBSET S : IsFiniteSet(T) /\ Cardinality(T) \in Nat
    BY FS_Subset, FS_CardinalityType
  <1>2. 0 \in C
    BY <1>1, FS_EmptySet
  <1>3. ASSUME NEW n \in Nat, n \in C PROVE n + 1 \in C
    <2> SUFFICES ASSUME NEW T \in SUBSET S, Cardinality(T) = n + 1 PROVE T \in A
      OBVIOUS
    <2>1. T # {}
      <3>1. Cardinality({}) = 0 /\ n + 1 # 0
        BY FS_EmptySet
      <3> QED BY <3>1
    <2>2. ASSUME NEW x \in T PROVE T \ {x} \in A
      <3>1. Cardinality(T \ {x}) = Cardinality(T) - 1
        BY <1>1, FS_RemoveElement
      <3>2. Cardinality(T \ {x}) = n
        BY <3>1
      <3> QED BY <1>3, <3>2
    <2> QED BY <2>1, <2>2
  <1> HIDE DEF C
  <1>4. Nat \subseteq C
    BY <1>2, <1>3, SetInduction
  <1> QED BY <1>1, <1>4 DEF C

\* A function may be defined by recursion along a bounded rank.
Ranked(D, V, H, rank, N) ==
  /\ V # {}
  /\ rank \in [D -> Nat] /\ N \in Nat /\ \A x \in D : rank[x] <= N
  /\ H \in [D \X [D -> V] -> V]
  /\ \A x \in D : \A f, g \in [D -> V] :
       (\A y \in D : rank[y] < rank[x] => f[y] = g[y]) => H[<<x, f>>] = H[<<x, g>>]

\* There is such a function: it is built up rank by rank.
LEMMA Recursion ==
  ASSUME NEW D, NEW V, NEW H, NEW rank, NEW N, Ranked(D, V, H, rank, N)
  PROVE  \E f \in [D -> V] : \A x \in D : f[x] = H[<<x, f>>]
  <1>1. /\ rank \in [D -> Nat] /\ N \in Nat /\ \A x \in D : rank[x] <= N
        /\ H \in [D \X [D -> V] -> V]
    BY DEF Ranked
  <1>2. PICK v : v \in V
    BY DEF Ranked
  <1>3. \A x \in D : \A f, g \in [D -> V] :
          (\A y \in D : rank[y] < rank[x] => f[y] = g[y]) => H[<<x, f>>] = H[<<x, g>>]
    BY DEF Ranked
  <1> DEFINE C == {n \in Nat : \E f \in [D -> V] :
                                 \A x \in D : rank[x] < n => f[x] = H[<<x, f>>]}
  <1>4. 0 \in C
    <2>1. [x \in D |-> v] \in [D -> V] /\ \A x \in D : ~(rank[x] < 0)
      BY <1>1, <1>2
    <2> QED BY <2>1
  <1>5. ASSUME NEW n \in Nat, n \in C PROVE n + 1 \in C
    <2>1. PICK f \in [D -> V] : \A x \in D : rank[x] < n => f[x] = H[<<x, f>>]
      BY <1>5
    <2>2. PICK g : g = [x \in D |-> H[<<x, f>>]]
      OBVIOUS
    <2>3. g \in [D -> V] /\ \A x \in D : g[x] = H[<<x, f>>]
      BY <1>1, <2>2
    <2>4. ASSUME NEW x \in D, rank[x] < n + 1 PROVE g[x] = H[<<x, g>>]
      <3>1. ASSUME NEW y \in D, rank[y] < rank[x] PROVE f[y] = g[y]
        <4>1. rank[y] \in Nat /\ rank[x] \in Nat
          BY <1>1
        <4>2. rank[y] < n
          BY <2>4, <3>1, <4>1
        <4> QED BY <2>1, <2>3, <4>2
      <3>2. H[<<x, f>>] = H[<<x, g>>]
        BY <1>3, <2>3, <3>1
      <3> QED BY <2>3, <3>2
    <2> QED BY <2>3, <2>4
  <1> HIDE DEF C
  <1>6. N + 1 \in C
    BY <1>1, <1>4, <1>5, SetInduction
  <1>7. PICK f \in [D -> V] : \A x \in D : rank[x] < N + 1 => f[x] = H[<<x, f>>]
    BY <1>6 DEF C
  <1>8. \A x \in D : rank[x] < N + 1
    <2> TAKE x \in D
    <2>1. rank[x] \in Nat /\ rank[x] <= N
      BY <1>1
    <2> QED BY <1>1, <2>1
  <1> QED BY <1>7, <1>8

-----------------------------------------------------------------------------
(* Folds and sums *)

\* The recursion of FoldSet.
IsFold(g, S, base, Op) ==
  g = [s \in SUBSET S |-> IF s = {} THEN base
         ELSE Op[<<CHOOSE x \in s : TRUE, g[s \ {CHOOSE x \in s : TRUE}]>>]]

\* A fold is defined, so that CHOOSE in FoldSet finds it.
LEMMA FoldsExist ==
  ASSUME NEW S, IsFiniteSet(S), NEW V, NEW base \in V, NEW Op \in [S \X V -> V]
  PROVE  \E g \in [SUBSET S -> V] : IsFold(g, S, base, Op)
  <1>1. PICK D, N : D = SUBSET S /\ N = Cardinality(S)
    OBVIOUS
  <1>2. PICK some : some = [s \in D |-> CHOOSE x \in s : TRUE]
    OBVIOUS
  <1>3. PICK rank : rank = [s \in D |-> Cardinality(s)]
    OBVIOUS
  <1>4. PICK H : H = [q \in D \X [D -> V] |-> IF q[1] = {} THEN base
                        ELSE Op[<<some[q[1]], q[2][q[1] \ {some[q[1]]}]>>]]
    OBVIOUS
  <1>5. \A s \in D : IsFiniteSet(s) /\ Cardinality(s) \in Nat /\ Cardinality(s) <= N
    BY <1>1, FS_Subset, FS_CardinalityType
  <1>6. N \in Nat /\ rank \in [D -> Nat] /\ \A s \in D : rank[s] <= N
    BY <1>1, <1>3, <1>5
  <1>7. \A s \in D : s # {} => some[s] \in s
    BY <1>2
  <1>8. \A s \in D : \A f \in [D -> V] :
          H[<<s, f>>] = IF s = {} THEN base ELSE Op[<<some[s], f[s \ {some[s]}]>>]
    BY <1>4
  <1>9. ASSUME NEW s \in D, s # {}
        PROVE  s \ {some[s]} \in D /\ rank[s \ {some[s]}] < rank[s] /\ some[s] \in S
    <2>1. s \ {some[s]} \in D /\ some[s] \in s /\ some[s] \in S
      BY <1>1, <1>7, <1>9
    <2>2. Cardinality(s \ {some[s]}) = Cardinality(s) - 1
      BY <1>5, <2>1, FS_RemoveElement
    <2> QED BY <1>3, <1>5, <2>1, <2>2
  <1>10. H \in [D \X [D -> V] -> V]
    <2> SUFFICES ASSUME NEW s \in D, NEW f \in [D -> V] PROVE H[<<s, f>>] \in V
      BY <1>4
    <2>1. CASE s = {}
      BY <1>8, <2>1
    <2>2. CASE s # {}
      <3>1. some[s] \in S /\ f[s \ {some[s]}] \in V
        BY <1>9, <2>2
      <3>2. H[<<s, f>>] = Op[<<some[s], f[s \ {some[s]}]>>]
        BY <1>8, <2>2
      <3> QED BY <3>1, <3>2
    <2> QED BY <2>1, <2>2
  <1>11. \A s \in D : \A f, g \in [D -> V] :
           (\A y \in D : rank[y] < rank[s] => f[y] = g[y]) => H[<<s, f>>] = H[<<s, g>>]
    <2> SUFFICES ASSUME NEW s \in D, NEW f \in [D -> V], NEW g \in [D -> V],
                        \A y \in D : rank[y] < rank[s] => f[y] = g[y]
                 PROVE  H[<<s, f>>] = H[<<s, g>>]
      OBVIOUS
    <2>1. CASE s = {}
      BY <1>8, <2>1
    <2>2. CASE s # {}
      <3>1. f[s \ {some[s]}] = g[s \ {some[s]}]
        BY <1>9, <2>2
      <3>2. /\ H[<<s, f>>] = Op[<<some[s], f[s \ {some[s]}]>>]
            /\ H[<<s, g>>] = Op[<<some[s], g[s \ {some[s]}]>>]
        BY <1>8, <2>2
      <3> QED BY <3>1, <3>2, Zenon
    <2> QED BY <2>1, <2>2
  <1>12. Ranked(D, V, H, rank, N)
    BY <1>6, <1>10, <1>11 DEF Ranked
  <1>13. PICK g \in [D -> V] : \A s \in D : g[s] = H[<<s, g>>]
    BY <1>12, Recursion
  <1>14. g = [s \in D |-> IF s = {} THEN base ELSE Op[<<some[s], g[s \ {some[s]}]>>]]
    <2>1. \A s \in D : g[s] = IF s = {} THEN base ELSE Op[<<some[s], g[s \ {some[s]}]>>]
      BY <1>8, <1>13
    <2>2. g = [s \in D |-> g[s]]
      OBVIOUS
    <2> QED BY <2>1, <2>2
  <1>15. \A s \in D : some[s] = CHOOSE x \in s : TRUE
    BY <1>2
  <1>16. g = [s \in SUBSET S |-> IF s = {} THEN base
                ELSE Op[<<CHOOSE x \in s : TRUE, g[s \ {CHOOSE x \in s : TRUE}]>>]]
    BY <1>1, <1>14, <1>15
  <1>17. IsFold(g, S, base, Op) /\ g \in [SUBSET S -> V]
    BY <1>1, <1>16 DEF IsFold
  <1> QED BY <1>17

\* The recursion of MapThenSumSet.
IsSum(g, S, F) ==
  g = [s \in SUBSET S |-> IF s = {} THEN 0
                          ELSE F[CHOOSE x \in s : TRUE] + g[s \ {CHOOSE x \in s : TRUE}]]

LEMMA SumsExist ==
  ASSUME NEW S, IsFiniteSet(S), NEW F \in [S -> Nat]
  PROVE  \E g : IsSum(g, S, F)
  <1>1. PICK V : V = Nat
    OBVIOUS
  <1>2. PICK Op : Op = [q \in S \X V |-> F[q[1]] + q[2]]
    OBVIOUS
  <1>3. Op \in [S \X V -> V] /\ 0 \in V
    BY <1>1, <1>2
  <1>4. PICK g \in [SUBSET S -> V] : IsFold(g, S, 0, Op)
    BY <1>3, FoldsExist
  <1>5. \A x \in S : \A n \in V : Op[<<x, n>>] = F[x] + n
    BY <1>2
  <1>6. ASSUME NEW s \in SUBSET S, s # {}
        PROVE  Op[<<CHOOSE x \in s : TRUE, g[s \ {CHOOSE x \in s : TRUE}]>>]
                 = F[CHOOSE x \in s : TRUE] + g[s \ {CHOOSE x \in s : TRUE}]
    <2>1. PICK x : x = CHOOSE y \in s : TRUE
      OBVIOUS
    <2>2. x \in S /\ s \ {x} \in SUBSET S
      BY <1>6, <2>1
    <2>3. Op[<<x, g[s \ {x}]>>] = F[x] + g[s \ {x}]
      BY <1>5, <2>2
    <2> QED BY <2>1, <2>3
  <1>7. [s \in SUBSET S |-> IF s = {} THEN 0
           ELSE Op[<<CHOOSE x \in s : TRUE, g[s \ {CHOOSE x \in s : TRUE}]>>]]
        = [s \in SUBSET S |-> IF s = {} THEN 0
           ELSE F[CHOOSE x \in s : TRUE] + g[s \ {CHOOSE x \in s : TRUE}]]
    BY <1>6
  <1>8. IsSum(g, S, F)
    BY <1>4, <1>7, Zenon DEF IsFold, IsSum
  <1> QED BY <1>8

\* One member of the set at a time.
LEMMA SumStep ==
  ASSUME NEW S, NEW F, NEW g, IsSum(g, S, F)
  PROVE  /\ g[{}] = 0
         /\ \A T \in SUBSET S : T # {} => \E x \in T : g[T] = F[x] + g[T \ {x}]
  <1>1. \A T \in SUBSET S : g[T] = IF T = {} THEN 0
          ELSE F[CHOOSE x \in T : TRUE] + g[T \ {CHOOSE x \in T : TRUE}]
    BY Zenon DEF IsSum
  <1>2. g[{}] = 0
    BY <1>1
  <1>3. ASSUME NEW T \in SUBSET S, T # {} PROVE \E x \in T : g[T] = F[x] + g[T \ {x}]
    <2>1. PICK x : x = CHOOSE y \in T : TRUE
      OBVIOUS
    <2>2. x \in T /\ g[T] = F[x] + g[T \ {x}]
      BY <1>1, <1>3, <2>1
    <2> QED BY <2>2
  <1> QED BY <1>2, <1>3

LEMMA SumsCount ==
  ASSUME NEW S, IsFiniteSet(S), NEW F \in [S -> Nat], NEW g, IsSum(g, S, F)
  PROVE  g[S] \in Nat
  <1> DEFINE A == {T \in SUBSET S : g[T] \in Nat}
  <1>1. {} \in A
    BY SumStep
  <1>2. ASSUME NEW T \in SUBSET S, T # {}, \A x \in T : T \ {x} \in A PROVE T \in A
    <2>1. PICK x \in T : g[T] = F[x] + g[T \ {x}]
      BY <1>2, SumStep
    <2>2. g[T \ {x}] \in Nat /\ F[x] \in Nat
      BY <1>2
    <2>3. g[T] \in Nat
      BY <2>1, <2>2
    <2> QED BY <2>3
  <1> HIDE DEF A
  <1>3. S \in A
    BY <1>1, <1>2, FiniteInduction
  <1> QED BY <1>3 DEF A

\* A sum of points is a number.
LEMMA PointsAddUp ==
  ASSUME NEW S, IsFiniteSet(S), \A f \in S : f.points \in Nat
  PROVE  MapThenSumSet(LAMBDA f : f.points, S) \in Nat
  <1> DEFINE F == [f \in S |-> f.points]
             g == CHOOSE h : h = [s \in SUBSET S |-> IF s = {} THEN 0
                    ELSE LET x == CHOOSE x \in s : TRUE IN x.points + h[s \ {x}]]
  <1>1. F \in [S -> Nat]
    OBVIOUS
  <1>2. \A s \in SUBSET S : s # {} => F[CHOOSE x \in s : TRUE] = (CHOOSE x \in s : TRUE).points
    <2> TAKE s \in SUBSET S
    <2> SUFFICES ASSUME s # {} PROVE F[CHOOSE x \in s : TRUE] = (CHOOSE x \in s : TRUE).points
      OBVIOUS
    <2>1. PICK x : x = CHOOSE y \in s : TRUE
      OBVIOUS
    <2>2. x \in S
      BY <2>1
    <2>3. F[x] = x.points
      BY <2>2
    <2> QED BY <2>1, <2>3
  <1> HIDE DEF F
  <1>3. \A h : IsSum(h, S, F) <=> h = [s \in SUBSET S |-> IF s = {} THEN 0
                    ELSE (CHOOSE x \in s : TRUE).points + h[s \ {CHOOSE x \in s : TRUE}]]
    <2> TAKE h
    <2>1. [s \in SUBSET S |-> IF s = {} THEN 0
             ELSE F[CHOOSE x \in s : TRUE] + h[s \ {CHOOSE x \in s : TRUE}]]
          = [s \in SUBSET S |-> IF s = {} THEN 0
             ELSE (CHOOSE x \in s : TRUE).points + h[s \ {CHOOSE x \in s : TRUE}]]
      BY <1>2
    <2> QED BY <2>1, Zenon DEF IsSum
  <1>4. PICK h : IsSum(h, S, F)
    BY <1>1, SumsExist
  <1>5. h = [s \in SUBSET S |-> IF s = {} THEN 0
               ELSE (CHOOSE x \in s : TRUE).points + h[s \ {CHOOSE x \in s : TRUE}]]
    BY <1>3, <1>4, Zenon
  <1>6. g = [s \in SUBSET S |-> IF s = {} THEN 0
               ELSE (CHOOSE x \in s : TRUE).points + g[s \ {CHOOSE x \in s : TRUE}]]
    BY <1>5, Zenon
  <1>7. MapThenSumSet(LAMBDA f : f.points, S) = g[S]
    BY Zenon DEF MapThenSumSet, MapThenFoldSet
  <1> HIDE DEF g
  <1>8. IsSum(g, S, F)
    BY <1>3, <1>6, Zenon
  <1> QED BY <1>1, <1>7, <1>8, SumsCount

Total(F, S) == MapThenSumSet(LAMBDA c : F[c], S)

\* What the tiles of a feature contribute, with the marks on them.
LEMMA TotalOfContributions ==
  ASSUME NEW S, IsFiniteSet(S), NEW M, IsFiniteSet(M), NEW p \in Nat, NEW F,
         F = [c \in S |-> p * (1 + Cardinality({m \in M : m[1] = c}))],
         \A m \in M : m[1] \in S
  PROVE  Total(F, S) = p * (Cardinality(S) + Cardinality(M))
  <1> DEFINE on(T) == {m \in M : m[1] \in T}
             at(c) == {m \in M : m[1] = c}
             g == CHOOSE h : h = [s \in SUBSET S |-> IF s = {} THEN 0
                    ELSE LET x == CHOOSE x \in s : TRUE IN F[x] + h[s \ {x}]]
             A == {T \in SUBSET S : g[T] = p * (Cardinality(T) + Cardinality(on(T)))}
  <1>1. /\ \A T : IsFiniteSet(on(T)) /\ Cardinality(on(T)) \in Nat
        /\ \A c : IsFiniteSet(at(c)) /\ Cardinality(at(c)) \in Nat
        /\ \A T \in SUBSET S : IsFiniteSet(T) /\ Cardinality(T) \in Nat
    BY FS_Subset, FS_CardinalityType
  <1>2. F \in [S -> Nat] /\ \A c \in S : F[c] = p * (1 + Cardinality(at(c)))
    <2>1. \A c \in S : p * (1 + Cardinality(at(c))) \in Nat
      <3> TAKE c \in S
      <3>1. PICK n \in Nat : n = Cardinality(at(c))
        BY <1>1
      <3>2. p * (1 + n) \in Nat
        OBVIOUS
      <3> QED BY <3>1, <3>2
    <2> QED BY <2>1
  <1>3. PICK h : IsSum(h, S, F)
    BY <1>2, SumsExist
  <1>4. IsSum(g, S, F)
    BY <1>3, Zenon DEF IsSum
  <1>5. Total(F, S) = g[S]
    BY Zenon DEF Total, MapThenSumSet, MapThenFoldSet
  <1> HIDE DEF g
  <1>6. \A T \in SUBSET S : T # {} => \E x \in T : g[T] = F[x] + g[T \ {x}]
    BY <1>4, SumStep
  <1>7. {} \in A
    <2>1. on({}) = {} /\ Cardinality({}) = 0 /\ g[{}] = 0
      BY <1>4, FS_EmptySet, SumStep
    <2>2. g[{}] = p * (Cardinality({}) + Cardinality(on({})))
      <3>1. Cardinality(on({})) = 0
        BY <2>1
      <3>2. p * (0 + 0) = 0
        OBVIOUS
      <3> QED BY <2>1, <3>1, <3>2, Zenon
    <2> QED BY <2>2
  <1>8. ASSUME NEW T \in SUBSET S, T # {}, \A x \in T : T \ {x} \in A PROVE T \in A
    <2>1. PICK x \in T : g[T] = F[x] + g[T \ {x}]
      BY <1>8, <1>6, Zenon
    <2>2. PICK a, b, c, d : /\ a = Cardinality(T) /\ b = Cardinality(on(T))
                            /\ c = Cardinality(at(x)) /\ d = Cardinality(on(T \ {x}))
      OBVIOUS
    <2>3. a \in Nat /\ b \in Nat /\ c \in Nat /\ d \in Nat
      BY <1>1, <2>2
    <2>4. Cardinality(T \ {x}) = a - 1
      BY <1>1, <2>2, FS_RemoveElement
    <2>5. b = c + d
      <3>1. on(T) = at(x) \cup on(T \ {x}) /\ at(x) \cap on(T \ {x}) = {}
        OBVIOUS
      <3>2. Cardinality(at(x) \cap on(T \ {x})) = 0
        BY <3>1, FS_EmptySet
      <3> HIDE DEF on, at
      <3>3. Cardinality(at(x) \cup on(T \ {x})) = c + d - 0
        BY <1>1, <2>2, <3>2, FS_Union
      <3> QED BY <2>2, <2>3, <3>1, <3>3
    <2>6. g[T \ {x}] = p * ((a - 1) + d) /\ F[x] = p * (1 + c)
      BY <1>2, <1>8, <2>2, <2>4
    <2>7. p * (1 + c) + p * ((a - 1) + d) = p * (a + b)
      <3>1. \A i, j \in Int : p * i + p * j = p * (i + j)
        OBVIOUS
      <3>2. (1 + c) + ((a - 1) + d) = a + b /\ 1 + c \in Int /\ (a - 1) + d \in Int
        BY <2>3, <2>5
      <3> QED BY <3>1, <3>2
    <2>8. g[T] = p * (Cardinality(T) + Cardinality(on(T)))
      <3> HIDE DEF on, at
      <3> QED BY <2>1, <2>2, <2>6, <2>7
    <2> QED BY <2>8
  <1> HIDE DEF A
  <1>9. S \in A
    BY <1>7, <1>8, FiniteInduction
  <1>10. g[S] = p * (Cardinality(S) + Cardinality(on(S)))
    BY <1>9 DEF A
  <1>11. on(S) = M
    OBVIOUS
  <1> HIDE DEF on
  <1> QED BY <1>5, <1>10, <1>11

-----------------------------------------------------------------------------
(* The search for features *)

\* Finite sets.
LEMMA ImageFinite ==
  ASSUME NEW S, IsFiniteSet(S), NEW f
  PROVE  IsFiniteSet({f[x] : x \in S})
  <1> DEFINE T == {f[x] : x \in S}
             g == [x \in S |-> f[x]]
  <1>1. g \in Surjection(S, T)
    BY DEF Surjection
  <1> QED BY <1>1, FS_Surjection

LEMMA SegmentsFinite == IsFiniteSet(Segments)
  <1>1. 0 \in Int /\ 12 \in Int
    OBVIOUS
  <1> QED BY <1>1, FS_Interval DEF Segments

\* The zones of a tile do not overlap: there are no more than segments.
LEMMA ZonesFinite ==
  ASSUME NEW t \in DOMAIN Catalog PROVE IsFiniteSet(DOMAIN Catalog[t].zones)
  <1> DEFINE Z == DOMAIN Catalog[t].zones
             seg(z) == Catalog[t].zones[z].segments
  <1>1. \A z \in Z : seg(z) # {} /\ \A y \in Z \ {z} : seg(z) \cap seg(y) = {}
    BY CatalogAssumption DEF validDefinition
  <1>2. \A z \in Z : seg(z) \subseteq Segments
    BY CatalogAssumption DEF Zone
  <1> HIDE DEF Z, seg
  <1> DEFINE f == [z \in Z |-> CHOOSE g \in seg(z) : TRUE]
  <1>3. \A z \in Z : f[z] \in seg(z)
    BY <1>1
  <1> HIDE DEF f
  <1>4. f \in [Z -> Segments]
    BY <1>2, <1>3 DEF f
  <1>5. \A y, z \in Z : f[y] = f[z] => y = z
    BY <1>1, <1>3
  <1>6. f \in Injection(Z, Segments)
    BY <1>4, <1>5 DEF Injection, IsInjective
  <1> QED BY <1>6, SegmentsFinite, FS_Injection DEF Z

\* What is on the table: tiles of the catalogue.
BoardSound(b) ==
  /\ IsFiniteSet(DOMAIN b) /\ <<0, 0>> \in DOMAIN b /\ DOMAIN b \subseteq Int \X Int
  /\ \A c \in DOMAIN b : b[c].tile \in DOMAIN Catalog /\ b[c].rotation \in Rotations

\* The zones on the table are finitely many, which ends every search.
LEMMA PlacedZonesFinite ==
  ASSUME NEW b, BoardSound(b)
  PROVE  /\ IsFiniteSet(placedZones(b))
         /\ \A c \in DOMAIN b : IsFiniteSet({c} \X DOMAIN zonesAt(b, c))
  <1>1. ASSUME NEW c \in DOMAIN b PROVE IsFiniteSet({c} \X DOMAIN zonesAt(b, c))
    <2>1. IsFiniteSet(DOMAIN zonesAt(b, c)) /\ IsFiniteSet({c})
      BY ZonesFinite, FS_Singleton DEF BoardSound, zonesAt
    <2> QED BY <2>1, FS_Product
  <1> DEFINE f == [c \in DOMAIN b |-> {c} \X DOMAIN zonesAt(b, c)]
  <1>2. \A c \in DOMAIN b : f[c] = {c} \X DOMAIN zonesAt(b, c)
    OBVIOUS
  <1> HIDE DEF f
  <1>3. IsFiniteSet({f[c] : c \in DOMAIN b})
    BY ImageFinite DEF BoardSound
  <1>4. \A T \in {f[c] : c \in DOMAIN b} : IsFiniteSet(T)
    BY <1>1, <1>2
  <1>5. IsFiniteSet(UNION {f[c] : c \in DOMAIN b})
    BY <1>3, <1>4, FS_UNION
  <1>6. UNION {f[c] : c \in DOMAIN b} = placedZones(b)
    BY <1>2 DEF placedZones
  <1> QED BY <1>1, <1>5, <1>6

LEMMA PlacedZone ==
  ASSUME NEW b, NEW ref
  PROVE  ref \in placedZones(b)
           <=> /\ ref = <<ref[1], ref[2]>> /\ ref[1] \in DOMAIN b
               /\ ref[2] \in DOMAIN zonesAt(b, ref[1])
  BY DEF placedZones

LEMMA NeighborsPlaced ==
  ASSUME NEW b, NEW ref PROVE neighbors(b, ref) \subseteq placedZones(b)
  <1>1. \A cell, type, g : findNeighborZoneBySegment(b, cell, type, g) \subseteq placedZones(b)
    BY DEF findNeighborZoneBySegment, placedZones
  <1> QED BY <1>1 DEF neighbors

\* What a zone's neighbour is.
LEMMA NeighborAcross ==
  ASSUME NEW b, NEW x, NEW y \in neighbors(b, x)
  PROVE  /\ y \in placedZones(b) /\ typeOf(b, y) = typeOf(b, x)
         /\ \E g \in segmentsOf(b, x) \ {Center} :
              /\ y[1] = borderNeighborCell(x[1], sideOf(g))
              /\ borderNeighborSegment(g) \in segmentsOf(b, y)
  <1>1. PICK g \in segmentsOf(b, x) \ {Center} :
          y \in findNeighborZoneBySegment(b, x[1], typeOf(b, x), g)
    BY DEF neighbors
  <1>2. PICK other : other = borderNeighborCell(x[1], sideOf(g))
    OBVIOUS
  <1>3. /\ y \in {other} \X DOMAIN zonesAt(b, other)
        /\ typeOf(b, y) = typeOf(b, x) /\ borderNeighborSegment(g) \in segmentsOf(b, y)
    BY <1>1, <1>2 DEF findNeighborZoneBySegment
  <1>4. y[1] = other
    BY <1>3
  <1>5. y \in placedZones(b)
    BY NeighborsPlaced
  <1> QED BY <1>1, <1>2, <1>3, <1>4, <1>5

\* One round of the search.
Reached(b, zones) == zones \cup UNION {neighbors(b, ref) : ref \in zones}

\* The recursion of connectedZones.
IsSearch(f, b) ==
  f = [visited \in SUBSET placedZones(b) |->
         IF Reached(b, visited) = visited THEN visited ELSE f[Reached(b, visited)]]

\* Each round of the search finds a zone more or is the last.
LEMMA RoundGrows ==
  ASSUME NEW b, BoardSound(b), NEW v \in SUBSET placedZones(b)
  PROVE  /\ v \subseteq Reached(b, v) /\ Reached(b, v) \in SUBSET placedZones(b)
         /\ Cardinality(placedZones(b) \ v) \in Nat
         /\ Cardinality(placedZones(b) \ v) <= Cardinality(placedZones(b))
         /\ Reached(b, v) # v => Cardinality(placedZones(b) \ Reached(b, v))
                                   < Cardinality(placedZones(b) \ v)
  <1> DEFINE P == placedZones(b)
             R == Reached(b, v)
  <1>1. v \subseteq R /\ R \in SUBSET P
    BY NeighborsPlaced DEF Reached
  <1>2. IsFiniteSet(P)
    BY PlacedZonesFinite
  <1> HIDE DEF P, R
  <1>3. \A s \in SUBSET P : IsFiniteSet(P \ s) /\ Cardinality(P \ s) \in Nat
                            /\ Cardinality(P \ s) <= Cardinality(P)
    <2> TAKE s \in SUBSET P
    <2>1. P \ s \in SUBSET P
      OBVIOUS
    <2> QED BY <1>2, <2>1, FS_Subset, FS_CardinalityType
  <1>4. ASSUME R # v PROVE Cardinality(P \ R) < Cardinality(P \ v)
    <2>1. P \ R \in SUBSET (P \ v) /\ P \ R # P \ v
      BY <1>1, <1>4, v \in SUBSET P DEF P
    <2>2. Cardinality(P \ R) <= Cardinality(P \ v) /\ Cardinality(P \ R) # Cardinality(P \ v)
      BY <1>1, <1>3, <2>1, FS_Subset DEF P
    <2>3. Cardinality(P \ R) \in Nat /\ Cardinality(P \ v) \in Nat
      BY <1>1, <1>3 DEF P
    <2> QED BY <2>2, <2>3
  <1>5. Cardinality(P \ v) \in Nat /\ Cardinality(P \ v) <= Cardinality(P)
    BY <1>3 DEF P
  <1> QED BY <1>1, <1>4, <1>5 DEF P, R

\* The search of connectedZones comes to an end for every board.
LEMMA SearchesExist ==
  ASSUME NEW b, BoardSound(b) PROVE \E f : IsSearch(f, b)
  <1>1. PICK D, N : D = SUBSET placedZones(b) /\ N = Cardinality(placedZones(b))
    OBVIOUS
  <1>2. PICK rank : rank = [v \in D |-> Cardinality(placedZones(b) \ v)]
    OBVIOUS
  <1>3. PICK R : R = [v \in D |-> Reached(b, v)]
    OBVIOUS
  <1>4. PICK H : H = [q \in D \X [D -> D] |-> IF R[q[1]] = q[1] THEN q[1] ELSE q[2][R[q[1]]]]
    OBVIOUS
  <1>5. \A v \in D : /\ R[v] = Reached(b, v) /\ R[v] \in D
                     /\ rank[v] \in Nat /\ rank[v] <= N
                     /\ R[v] # v => rank[R[v]] < rank[v]
    BY <1>1, <1>2, <1>3, RoundGrows
  <1>6. \A v \in D : \A f \in [D -> D] : H[<<v, f>>] = IF R[v] = v THEN v ELSE f[R[v]]
    BY <1>4
  <1>7. Ranked(D, D, H, rank, N)
    <2>1. D # {} /\ rank \in [D -> Nat] /\ \A v \in D : rank[v] <= N
      BY <1>1, <1>2, <1>5
    <2>2. N \in Nat
      BY <1>1, PlacedZonesFinite, FS_CardinalityType
    <2>3. H \in [D \X [D -> D] -> D]
      <3>1. \A v \in D : \A f \in [D -> D] : H[<<v, f>>] \in D
        BY <1>5, <1>6
      <3> QED BY <1>4, <3>1
    <2>4. \A v \in D : \A f, g \in [D -> D] :
            (\A y \in D : rank[y] < rank[v] => f[y] = g[y]) => H[<<v, f>>] = H[<<v, g>>]
      BY <1>5, <1>6
    <2> QED BY <2>1, <2>2, <2>3, <2>4 DEF Ranked
  <1>8. PICK f \in [D -> D] : \A v \in D : f[v] = H[<<v, f>>]
    BY <1>7, Recursion
  <1>9. f = [v \in D |-> IF R[v] = v THEN v ELSE f[R[v]]]
    <2>1. \A v \in D : f[v] = IF R[v] = v THEN v ELSE f[R[v]]
      BY <1>6, <1>8
    <2>2. f = [v \in D |-> f[v]]
      OBVIOUS
    <2> QED BY <2>1, <2>2
  <1>10. f = [v \in SUBSET placedZones(b) |->
                IF Reached(b, v) = v THEN v ELSE f[Reached(b, v)]]
    BY <1>1, <1>5, <1>9
  <1> QED BY <1>10 DEF IsSearch

\* A set of zones that no search leaves.
Sealed(b, C) == C \in SUBSET placedZones(b) /\ \A ref \in C : neighbors(b, ref) \subseteq C

\* What the search finds is closed, and is all it has to find.
LEMMA SearchFinds ==
  ASSUME NEW b, BoardSound(b), NEW f, IsSearch(f, b)
  PROVE  \A v \in SUBSET placedZones(b) :
           /\ v \subseteq f[v] /\ Sealed(b, f[v])
           /\ \A C : v \subseteq C /\ Sealed(b, C) => f[v] \subseteq C
  <1> DEFINE D == SUBSET placedZones(b)
             rank(v) == Cardinality(placedZones(b) \ v)
             good(v) == /\ v \subseteq f[v] /\ Sealed(b, f[v])
                        /\ \A C : v \subseteq C /\ Sealed(b, C) => f[v] \subseteq C
             A == {n \in Nat : \A v \in D : rank(v) < n => good(v)}
  <1>1. \A v \in D : f[v] = IF Reached(b, v) = v THEN v ELSE f[Reached(b, v)]
    BY Zenon DEF IsSearch
  <1>2. \A v \in D : rank(v) \in Nat
    BY RoundGrows
  <1>3. 0 \in A
    <2>1. \A v \in D : ~(rank(v) < 0)
      BY <1>2
    <2> QED BY <2>1
  <1>4. ASSUME NEW n \in Nat, n \in A PROVE n + 1 \in A
    <2> SUFFICES ASSUME NEW v \in D, rank(v) < n + 1 PROVE good(v)
      <3>1. (\A v \in D : rank(v) < n + 1 => good(v)) => n + 1 \in A
        <4> HIDE DEF D, rank, good
        <4> QED OBVIOUS
      <3> QED BY <3>1
    <2>1. CASE Reached(b, v) = v
      <3>1. Sealed(b, v)
        BY <2>1 DEF Sealed, Reached
      <3> QED BY <1>1, <2>1, <3>1
    <2>2. CASE Reached(b, v) # v
      <3>1. v \subseteq Reached(b, v) /\ Reached(b, v) \in D /\ rank(Reached(b, v)) < rank(v)
        BY <2>2, RoundGrows
      <3>2. rank(Reached(b, v)) < n
        <4>1. PICK i, j : i = rank(Reached(b, v)) /\ j = rank(v)
          OBVIOUS
        <4>2. i \in Nat /\ j \in Nat /\ i < j /\ j < n + 1
          BY <1>2, <3>1, <4>1
        <4>3. i < n
          BY <4>2
        <4> QED BY <4>1, <4>3
      <3>3. good(Reached(b, v))
        <4> HIDE DEF rank, good
        <4> QED BY <1>4, <3>1, <3>2
      <3>4. f[v] = f[Reached(b, v)]
        BY <1>1, <2>2
      <3>5. \A C : v \subseteq C /\ Sealed(b, C) => Reached(b, v) \subseteq C
        BY DEF Sealed, Reached
      <3> QED BY <3>1, <3>3, <3>4, <3>5
    <2> QED BY <2>1, <2>2
  <1> HIDE DEF A
  <1>5. \A n \in Nat : n \in A
    BY <1>3, <1>4, SetInduction
  <1>6. ASSUME NEW v \in D PROVE good(v)
    <2>1. rank(v) + 1 \in A /\ rank(v) < rank(v) + 1
      <3>1. PICK n \in Nat : n = rank(v)
        BY <1>2
      <3>2. n + 1 \in A /\ n < n + 1
        BY <1>5
      <3> QED BY <3>1, <3>2
    <2> HIDE DEF good
    <2> QED BY <2>1 DEF A
  <1> QED BY <1>6

\* A feature is the least closed set of zones around the one it is built from.
LEMMA FeatureFound ==
  ASSUME NEW b, BoardSound(b), NEW start \in placedZones(b)
  PROVE  /\ start \in connectedZones(b, start) /\ Sealed(b, connectedZones(b, start))
         /\ \A C : start \in C /\ Sealed(b, C) => connectedZones(b, start) \subseteq C
  <1> DEFINE g == CHOOSE h : h = [visited \in SUBSET placedZones(b) |->
               LET found == visited \cup UNION {neighbors(b, ref) : ref \in visited}
               IN IF found = visited THEN visited ELSE h[found]]
  <1>1. PICK h : IsSearch(h, b)
    BY SearchesExist
  <1>2. IsSearch(g, b)
    BY <1>1, Zenon DEF IsSearch, Reached
  <1>3. connectedZones(b, start) = g[{start}]
    BY Zenon DEF connectedZones
  <1> HIDE DEF g
  <1>4. /\ {start} \subseteq g[{start}] /\ Sealed(b, g[{start}])
        /\ \A C : {start} \subseteq C /\ Sealed(b, C) => g[{start}] \subseteq C
    BY <1>2, SearchFinds
  <1> QED BY <1>3, <1>4

LEMMA FeatureOnBoard ==
  ASSUME NEW b, BoardSound(b), NEW start \in placedZones(b)
  PROVE  start \in connectedZones(b, start) /\ connectedZones(b, start) \subseteq placedZones(b)
  BY FeatureFound DEF Sealed

\* The recursion of buildFieldGraph.
IsUniting(g, b) ==
  g = [s \in SUBSET fieldZones(b) |->
         IF s = {} THEN {{ref} : ref \in fieldZones(b)}
         ELSE unite(b, CHOOSE x \in s : TRUE, g[s \ {CHOOSE x \in s : TRUE}])]

LEMMA UniteStays ==
  ASSUME NEW b, NEW P, NEW ref, NEW roots \in SUBSET SUBSET P
  PROVE  unite(b, ref, roots) \in SUBSET SUBSET P
  <1>1. PICK joined : joined = {root \in roots : root \cap ({ref} \cup neighbors(b, ref)) # {}}
    OBVIOUS
  <1>2. unite(b, ref, roots) = (roots \ joined) \cup {UNION joined}
    BY <1>1, Zenon DEF unite, join
  <1>3. joined \subseteq roots
    BY <1>1
  <1> QED BY <1>2, <1>3

LEMMA UnitingExists ==
  ASSUME NEW b, BoardSound(b) PROVE \E g : IsUniting(g, b)
  <1>1. PICK Z : Z = fieldZones(b)
    OBVIOUS
  <1>2. PICK V : V = SUBSET SUBSET placedZones(b)
    OBVIOUS
  <1>3. PICK base : base = {{ref} : ref \in Z}
    OBVIOUS
  <1>4. PICK Op : Op = [q \in Z \X V |-> unite(b, q[1], q[2])]
    OBVIOUS
  <1>5. IsFiniteSet(Z) /\ Z \in SUBSET placedZones(b)
    BY <1>1, PlacedZonesFinite, FS_Subset DEF fieldZones
  <1>6. base \in V
    BY <1>2, <1>3, <1>5
  <1>7. \A x \in Z : \A r \in V : unite(b, x, r) \in V
    BY <1>2, UniteStays
  <1>8. Op \in [Z \X V -> V] /\ \A x \in Z : \A r \in V : Op[<<x, r>>] = unite(b, x, r)
    BY <1>4, <1>7
  <1>9. PICK g \in [SUBSET Z -> V] : IsFold(g, Z, base, Op)
    BY <1>5, <1>6, <1>8, FoldsExist
  <1>10. ASSUME NEW s \in SUBSET Z, s # {}
         PROVE  Op[<<CHOOSE x \in s : TRUE, g[s \ {CHOOSE x \in s : TRUE}]>>]
                  = unite(b, CHOOSE x \in s : TRUE, g[s \ {CHOOSE x \in s : TRUE}])
    <2>1. PICK x : x = CHOOSE y \in s : TRUE
      OBVIOUS
    <2>2. x \in Z /\ s \ {x} \in SUBSET Z
      BY <1>10, <2>1
    <2>3. Op[<<x, g[s \ {x}]>>] = unite(b, x, g[s \ {x}])
      BY <1>8, <2>2
    <2> QED BY <2>1, <2>3
  <1>11. [s \in SUBSET Z |-> IF s = {} THEN base
            ELSE Op[<<CHOOSE x \in s : TRUE, g[s \ {CHOOSE x \in s : TRUE}]>>]]
         = [s \in SUBSET Z |-> IF s = {} THEN base
            ELSE unite(b, CHOOSE x \in s : TRUE, g[s \ {CHOOSE x \in s : TRUE}])]
    BY <1>10
  <1>12. g = [s \in SUBSET Z |-> IF s = {} THEN base
            ELSE unite(b, CHOOSE x \in s : TRUE, g[s \ {CHOOSE x \in s : TRUE}])]
    BY <1>9, <1>11, Zenon DEF IsFold
  <1>13. IsUniting(g, b)
    BY <1>1, <1>3, <1>12, Zenon DEF IsUniting
  <1> QED BY <1>13

\* A partition of the field zones in which the zones of T have been united with those they
\* face.
United(b, roots, T) ==
  /\ \A root \in roots : root \subseteq fieldZones(b)
  /\ \A x \in fieldZones(b) : \E root \in roots : x \in root
  /\ \A x \in T : \A root \in roots : x \in root => neighbors(b, x) \subseteq root

LEMMA UniteUnites ==
  ASSUME NEW b, NEW roots, NEW T, United(b, roots, T), NEW x \in fieldZones(b)
  PROVE  United(b, unite(b, x, roots), T \cup {x})
  <1>1. PICK met : met = {x} \cup neighbors(b, x)
    OBVIOUS
  <1>2. PICK joined : joined = {root \in roots : root \cap met # {}}
    OBVIOUS
  <1>3. PICK all : all = (roots \ joined) \cup {UNION joined}
    OBVIOUS
  <1>4. unite(b, x, roots) = all
    BY <1>1, <1>2, <1>3, Zenon DEF unite, join
  <1>5. \A y \in neighbors(b, x) : y \in fieldZones(b)
    <2> TAKE y \in neighbors(b, x)
    <2>1. y \in placedZones(b) /\ typeOf(b, y) = typeOf(b, x)
      BY NeighborAcross
    <2> QED BY <2>1 DEF fieldZones
  <1>6. \A root \in all : root \subseteq fieldZones(b)
    BY <1>2, <1>3 DEF United
  <1>7. ASSUME NEW y \in fieldZones(b) PROVE \E root \in all : y \in root
    <2>1. PICK root \in roots : y \in root
      BY DEF United
    <2>2. CASE root \in joined
      BY <1>3, <2>1, <2>2
    <2>3. CASE root \notin joined
      BY <1>3, <2>1, <2>3
    <2> QED BY <2>2, <2>3
  <1>8. met \subseteq UNION joined
    <2> SUFFICES ASSUME NEW y \in met PROVE y \in UNION joined
      OBVIOUS
    <2>1. y \in fieldZones(b)
      BY <1>1, <1>5
    <2>2. PICK root \in roots : y \in root
      BY <2>1 DEF United
    <2> QED BY <1>2, <2>2
  <1>9. ASSUME NEW y \in T \cup {x}, NEW root \in all, y \in root
        PROVE  neighbors(b, y) \subseteq root
    <2>1. CASE y = x
      <3>1. root = UNION joined
        BY <1>1, <1>2, <1>3, <1>9, <2>1
      <3> QED BY <1>1, <1>8, <2>1, <3>1
    <2>2. CASE y \in T /\ root \in roots
      BY <2>2, <1>9 DEF United
    <2>3. CASE y \in T /\ root = UNION joined
      <3>1. PICK part \in joined : y \in part
        BY <1>9, <2>3
      <3>2. neighbors(b, y) \subseteq part
        BY <1>2, <2>3, <3>1 DEF United
      <3> QED BY <2>3, <3>1, <3>2
    <2> QED BY <1>3, <1>9, <2>1, <2>2, <2>3
  <1>10. United(b, all, T \cup {x})
    BY <1>6, <1>7, <1>9 DEF United
  <1> QED BY <1>4, <1>10

\* When all are united, a field is closed.
LEMMA FieldsFound ==
  ASSUME NEW b, BoardSound(b)
  PROVE  United(b, buildFieldGraph(b), fieldZones(b))
  <1> DEFINE Z == fieldZones(b)
             g == CHOOSE h : h = [s \in SUBSET fieldZones(b) |->
                    IF s = {} THEN {{ref} : ref \in fieldZones(b)}
                    ELSE LET x == CHOOSE x \in s : TRUE IN unite(b, x, h[s \ {x}])]
  <1>1. PICK h : IsUniting(h, b)
    BY UnitingExists
  <1>2. IsUniting(g, b)
    BY <1>1, Zenon DEF IsUniting
  <1>3. buildFieldGraph(b) = g[Z]
    BY Zenon DEF buildFieldGraph, FoldSet, MapThenFoldSet
  <1> HIDE DEF g
  <1>4. \A s \in SUBSET Z : g[s] =
          IF s = {} THEN {{ref} : ref \in Z}
          ELSE unite(b, CHOOSE x \in s : TRUE, g[s \ {CHOOSE x \in s : TRUE}])
    BY <1>2, Zenon DEF IsUniting
  <1>5. IsFiniteSet(Z)
    BY PlacedZonesFinite, FS_Subset DEF fieldZones
  <1> DEFINE A == {s \in SUBSET Z : United(b, g[s], s)}
  <1>6. {} \in A
    <2>1. United(b, {{ref} : ref \in Z}, {})
      BY DEF United
    <2>2. g[{}] = {{ref} : ref \in Z}
      BY <1>4
    <2> QED BY <2>1, <2>2, Zenon
  <1>7. ASSUME NEW T \in SUBSET Z, T # {}, \A x \in T : T \ {x} \in A PROVE T \in A
    <2> HIDE DEF Z
    <2>1. PICK x : x = CHOOSE y \in T : TRUE
      OBVIOUS
    <2>2. x \in T
      BY <1>7, <2>1
    <2>3. g[T] = unite(b, x, g[T \ {x}])
      BY <1>4, <1>7, <2>1
    <2>4. United(b, g[T \ {x}], T \ {x})
      BY <1>7, <2>2
    <2>5. United(b, unite(b, x, g[T \ {x}]), (T \ {x}) \cup {x})
      BY <2>2, <2>4, UniteUnites DEF Z
    <2>6. (T \ {x}) \cup {x} = T
      BY <2>2
    <2> QED BY <2>3, <2>5, <2>6, Zenon
  <1> HIDE DEF A, Z
  <1>8. Z \in A
    BY <1>5, <1>6, <1>7, FiniteInduction
  <1> QED BY <1>3, <1>8 DEF A, Z

\* The fields are finitely many sets of zones of the board.
LEMMA FieldsOnBoard ==
  ASSUME NEW b, BoardSound(b)
  PROVE  /\ \A root \in buildFieldGraph(b) : root \subseteq placedZones(b)
         /\ IsFiniteSet(buildFieldGraph(b))
  <1>1. \A root \in buildFieldGraph(b) : root \subseteq placedZones(b)
    BY FieldsFound DEF United, fieldZones
  <1>2. IsFiniteSet(SUBSET placedZones(b)) /\ buildFieldGraph(b) \in SUBSET SUBSET placedZones(b)
    BY <1>1, PlacedZonesFinite, FS_SUBSET
  <1> QED BY <1>1, <1>2, FS_Subset

-----------------------------------------------------------------------------
(* Borders *)

\* The edges of tiles that lie side by side.
EdgesMatch(b) ==
  \A c \in DOMAIN b : \A side \in adjacentTiles(b, c) :
    edgesAt(b, c)[side] = edgesAt(b, borderNeighborCell(c, side))[(side + 2) % 4]

LEMMA Opposite ==
  ASSUME NEW side \in Sides
  PROVE  (side + 2) % 4 \in Sides /\ (((side + 2) % 4) + 2) % 4 = side
  BY DEF Sides

\* The neighbour's neighbour on the other side is the cell itself.
LEMMA ThereAndBack ==
  ASSUME NEW c \in Int \X Int, NEW side \in Sides
  PROVE  /\ borderNeighborCell(c, side) \in Int \X Int
         /\ borderNeighborCell(c, side) # c
         /\ borderNeighborCell(borderNeighborCell(c, side), (side + 2) % 4) = c
  <1>1. PICK x \in Int, y \in Int : c = <<x, y>>
    OBVIOUS
  <1>2. CASE side = 0
    <2>1. borderNeighborCell(c, 0) = <<x, y - 1>> /\ (0 + 2) % 4 = 2
      BY <1>1 DEF borderNeighborCell
    <2>2. borderNeighborCell(<<x, y - 1>>, 2) = <<x, (y - 1) + 1>>
      BY DEF borderNeighborCell
    <2> QED BY <1>1, <1>2, <2>1, <2>2
  <1>3. CASE side = 1
    <2>1. borderNeighborCell(c, 1) = <<x + 1, y>> /\ (1 + 2) % 4 = 3
      BY <1>1 DEF borderNeighborCell
    <2>2. borderNeighborCell(<<x + 1, y>>, 3) = <<(x + 1) - 1, y>>
      BY DEF borderNeighborCell
    <2> QED BY <1>1, <1>3, <2>1, <2>2
  <1>4. CASE side = 2
    <2>1. borderNeighborCell(c, 2) = <<x, y + 1>> /\ (2 + 2) % 4 = 0
      BY <1>1 DEF borderNeighborCell
    <2>2. borderNeighborCell(<<x, y + 1>>, 0) = <<x, (y + 1) - 1>>
      BY DEF borderNeighborCell
    <2> QED BY <1>1, <1>4, <2>1, <2>2
  <1>5. CASE side = 3
    <2>1. borderNeighborCell(c, 3) = <<x - 1, y>> /\ (3 + 2) % 4 = 1
      BY <1>1 DEF borderNeighborCell
    <2>2. borderNeighborCell(<<x - 1, y>>, 1) = <<(x - 1) + 1, y>>
      BY DEF borderNeighborCell
    <2> QED BY <1>1, <1>5, <2>1, <2>2
  <1> QED BY <1>2, <1>3, <1>4, <1>5 DEF Sides

\* A tile that may be placed.
Fits(b, tile, cell, rotation) ==
  /\ canPlaceTile(b, tile, cell, rotation)
  /\ tile \in DOMAIN Catalog /\ cell \in Int \X Int /\ rotation \in Rotations

LEMMA PlacedSound ==
  ASSUME NEW b, BoardSound(b), NEW tile, NEW cell, NEW rotation, Fits(b, tile, cell, rotation)
  PROVE  BoardSound(placed(b, cell, tile, rotation))
  <1>1. PICK p : p = placed(b, cell, tile, rotation)
    OBVIOUS
  <1>2. /\ DOMAIN p = DOMAIN b \cup {cell}
        /\ p[cell].tile = tile /\ p[cell].rotation = rotation
        /\ \A c \in DOMAIN b \ {cell} : p[c] = b[c]
    BY <1>1 DEF placed
  <1>3. IsFiniteSet(DOMAIN p)
    BY <1>2, FS_AddElement DEF BoardSound
  <1>4. tile \in DOMAIN Catalog /\ cell \in Int \X Int /\ rotation \in Rotations
    BY DEF Fits
  <1>5. BoardSound(p)
    BY <1>2, <1>3, <1>4 DEF BoardSound
  <1> QED BY <1>1, <1>5

\* canPlaceTile compares all edges: the new tile disturbs no border.
LEMMA PlacedMatches ==
  ASSUME NEW b, BoardSound(b), EdgesMatch(b),
         NEW tile, NEW cell, NEW rotation, Fits(b, tile, cell, rotation)
  PROVE  EdgesMatch(placed(b, cell, tile, rotation))
  <1>1. PICK p : p = placed(b, cell, tile, rotation)
    OBVIOUS
  <1> DEFINE edges == rotateEdges(Catalog[tile].edges, rotation)
  <1>2. /\ DOMAIN p = DOMAIN b \cup {cell}
        /\ p[cell].tile = tile /\ p[cell].rotation = rotation
        /\ \A c \in DOMAIN b \ {cell} : p[c] = b[c]
    BY <1>1 DEF placed
  <1>3. /\ cell \notin DOMAIN b
        /\ \A side \in adjacentTiles(b, cell) :
             edges[side] = edgesAt(b, borderNeighborCell(cell, side))[(side + 2) % 4]
    BY Zenon DEF Fits, canPlaceTile
  <1>4. edgesAt(p, cell) = edges
    BY <1>2, Zenon DEF edgesAt
  <1>5. \A c \in DOMAIN b : edgesAt(p, c) = edgesAt(b, c)
    BY <1>2, <1>3 DEF edgesAt
  <1>6. cell \in Int \X Int /\ \A c \in DOMAIN b : c \in Int \X Int
    BY DEF BoardSound, Fits
  <1>7. \A bd, c, side : side \in adjacentTiles(bd, c)
                           <=> side \in Sides /\ borderNeighborCell(c, side) \in DOMAIN bd
    BY DEF adjacentTiles
  <1> HIDE DEF edges
  <1>8. ASSUME NEW c \in DOMAIN p, NEW side \in adjacentTiles(p, c)
        PROVE  edgesAt(p, c)[side] = edgesAt(p, borderNeighborCell(c, side))[(side + 2) % 4]
    <2>1. PICK n : n = borderNeighborCell(c, side)
      OBVIOUS
    <2>2. PICK opp : opp = (side + 2) % 4
      OBVIOUS
    <2>3. side \in Sides /\ n \in DOMAIN p /\ c \in Int \X Int
      BY <1>2, <1>6, <1>7, <1>8, <2>1
    <2>4. n # c /\ borderNeighborCell(n, opp) = c
      BY <2>1, <2>2, <2>3, ThereAndBack
    <2>5. opp \in Sides /\ (opp + 2) % 4 = side
      BY <2>2, <2>3, Opposite
    <2>6. CASE c = cell
      <3>1. n \in DOMAIN b
        BY <1>2, <2>3, <2>4, <2>6
      <3>2. side \in adjacentTiles(b, cell)
        BY <1>7, <2>1, <2>3, <2>6, <3>1
      <3>3. edges[side] = edgesAt(b, n)[opp]
        BY <1>3, <2>1, <2>2, <2>6, <3>2
      <3> QED BY <1>4, <1>5, <2>1, <2>2, <2>6, <3>1, <3>3
    <2>7. CASE c # cell /\ n = cell
      <3>1. c \in DOMAIN b
        BY <1>2, <2>7
      <3>2. opp \in adjacentTiles(b, cell)
        BY <1>7, <2>4, <2>5, <2>7, <3>1
      <3>3. edges[opp] = edgesAt(b, c)[side]
        <4>1. edges[opp] = edgesAt(b, borderNeighborCell(cell, opp))[(opp + 2) % 4]
          BY <1>3, <3>2
        <4> QED BY <2>4, <2>5, <2>7, <4>1
      <3> QED BY <1>4, <1>5, <2>1, <2>2, <2>7, <3>1, <3>3
    <2>8. CASE c # cell /\ n # cell
      <3>1. c \in DOMAIN b /\ n \in DOMAIN b
        BY <1>2, <2>3, <2>8
      <3>2. side \in adjacentTiles(b, c)
        BY <1>7, <2>1, <2>3, <3>1
      <3>3. edgesAt(b, c)[side] = edgesAt(b, n)[opp]
        BY <2>1, <2>2, <3>1, <3>2 DEF EdgesMatch
      <3> QED BY <1>5, <2>1, <2>2, <3>1, <3>3
    <2> QED BY <2>6, <2>7, <2>8
  <1>9. EdgesMatch(p)
    BY <1>8 DEF EdgesMatch
  <1> QED BY <1>1, <1>9

\* The type of the zone at the k-th segment of an edge.
typeAt(edge, k) == IF edge = "road" THEN IF k = 1 THEN "road" ELSE "field" ELSE edge

LEMMA SegmentParts ==
  ASSUME NEW g \in 0..11
  PROVE  /\ sideOf(g) \in Sides /\ (g % 3) \in 0..2 /\ g = 3 * sideOf(g) + (g % 3)
         /\ \A side \in Sides : g \in onSide(side) => sideOf(g) = side
         /\ g \in onSide(sideOf(g))
  <1>1. g \div 3 \in 0..3 /\ (g % 3) \in 0..2 /\ g = 3 * (g \div 3) + (g % 3)
    OBVIOUS
  <1> QED BY <1>1 DEF sideOf, onSide, Sides

\* The type of the zone that has a border segment follows from the edge.
LEMMA TypeOnTile ==
  ASSUME RoadsRunThroughFields, NEW t \in DOMAIN Catalog, NEW z \in DOMAIN Catalog[t].zones,
         NEW g \in 0..11, g \in Catalog[t].zones[z].segments
  PROVE  Catalog[t].zones[z].type = typeAt(Catalog[t].edges[sideOf(g)], g % 3)
  <1>1. PICK side \in Sides : side = sideOf(g)
    BY SegmentParts
  <1>2. (g % 3) \in 0..2 /\ g = 3 * side + (g % 3) /\ g \in onSide(side)
    BY <1>1, SegmentParts
  <1>3. validEdges(Catalog[t])
    BY CatalogAssumption DEF validDefinition
  <1>4. IF Catalog[t].edges[side] = "road"
        THEN 3 * side + 1 \in Catalog[t].zones[z].segments => Catalog[t].zones[z].type = "road"
        ELSE onSide(side) \cap Catalog[t].zones[z].segments # {}
               => Catalog[t].zones[z].type = Catalog[t].edges[side]
    BY <1>3 DEF validEdges
  <1>5. CASE Catalog[t].edges[side] = "road"
    <2>1. CASE (g % 3) = 1
      <3>1. g = 3 * side + 1
        BY <1>2, <2>1
      <3>2. Catalog[t].zones[z].type = "road"
        BY <1>4, <1>5, <3>1, Zenon
      <3> QED BY <1>1, <1>5, <2>1, <3>2 DEF typeAt
    <2>2. CASE (g % 3) # 1
      <3>1. g = 3 * side \/ g = 3 * side + 2
        BY <1>2, <2>2 DEF onSide, Sides
      <3>2. Catalog[t].zones[z].type = "field"
        BY <1>1, <1>5, <3>1 DEF RoadsRunThroughFields
      <3> QED BY <1>1, <1>5, <2>2, <3>2 DEF typeAt
    <2> QED BY <2>1, <2>2
  <1>6. CASE Catalog[t].edges[side] # "road"
    <2>1. Catalog[t].zones[z].type = Catalog[t].edges[side]
      BY <1>2, <1>4, <1>6
    <2> QED BY <1>1, <1>6, <2>1 DEF typeAt
  <1> QED BY <1>5, <1>6

\* A rotation turns segments and edges alike.
LEMMA RotatedSegment ==
  ASSUME NEW g \in 0..11, NEW rotation \in Rotations
  PROVE  /\ rotateSegment(g, rotation) \in 0..11
         /\ (rotateSegment(g, rotation) % 3) = (g % 3)
         /\ (sideOf(rotateSegment(g, rotation)) - rotation) % 4 = sideOf(g)
         /\ \E h \in 0..11 : rotateSegment(h, rotation) = g
  <1>1. \A h \in 0..11 : rotateSegment(h, rotation) = (h + 3 * rotation) % 12
    BY DEF rotateSegment, Center
  <1>2. PICK s \in 0..11 : s = (g + 3 * rotation) % 12
    BY DEF Rotations
  <1>3. s = g + 3 * rotation \/ s = g + 3 * rotation - 12
    BY <1>2 DEF Rotations
  <1>4. (s % 3) = (g % 3)
    BY <1>3 DEF Rotations
  <1>5. (sideOf(s) - rotation) % 4 = sideOf(g)
    <2>1. PICK q \in 0..3, k \in 0..2 : g = 3 * q + k
      BY SegmentParts DEF Sides
    <2>2. sideOf(g) = q
      BY <2>1 DEF sideOf
    <2>3. sideOf(s) = q + rotation \/ sideOf(s) = q + rotation - 4
      BY <1>3, <2>1 DEF sideOf, Rotations
    <2>4. sideOf(s) - rotation = q \/ sideOf(s) - rotation = q - 4
      BY <2>3 DEF Rotations
    <2>5. q % 4 = q /\ (q - 4) % 4 = q
      OBVIOUS
    <2> QED BY <2>2, <2>4, <2>5
  <1>6. \E h \in 0..11 : rotateSegment(h, rotation) = g
    <2>1. PICK h \in 0..11 : h = g - 3 * rotation \/ h = g - 3 * rotation + 12
      BY DEF Rotations
    <2>2. (h + 3 * rotation) % 12 = g
      BY <2>1 DEF Rotations
    <2> QED BY <1>1, <2>2
  <1> QED BY <1>1, <1>2, <1>4, <1>5, <1>6

\* A segment of a placed zone.
LEMMA PlacedType ==
  ASSUME RoadsRunThroughFields, NEW b, BoardSound(b), NEW c \in DOMAIN b,
         NEW z \in DOMAIN zonesAt(b, c), NEW g \in 0..11, g \in segmentsOf(b, <<c, z>>)
  PROVE  typeOf(b, <<c, z>>) = typeAt(edgesAt(b, c)[sideOf(g)], g % 3)
  <1>1. PICK t \in DOMAIN Catalog : t = b[c].tile
    BY DEF BoardSound
  <1>2. PICK rotation \in Rotations : rotation = b[c].rotation
    BY DEF BoardSound
  <1>3. z \in DOMAIN Catalog[t].zones
    BY <1>1 DEF zonesAt
  <1>4. typeOf(b, <<c, z>>) = Catalog[t].zones[z].type
    BY <1>1 DEF typeOf, zoneOf, zonesAt
  <1>5. PICK h \in Catalog[t].zones[z].segments : g = rotateSegment(h, rotation)
    BY <1>1, <1>2 DEF segmentsOf, zoneOf, zonesAt
  <1>6. h \in 0..11
    <2>1. h \in 0..12
      BY <1>3, CatalogAssumption DEF Zone, Segments
    <2>2. h # 12
      BY <1>5 DEF rotateSegment, Center
    <2> QED BY <2>1, <2>2
  <1>7. (h % 3) = (g % 3) /\ (sideOf(g) - rotation) % 4 = sideOf(h)
    BY <1>5, <1>6, RotatedSegment
  <1>8. Catalog[t].zones[z].type = typeAt(Catalog[t].edges[sideOf(h)], h % 3)
    BY <1>3, <1>5, <1>6, TypeOnTile
  <1>9. edgesAt(b, c)[sideOf(g)] = Catalog[t].edges[sideOf(h)]
    <2>1. sideOf(g) \in Sides
      BY SegmentParts
    <2>2. edgesAt(b, c)[sideOf(g)] = Catalog[t].edges[(sideOf(g) - rotation) % 4]
      BY <1>1, <1>2, <2>1 DEF edgesAt, rotateEdges
    <2> QED BY <1>7, <2>2
  <1> QED BY <1>4, <1>7, <1>8, <1>9

\* Every border segment of a placed tile belongs to a zone.
LEMMA PlacedCovered ==
  ASSUME NEW b, BoardSound(b), NEW c \in DOMAIN b, NEW g \in 0..11
  PROVE  \E z \in DOMAIN zonesAt(b, c) : g \in segmentsOf(b, <<c, z>>)
  <1>1. PICK t \in DOMAIN Catalog : t = b[c].tile
    BY DEF BoardSound
  <1>2. PICK rotation \in Rotations : rotation = b[c].rotation
    BY DEF BoardSound
  <1>3. PICK h \in 0..11 : rotateSegment(h, rotation) = g
    BY RotatedSegment
  <1>4. h \in Segments \ {Center}
    BY DEF Segments, Center
  <1>5. PICK z \in DOMAIN Catalog[t].zones : h \in Catalog[t].zones[z].segments
    BY <1>4, CatalogAssumption DEF validDefinition
  <1>6. z \in DOMAIN zonesAt(b, c) /\ g \in segmentsOf(b, <<c, z>>)
    BY <1>1, <1>2, <1>3, <1>5 DEF segmentsOf, zoneOf, zonesAt
  <1> QED BY <1>6

LEMMA EdgesTyped ==
  ASSUME NEW b, BoardSound(b), NEW c \in DOMAIN b, NEW side \in Sides
  PROVE  edgesAt(b, c)[side] \in EdgeTypes
  <1>1. PICK t \in DOMAIN Catalog : t = b[c].tile
    BY DEF BoardSound
  <1>2. PICK rotation \in Rotations : rotation = b[c].rotation
    BY DEF BoardSound
  <1>3. edgesAt(b, c)[side] = Catalog[t].edges[(side - rotation) % 4]
    BY <1>1, <1>2 DEF edgesAt, rotateEdges
  <1>4. (side - rotation) % 4 \in Sides
    BY DEF Sides, Rotations
  <1>5. Catalog[t].edges \in [Sides -> EdgeTypes]
    BY CatalogAssumption
  <1> QED BY <1>3, <1>4, <1>5

\* Segments of a placed zone lie on the border or in the centre.
LEMMA SegmentsOnTile ==
  ASSUME NEW b, BoardSound(b), NEW ref \in placedZones(b),
         NEW g \in segmentsOf(b, ref) \ {Center}
  PROVE  g \in 0..11
  <1>1. /\ ref = <<ref[1], ref[2]>> /\ ref[1] \in DOMAIN b /\ ref[2] \in DOMAIN zonesAt(b, ref[1])
    BY PlacedZone
  <1>2. PICK t \in DOMAIN Catalog : t = b[ref[1]].tile
    BY <1>1 DEF BoardSound
  <1>3. PICK rotation \in Rotations : rotation = b[ref[1]].rotation
    BY <1>1 DEF BoardSound
  <1>4. PICK h \in Catalog[t].zones[ref[2]].segments : g = rotateSegment(h, rotation)
    BY <1>2, <1>3 DEF segmentsOf, zoneOf, zonesAt
  <1>5. h \in 0..12
    BY <1>1, <1>2, <1>4, CatalogAssumption DEF Zone, Segments, zonesAt
  <1>6. h # Center
    BY <1>4 DEF rotateSegment
  <1>7. h \in 0..11
    BY <1>5, <1>6 DEF Center
  <1> QED BY <1>3, <1>4, <1>7, RotatedSegment

\* The facing segment lies on the facing edge, from the other end.
LEMMA FacingSegment ==
  ASSUME NEW g \in 0..11
  PROVE  /\ borderNeighborSegment(g) \in 0..11
         /\ sideOf(borderNeighborSegment(g)) = (sideOf(g) + 2) % 4
         /\ (borderNeighborSegment(g) % 3) = 2 - (g % 3)
  <1>1. g \in {0, 1, 2, 3, 4, 5, 6, 7, 8, 9, 10, 11}
    OBVIOUS
  <1> QED BY <1>1 DEF borderNeighborSegment, sideOf

\* Zones that face each other across a border are of one type.
LEMMA SameAcross ==
  ASSUME RoadsRunThroughFields, NEW b, BoardSound(b), EdgesMatch(b),
         NEW x \in placedZones(b), NEW y \in placedZones(b),
         NEW g \in 0..11, g \in segmentsOf(b, x), y[1] = borderNeighborCell(x[1], sideOf(g)),
         borderNeighborSegment(g) \in segmentsOf(b, y)
  PROVE  typeOf(b, y) = typeOf(b, x) /\ typeOf(b, x) \in EdgeTypes
  <1>1. PICK c, z : x = <<c, z>> /\ c \in DOMAIN b /\ z \in DOMAIN zonesAt(b, c)
    BY PlacedZone
  <1>2. PICK n, w : y = <<n, w>> /\ n \in DOMAIN b /\ w \in DOMAIN zonesAt(b, n)
    BY PlacedZone
  <1>3. PICK side \in Sides : side = sideOf(g)
    BY SegmentParts
  <1>4. (g % 3) \in 0..2
    BY SegmentParts
  <1>5. PICK f \in 0..11 : f = borderNeighborSegment(g)
    BY FacingSegment
  <1>6. sideOf(f) = (side + 2) % 4 /\ (f % 3) = 2 - (g % 3)
    BY <1>3, <1>5, FacingSegment
  <1>7. n = borderNeighborCell(c, side) /\ side \in adjacentTiles(b, c)
    BY <1>1, <1>2, <1>3 DEF adjacentTiles
  <1>8. edgesAt(b, c)[side] = edgesAt(b, n)[(side + 2) % 4]
    BY <1>1, <1>7 DEF EdgesMatch
  <1>9. typeOf(b, x) = typeAt(edgesAt(b, c)[side], g % 3)
    BY <1>1, <1>3, PlacedType
  <1>10. typeOf(b, y) = typeAt(edgesAt(b, c)[side], f % 3)
    BY <1>2, <1>5, <1>6, <1>8, PlacedType
  <1>11. (f % 3) = 1 <=> (g % 3) = 1
    BY <1>4, <1>6
  <1>12. edgesAt(b, c)[side] \in EdgeTypes
    BY <1>1, EdgesTyped
  <1> QED BY <1>9, <1>10, <1>11, <1>12 DEF typeAt, EdgeTypes

\* Zones continue across every border.
Continues(b) ==
  \A c \in DOMAIN b : \A side \in adjacentTiles(b, c) :
    \A z \in DOMAIN zonesAt(b, c) : \A g \in onSide(side) :
      g \in segmentsOf(b, <<c, z>>)
        => findNeighborZoneBySegment(b, c, typeOf(b, <<c, z>>), g) # {}

\* Matching edges suffice.
LEMMA BordersContinue ==
  ASSUME RoadsRunThroughFields, NEW b, BoardSound(b), EdgesMatch(b) PROVE Continues(b)
  <1> SUFFICES ASSUME NEW c \in DOMAIN b, NEW side \in adjacentTiles(b, c),
                      NEW z \in DOMAIN zonesAt(b, c), NEW g \in onSide(side),
                      g \in segmentsOf(b, <<c, z>>)
               PROVE  findNeighborZoneBySegment(b, c, typeOf(b, <<c, z>>), g) # {}
    BY DEF Continues
  <1>1. PICK n \in DOMAIN b : n = borderNeighborCell(c, side)
    BY DEF adjacentTiles
  <1>2. side \in Sides
    BY DEF adjacentTiles
  <1>3. g \in 0..11
    BY <1>2 DEF onSide, Sides
  <1>4. sideOf(g) = side /\ (g % 3) \in 0..2
    BY <1>2, <1>3, SegmentParts
  <1>5. PICK f \in 0..11 : f = borderNeighborSegment(g)
    BY <1>3, FacingSegment
  <1>6. sideOf(f) = (side + 2) % 4 /\ (f % 3) = 2 - (g % 3)
    BY <1>3, <1>4, <1>5, FacingSegment
  <1>7. PICK y \in DOMAIN zonesAt(b, n) : f \in segmentsOf(b, <<n, y>>)
    BY PlacedCovered
  <1>8. <<c, z>> \in placedZones(b) /\ <<n, y>> \in placedZones(b)
    BY <1>7 DEF placedZones
  <1>9. typeOf(b, <<n, y>>) = typeOf(b, <<c, z>>)
    BY <1>1, <1>3, <1>4, <1>5, <1>7, <1>8, SameAcross
  <1>10. <<n, y>> \in findNeighborZoneBySegment(b, c, typeOf(b, <<c, z>>), g)
    BY <1>1, <1>4, <1>5, <1>7, <1>9 DEF findNeighborZoneBySegment
  <1> QED BY <1>10

-----------------------------------------------------------------------------
(* Regions *)

LEMMA NeighborWhen ==
  ASSUME NEW b, NEW x, NEW y \in placedZones(b), NEW g \in segmentsOf(b, x) \ {Center},
         y[1] = borderNeighborCell(x[1], sideOf(g)), typeOf(b, y) = typeOf(b, x),
         borderNeighborSegment(g) \in segmentsOf(b, y)
  PROVE  y \in neighbors(b, x)
  <1>1. PICK other : other = borderNeighborCell(x[1], sideOf(g))
    OBVIOUS
  <1>2. other \in DOMAIN b /\ y \in {other} \X DOMAIN zonesAt(b, other)
    BY <1>1, PlacedZone
  <1>3. y \in findNeighborZoneBySegment(b, x[1], typeOf(b, x), g)
    BY <1>1, <1>2 DEF findNeighborZoneBySegment
  <1> QED BY <1>3 DEF neighbors

\* Being neighbours is mutual.
LEMMA NeighborsMutual ==
  ASSUME NEW b, BoardSound(b), NEW x \in placedZones(b), NEW y \in neighbors(b, x)
  PROVE  x \in neighbors(b, y)
  <1>1. PICK g \in segmentsOf(b, x) \ {Center} :
          /\ y[1] = borderNeighborCell(x[1], sideOf(g))
          /\ borderNeighborSegment(g) \in segmentsOf(b, y)
    BY NeighborAcross
  <1>2. g \in 0..11
    BY SegmentsOnTile
  <1>3. PICK f \in 0..11 : f = borderNeighborSegment(g)
    BY <1>2, FacingSegment
  <1>4. borderNeighborSegment(f) = g
    <2>1. g \in {0, 1, 2, 3, 4, 5, 6, 7, 8, 9, 10, 11}
      BY <1>2
    <2> QED BY <1>3, <2>1 DEF borderNeighborSegment, sideOf
  <1>5. sideOf(g) \in Sides /\ sideOf(f) = (sideOf(g) + 2) % 4
    BY <1>2, <1>3, FacingSegment, SegmentParts
  <1>6. x[1] \in Int \X Int
    BY PlacedZone DEF BoardSound
  <1>7. x[1] = borderNeighborCell(y[1], sideOf(f))
    BY <1>1, <1>5, <1>6, ThereAndBack
  <1>8. f \in segmentsOf(b, y) \ {Center} /\ borderNeighborSegment(f) \in segmentsOf(b, x)
    BY <1>1, <1>3, <1>4 DEF Center
  <1>9. typeOf(b, x) = typeOf(b, y)
    BY NeighborAcross
  <1> QED BY <1>7, <1>8, <1>9, NeighborWhen

\* On a board whose edges match, neighbours are the zones that face each other.
LEMMA FacingNeighbors ==
  ASSUME RoadsRunThroughFields, NEW b, BoardSound(b), EdgesMatch(b), NEW x \in placedZones(b)
  PROVE  Facing(b, x) = neighbors(b, x)
  <1>1. \A y : y \in Facing(b, x) <=>
          \E g \in segmentsOf(b, x) \ {Center} :
            /\ borderNeighborCell(x[1], sideOf(g)) \in DOMAIN b
            /\ y \in {borderNeighborCell(x[1], sideOf(g))}
                       \X DOMAIN zonesAt(b, borderNeighborCell(x[1], sideOf(g)))
            /\ borderNeighborSegment(g) \in segmentsOf(b, y)
    BY DEF Facing
  <1>2. ASSUME NEW y \in Facing(b, x) PROVE y \in neighbors(b, x)
    <2>1. PICK g \in segmentsOf(b, x) \ {Center} :
            /\ borderNeighborCell(x[1], sideOf(g)) \in DOMAIN b
            /\ y \in {borderNeighborCell(x[1], sideOf(g))}
                       \X DOMAIN zonesAt(b, borderNeighborCell(x[1], sideOf(g)))
            /\ borderNeighborSegment(g) \in segmentsOf(b, y)
      BY <1>1, <1>2
    <2>2. y[1] = borderNeighborCell(x[1], sideOf(g)) /\ y \in placedZones(b)
      BY <2>1, PlacedZone
    <2>3. g \in 0..11
      BY SegmentsOnTile
    <2>4. typeOf(b, y) = typeOf(b, x)
      BY <2>1, <2>2, <2>3, SameAcross
    <2> QED BY <2>1, <2>2, <2>4, NeighborWhen
  <1>3. ASSUME NEW y \in neighbors(b, x) PROVE y \in Facing(b, x)
    <2>1. y \in placedZones(b)
      BY NeighborAcross
    <2>2. PICK g \in segmentsOf(b, x) \ {Center} :
            /\ y[1] = borderNeighborCell(x[1], sideOf(g))
            /\ borderNeighborSegment(g) \in segmentsOf(b, y)
      BY NeighborAcross
    <2>3. /\ borderNeighborCell(x[1], sideOf(g)) \in DOMAIN b
          /\ y \in {borderNeighborCell(x[1], sideOf(g))}
                     \X DOMAIN zonesAt(b, borderNeighborCell(x[1], sideOf(g)))
      BY <2>1, <2>2, PlacedZone
    <2> QED BY <1>1, <2>2, <2>3
  <1> QED BY <1>2, <1>3

\* Only zones on an edge have neighbours.
LEMMA MonasteryAlone ==
  ASSUME RoadsRunThroughFields, NEW b, BoardSound(b), EdgesMatch(b), NEW x \in placedZones(b),
         typeOf(b, x) \notin EdgeTypes
  PROVE  neighbors(b, x) = {}
  <1> SUFFICES ASSUME NEW y \in neighbors(b, x) PROVE FALSE
    OBVIOUS
  <1>1. y \in placedZones(b)
    BY NeighborAcross
  <1>2. PICK g \in segmentsOf(b, x) \ {Center} :
          /\ y[1] = borderNeighborCell(x[1], sideOf(g))
          /\ borderNeighborSegment(g) \in segmentsOf(b, y)
    BY NeighborAcross
  <1>3. g \in 0..11
    BY SegmentsOnTile
  <1> QED BY <1>1, <1>2, <1>3, SameAcross

\* The regions of the rules are what the search finds from some zone.
LEMMA RegionsFound ==
  ASSUME RoadsRunThroughFields, NEW b, BoardSound(b), EdgesMatch(b)
  PROVE  \E f : IsSearch(f, b) /\ Regions(b) = {f[{ref}] : ref \in placedZones(b)}
  <1> DEFINE f == CHOOSE h : h = [R \in SUBSET placedZones(b) |->
                    LET more == R \cup UNION {Facing(b, ref) : ref \in R}
                    IN IF more = R THEN R ELSE h[more]]
  <1>1. \A R \in SUBSET placedZones(b) :
          R \cup UNION {Facing(b, ref) : ref \in R} = Reached(b, R)
    BY FacingNeighbors DEF Reached
  <1>2. \A h : IsSearch(h, b) <=> h = [R \in SUBSET placedZones(b) |->
                    IF R \cup UNION {Facing(b, ref) : ref \in R} = R THEN R
                    ELSE h[R \cup UNION {Facing(b, ref) : ref \in R}]]
    <2> TAKE h
    <2>1. [R \in SUBSET placedZones(b) |->
              IF Reached(b, R) = R THEN R ELSE h[Reached(b, R)]]
          = [R \in SUBSET placedZones(b) |->
                    IF R \cup UNION {Facing(b, ref) : ref \in R} = R THEN R
                    ELSE h[R \cup UNION {Facing(b, ref) : ref \in R}]]
      BY <1>1
    <2> QED BY <2>1, Zenon DEF IsSearch
  <1>3. PICK h : IsSearch(h, b)
    BY SearchesExist
  <1>4. IsSearch(f, b)
    BY <1>2, <1>3, Zenon
  <1>5. Regions(b) = {f[{ref}] : ref \in placedZones(b)}
    BY Zenon DEF Regions
  <1> HIDE DEF f
  <1> QED BY <1>4, <1>5

\* A region of the rules lies within any closed set that it meets.
LEMMA RegionWithin ==
  ASSUME RoadsRunThroughFields, NEW b, BoardSound(b), EdgesMatch(b),
         NEW R \in Regions(b), NEW C, Sealed(b, C), R \cap C # {}
  PROVE  R \subseteq C
  <1>1. PICK f : IsSearch(f, b) /\ Regions(b) = {f[{ref}] : ref \in placedZones(b)}
    BY RegionsFound
  <1>2. PICK start \in placedZones(b) : R = f[{start}]
    BY <1>1
  <1>3. \A S : {start} \subseteq S /\ Sealed(b, S) => R \subseteq S
    <2>1. {start} \in SUBSET placedZones(b)
      OBVIOUS
    <2> QED BY <1>1, <1>2, <2>1, SearchFinds
  <1>4. start \in C
    <2> SUFFICES ASSUME start \notin C PROVE FALSE
      OBVIOUS
    <2>1. Sealed(b, placedZones(b) \ C)
      <3> SUFFICES ASSUME NEW x \in placedZones(b) \ C, NEW y \in neighbors(b, x), y \in C PROVE FALSE
        BY NeighborsPlaced DEF Sealed
      <3>1. x \in neighbors(b, y)
        BY NeighborsMutual
      <3> QED BY <3>1 DEF Sealed
    <2>2. R \subseteq placedZones(b) \ C
      BY <1>3, <2>1
    <2> QED BY <2>2
  <1> QED BY <1>3, <1>4

\* What canPlaceMeeple searches is closed, whatever the type of the zone.
LEMMA RegionClosed ==
  ASSUME RoadsRunThroughFields, NEW b, BoardSound(b), EdgesMatch(b), NEW ref \in placedZones(b),
         typeOf(b, ref) # "cathedral"
  PROVE  ref \in regionOf(b, ref) /\ Sealed(b, regionOf(b, ref))
  <1>1. CASE typeOf(b, ref) = "monastery"
    <2>1. regionOf(b, ref) = {ref}
      BY <1>1 DEF regionOf
    <2>2. neighbors(b, ref) = {}
      BY <1>1, MonasteryAlone DEF EdgeTypes
    <2> QED BY <2>1, <2>2 DEF Sealed
  <1>2. CASE typeOf(b, ref) = "field"
    <2>1. PICK roots : roots = buildFieldGraph(b)
      OBVIOUS
    <2>2. regionOf(b, ref) = CHOOSE root \in roots : ref \in root
      BY <1>2, <2>1 DEF regionOf, findRoot
    <2>3. United(b, roots, fieldZones(b)) /\ ref \in fieldZones(b)
      BY <1>2, <2>1, FieldsFound DEF fieldZones
    <2>4. \E root \in roots : ref \in root
      BY <2>3 DEF United
    <2>5. PICK R \in roots : ref \in R /\ regionOf(b, ref) = R
      BY <2>2, <2>4
    <2>6. Sealed(b, R)
      BY <2>3, <2>5 DEF United, Sealed, fieldZones
    <2> QED BY <2>5, <2>6
  <1>3. CASE typeOf(b, ref) \in {"road", "city"}
    <2>1. regionOf(b, ref) = connectedZones(b, ref)
      BY <1>3 DEF regionOf
    <2> QED BY <2>1, FeatureFound
  <1>4. typeOf(b, ref) \in ZoneTypes
    <2>1. ref[1] \in DOMAIN b /\ ref[2] \in DOMAIN zonesAt(b, ref[1])
      BY PlacedZone
    <2>2. b[ref[1]].tile \in DOMAIN Catalog
      BY <2>1 DEF BoardSound
    <2>3. zonesAt(b, ref[1])[ref[2]] \in Zone
      BY <2>1, <2>2, CatalogAssumption DEF zonesAt
    <2> QED BY <2>3 DEF typeOf, zoneOf, Zone
  <1> QED BY <1>1, <1>2, <1>3, <1>4 DEF ZoneTypes, EdgeTypes

-----------------------------------------------------------------------------
(* The deck *)

\* The tiles of a kind in the deck and on the board.
inDeck(deck, t) == {i \in 1..Len(deck) : deck[i] = t}
onBoard(b, t) == {c \in DOMAIN b \ {<<0, 0>>} : b[c].tile = t}

\* The deck without the tile that is drawn: the tiles before it go to the bottom.
LEMMA DrawnDeck ==
  ASSUME NEW C, NEW d \in Seq(C), NEW i \in 1..Len(d)
  PROVE  /\ withoutDrawn(d, i) \in Seq(C) /\ Len(withoutDrawn(d, i)) = Len(d) - 1
         /\ \A j \in 1..Len(d) - 1 :
              withoutDrawn(d, i)[j] = IF j <= Len(d) - i THEN d[i + j] ELSE d[j - (Len(d) - i)]
  <1> DEFINE n == Len(d)
             a == SubSeq(d, i + 1, n)
             b == SubSeq(d, 1, i - 1)
  <1>1. n \in Nat /\ i \in 1..n /\ \A j \in 1..n : d[j] \in C
    BY LenProperties, ElementOfSeq
  <1>2. /\ a \in Seq(C) /\ Len(a) = n - i
        /\ \A j \in 1..n - i : a[j] = d[i + j]
    <2>1. i + 1 \in Int /\ n \in Int /\ \A j \in i + 1 .. n : d[j] \in C
      BY <1>1
    <2>2. /\ a \in Seq(C) /\ Len(a) = IF i + 1 <= n THEN n - (i + 1) + 1 ELSE 0
          /\ \A j \in 1 .. n - (i + 1) + 1 : a[j] = d[(i + 1) + j - 1]
      BY <2>1, SubSeqProperties
    <2>3. n - (i + 1) + 1 = n - i /\ \A j \in Int : (i + 1) + j - 1 = i + j
      BY <1>1
    <2> HIDE DEF a, n
    <2>4. Len(a) = n - i
      BY <1>1, <2>2
    <2>5. \A j \in 1..n - i : a[j] = d[i + j]
      BY <2>2, <2>3
    <2> QED BY <2>2, <2>4, <2>5
  <1>3. /\ b \in Seq(C) /\ Len(b) = i - 1
        /\ \A j \in 1..i - 1 : b[j] = d[j]
    <2>1. 1 \in Int /\ i - 1 \in Int /\ \A j \in 1 .. i - 1 : d[j] \in C
      BY <1>1
    <2>2. /\ b \in Seq(C) /\ Len(b) = IF 1 <= i - 1 THEN (i - 1) - 1 + 1 ELSE 0
          /\ \A j \in 1 .. (i - 1) - 1 + 1 : b[j] = d[1 + j - 1]
      BY <2>1, SubSeqProperties
    <2>3. (i - 1) - 1 + 1 = i - 1 /\ \A j \in Int : 1 + j - 1 = j
      BY <1>1
    <2> HIDE DEF b
    <2>4. Len(b) = i - 1
      BY <1>1, <2>2
    <2>5. \A j \in 1..i - 1 : b[j] = d[j]
      BY <2>2, <2>3
    <2> QED BY <2>2, <2>4, <2>5
  <1>4. withoutDrawn(d, i) = a \o b
    BY DEF withoutDrawn
  <1> HIDE DEF a, b, n
  <1>5. /\ a \o b \in Seq(C) /\ Len(a \o b) = Len(a) + Len(b)
        /\ \A j \in 1 .. Len(a) + Len(b) :
             (a \o b)[j] = IF j <= Len(a) THEN a[j] ELSE b[j - Len(a)]
    BY <1>2, <1>3, ConcatProperties
  <1>6. Len(a) + Len(b) = n - 1
    BY <1>1, <1>2, <1>3
  <1>7. ASSUME NEW j \in 1..n - 1
        PROVE  (a \o b)[j] = IF j <= n - i THEN d[i + j] ELSE d[j - (n - i)]
    <2>1. (a \o b)[j] = IF j <= n - i THEN a[j] ELSE b[j - (n - i)]
      BY <1>2, <1>5, <1>6
    <2>2. CASE j <= n - i
      <3>1. j \in 1..n - i
        BY <1>1, <2>2
      <3> QED BY <1>2, <2>1, <2>2, <3>1
    <2>3. CASE ~(j <= n - i)
      <3>1. j - (n - i) \in 1..i - 1
        BY <1>1, <2>3
      <3> QED BY <1>3, <2>1, <2>3, <3>1
    <2> QED BY <2>2, <2>3
  <1> QED BY <1>4, <1>5, <1>6, <1>7 DEF n

LEMMA InDeckFinite ==
  ASSUME NEW C, NEW d \in Seq(C), NEW t
  PROVE  IsFiniteSet(inDeck(d, t)) /\ Cardinality(inDeck(d, t)) \in Nat
  <1>1. Len(d) \in Int /\ 1 \in Int
    BY LenProperties
  <1>2. IsFiniteSet(1..Len(d)) /\ inDeck(d, t) \in SUBSET (1..Len(d))
    BY <1>1, FS_Interval DEF inDeck
  <1> QED BY <1>2, FS_Subset, FS_CardinalityType

\* Drawing takes one tile of its kind out of the deck and loses no other.
LEMMA DrawnCounts ==
  ASSUME NEW C, NEW d \in Seq(C), NEW i \in 1..Len(d), NEW t
  PROVE  Cardinality(inDeck(withoutDrawn(d, i), t)) + (IF d[i] = t THEN 1 ELSE 0)
           = Cardinality(inDeck(d, t))
  <1> DEFINE n == Len(d)
             e == withoutDrawn(d, i)
             A == inDeck(e, t)
             B == inDeck(d, t) \ {i}
  <1>1. n \in Nat /\ i \in 1..n
    BY LenProperties
  <1>2. /\ Len(e) = n - 1
        /\ \A j \in 1..n - 1 : e[j] = IF j <= n - i THEN d[i + j] ELSE d[j - (n - i)]
    BY DrawnDeck
  <1>3. A = {j \in 1..n - 1 : e[j] = t} /\ B = {j \in 1..n : d[j] = t /\ j # i}
    BY <1>2 DEF inDeck
  <1>4. IsFiniteSet(A) /\ IsFiniteSet(inDeck(d, t))
        /\ Cardinality(A) \in Nat /\ Cardinality(inDeck(d, t)) \in Nat
    BY DrawnDeck, InDeckFinite
  <1> DEFINE h == [j \in A |-> IF j <= n - i THEN i + j ELSE j - (n - i)]
  <1> HIDE DEF n, e, A, B
  <1>5. ASSUME NEW j \in A PROVE h[j] \in B
    <2>1. j \in 1..n - 1 /\ e[j] = t
      BY <1>3
    <2>2. CASE j <= n - i
      <3>1. h[j] = i + j /\ i + j \in 1..n /\ i + j # i /\ d[i + j] = t
        BY <1>1, <1>2, <2>1, <2>2
      <3> QED BY <1>3, <3>1
    <2>3. CASE ~(j <= n - i)
      <3>1. h[j] = j - (n - i) /\ j - (n - i) \in 1..n /\ j - (n - i) # i /\ d[j - (n - i)] = t
        BY <1>1, <1>2, <2>1, <2>3
      <3> QED BY <1>3, <3>1
    <2> QED BY <2>2, <2>3
  <1>6. \A j, l \in A : h[j] = h[l] => j = l
    BY <1>1, <1>3
  <1>7. ASSUME NEW m \in B PROVE \E j \in A : h[j] = m
    <2>1. m \in 1..n /\ d[m] = t /\ m # i
      BY <1>3
    <2>2. CASE m < i
      <3>1. PICK j : j = m + (n - i)
        OBVIOUS
      <3>2. j \in 1..n - 1 /\ ~(j <= n - i) /\ j - (n - i) = m
        BY <1>1, <2>1, <2>2, <3>1
      <3>3. e[j] = t
        BY <1>2, <2>1, <3>2
      <3>4. j \in A
        BY <1>3, <3>2, <3>3
      <3>5. h[j] = m
        BY <3>2, <3>4
      <3> QED BY <3>4, <3>5
    <2>3. CASE i < m
      <3>1. PICK j : j = m - i
        OBVIOUS
      <3>2. j \in 1..n - 1 /\ j <= n - i /\ i + j = m
        BY <1>1, <2>1, <2>3, <3>1
      <3>3. e[j] = t
        BY <1>2, <2>1, <3>2
      <3>4. j \in A
        BY <1>3, <3>2, <3>3
      <3>5. h[j] = m
        BY <3>2, <3>4
      <3> QED BY <3>4, <3>5
    <2> QED BY <1>1, <2>1, <2>2, <2>3
  <1>8. h \in Bijection(A, B)
    <2>1. h \in [A -> B]
      BY <1>5
    <2> HIDE DEF h
    <2>2. \A m \in B : \E j \in A : h[j] = m
      BY <1>7
    <2> QED BY <1>6, <2>1, <2>2 DEF Bijection, Injection, Surjection, IsInjective
  <1>9. Cardinality(B) = Cardinality(A)
    <2>1. ExistsBijection(A, B)
      BY <1>8 DEF ExistsBijection
    <2> QED BY <1>4, <2>1, FS_Bijection
  <1>10. Cardinality(B) = IF i \in inDeck(d, t) THEN Cardinality(inDeck(d, t)) - 1
                          ELSE Cardinality(inDeck(d, t))
    BY <1>4, FS_RemoveElement DEF B
  <1>11. i \in inDeck(d, t) <=> d[i] = t
    BY DEF inDeck
  <1>12. Cardinality(A) + (IF d[i] = t THEN 1 ELSE 0) = Cardinality(inDeck(d, t))
    BY <1>4, <1>9, <1>10, <1>11
  <1> QED BY <1>12 DEF A, e

-----------------------------------------------------------------------------
(* What is scored *)

\* Features that can be paid: finitely many, each with points, and its tiles contribute
\* what it is worth.
Payable(E) ==
  IsFiniteSet(E) /\ \A f \in E : f.points \in Nat /\ f.total = f.points

\* The contributions of the tiles add up to what the feature is worth.
LEMMA FeaturePays ==
  ASSUME NEW s, BoardSound(s.board), NEW feature, feature.zones \subseteq placedZones(s.board),
         NEW p \in Nat
  PROVE  /\ scoredFeature(s, feature, p).points \in Nat
         /\ scoredFeature(s, feature, p).total = scoredFeature(s, feature, p).points
  <1> DEFINE S == tilesOf(feature)
             M == pennants(s.board, feature)
             F == contributions(s.board, feature, p)
  <1>1. IsFiniteSet(feature.zones)
    BY PlacedZonesFinite, FS_Subset
  <1>2. IsFiniteSet(M)
    BY <1>1, FS_Subset DEF pennants
  <1>3. IsFiniteSet(S)
    <2>1. PICK f : f = [ref \in feature.zones |-> ref[1]]
      OBVIOUS
    <2>2. IsFiniteSet({f[ref] : ref \in feature.zones})
      BY <1>1, ImageFinite
    <2>3. {f[ref] : ref \in feature.zones} = S
      BY <2>1 DEF tilesOf
    <2> QED BY <2>2, <2>3
  <1>4. \A m \in M : m[1] \in S
    BY DEF pennants, tilesOf
  <1>5. F = [c \in S |-> p * (1 + Cardinality({m \in M : m[1] = c}))]
    BY Zenon DEF contributions
  <1>6. scoredFeature(s, feature, p).points = p * (Cardinality(S) + Cardinality(M))
    BY DEF scoredFeature, scored
  <1>7. scoredFeature(s, feature, p).total = Total(F, S)
    <2>1. scoredFeature(s, feature, p).total = scoreContributionTotal(s.board, feature, p)
      BY DEF scoredFeature, scored
    <2>2. scoreContributionTotal(s.board, feature, p) = Total(F, S)
      BY Zenon DEF scoreContributionTotal, Total
    <2> QED BY <2>1, <2>2, Zenon
  <1> HIDE DEF S, M, F
  <1>8. Total(F, S) = p * (Cardinality(S) + Cardinality(M))
    BY <1>2, <1>3, <1>4, <1>5, TotalOfContributions
  <1>9. p * (Cardinality(S) + Cardinality(M)) \in Nat
    <2>1. PICK i \in Nat, j \in Nat : i = Cardinality(S) /\ j = Cardinality(M)
      BY <1>2, <1>3, FS_CardinalityType
    <2>2. p * (i + j) \in Nat
      OBVIOUS
    <2> QED BY <2>1, <2>2, Zenon
  <1> QED BY <1>6, <1>7, <1>8, <1>9, Zenon

LEMMA NeighboursCount ==
  ASSUME NEW b, BoardSound(b), NEW c PROVE adjacentTileCount(b, c) \in Nat
  <1>1. PICK T \in SUBSET DOMAIN b : T = {d \in DOMAIN b : /\ d[1] - c[1] \in -1..1
                                                           /\ d[2] - c[2] \in -1..1} \ {c}
    OBVIOUS
  <1>2. IsFiniteSet(T)
    BY FS_Subset DEF BoardSound
  <1> QED BY <1>1, <1>2, FS_CardinalityType, Zenon DEF adjacentTileCount

LEMMA FeatureZones ==
  ASSUME NEW b, BoardSound(b), NEW ref \in placedZones(b)
  PROVE  /\ buildFeature(b, ref).zones \subseteq placedZones(b)
         /\ buildFeature(b, ref).type = typeOf(b, ref)
  <1>1. /\ buildFeature(b, ref).zones = connectedZones(b, ref)
        /\ buildFeature(b, ref).type = typeOf(b, ref)
    BY DEF buildFeature, featureOf
  <1> QED BY <1>1, FeatureOnBoard

LEMMA FeaturesFinite ==
  ASSUME NEW b, BoardSound(b), NEW refs \in SUBSET placedZones(b)
  PROVE  IsFiniteSet({buildFeature(b, ref) : ref \in refs})
  <1>1. PICK f : f = [ref \in refs |-> buildFeature(b, ref)]
    OBVIOUS
  <1>2. IsFiniteSet(refs)
    BY PlacedZonesFinite, FS_Subset
  <1>3. IsFiniteSet({f[ref] : ref \in refs})
    BY <1>2, ImageFinite
  <1>4. {f[ref] : ref \in refs} = {buildFeature(b, ref) : ref \in refs}
    BY <1>1
  <1> QED BY <1>3, <1>4

LEMMA MonasteriesPay ==
  ASSUME NEW M, IsFiniteSet(M), NEW pts \in [M -> Nat]
  PROVE  Payable({scoredMonastery(m, pts[m]) : m \in M})
  <1>1. PICK f : f = [m \in M |-> scoredMonastery(m, pts[m])]
    OBVIOUS
  <1>2. IsFiniteSet({f[m] : m \in M})
    BY ImageFinite
  <1>3. {f[m] : m \in M} = {scoredMonastery(m, pts[m]) : m \in M}
    BY <1>1
  <1>4. \A m, n : scoredMonastery(m, n).points = n /\ scoredMonastery(m, n).total = n
    BY DEF scoredMonastery, scored
  <1>5. ASSUME NEW e \in {scoredMonastery(m, pts[m]) : m \in M}
        PROVE  e.points \in Nat /\ e.total = e.points
    <2>1. PICK m \in M : e = scoredMonastery(m, pts[m])
      OBVIOUS
    <2> QED BY <1>4, <2>1
  <1>6. IsFiniteSet({scoredMonastery(m, pts[m]) : m \in M})
    BY <1>2, <1>3, Zenon
  <1> QED BY <1>5, <1>6, Zenon DEF Payable

LEMMA PayableUnion ==
  ASSUME NEW A, NEW B, Payable(A), Payable(B) PROVE Payable(A \cup B)
  BY FS_Union DEF Payable

\* Roads and cities among what is scored.
LEMMA FeaturesPay ==
  ASSUME NEW s, BoardSound(s.board), NEW refs \in SUBSET placedZones(s.board),
         NEW E \in SUBSET {buildFeature(s.board, ref) : ref \in refs},
         NEW ppt \in [E -> Nat]
  PROVE  Payable({scoredFeature(s, f, ppt[f]) : f \in E})
  <1>1. IsFiniteSet(E)
    <2>1. PICK X : X = {buildFeature(s.board, ref) : ref \in refs}
      OBVIOUS
    <2>2. IsFiniteSet(X) /\ E \in SUBSET X
      BY <2>1, FeaturesFinite, Zenon
    <2> QED BY <2>2, FS_Subset
  <1>2. PICK g : g = [f \in E |-> scoredFeature(s, f, ppt[f])]
    OBVIOUS
  <1>3. IsFiniteSet({g[f] : f \in E})
    BY <1>1, ImageFinite
  <1>4. {g[f] : f \in E} = {scoredFeature(s, f, ppt[f]) : f \in E}
    BY <1>2
  <1>5. ASSUME NEW f \in E
        PROVE  /\ scoredFeature(s, f, ppt[f]).points \in Nat
               /\ scoredFeature(s, f, ppt[f]).total = scoredFeature(s, f, ppt[f]).points
    <2>1. f.zones \subseteq placedZones(s.board)
      BY FeatureZones
    <2> QED BY <2>1, FeaturePays
  <1> QED BY <1>3, <1>4, <1>5 DEF Payable

\* What the end of a turn scores, and what the end of the match does.
LEMMA TurnPays ==
  ASSUME NEW s, BoardSound(s.board), s.last \in DOMAIN s.board, IsFiniteSet(s.meeples)
  PROVE  Payable(scoreCompletedFeatures(s) \cup scoreCompletedMonasteries(s))
  <1> DEFINE refs == lastPlacedZoneRefsByType(s, {"road", "city"})
             E == completedFeatures(s)
  <1>1. refs \in SUBSET placedZones(s.board)
    BY DEF lastPlacedZoneRefsByType, placedZones
  <1>2. E \in SUBSET {buildFeature(s.board, ref) : ref \in refs}
    BY Zenon DEF completedFeatures
  <1>3. \A f : completedPointsPerTile(s.board, f) \in Nat
    BY DEF completedPointsPerTile
  <1> HIDE DEF refs, E
  <1>4. PICK ppt : ppt = [f \in E |-> completedPointsPerTile(s.board, f)]
    OBVIOUS
  <1>5. ppt \in [E -> Nat]
    BY <1>3, <1>4
  <1>6. Payable({scoredFeature(s, f, ppt[f]) : f \in E})
    BY <1>1, <1>2, <1>5, FeaturesPay
  <1>7. {scoredFeature(s, f, ppt[f]) : f \in E} = scoreCompletedFeatures(s)
    <2>1. \A f \in E : scoredFeature(s, f, ppt[f])
                         = scoredFeature(s, f, completedPointsPerTile(s.board, f))
      BY <1>4
    <2> QED BY <2>1 DEF scoreCompletedFeatures, E
  <1>8. Payable(scoreCompletedMonasteries(s))
    <2>1. IsFiniteSet(surrounded(s))
      BY FS_Subset DEF surrounded
    <2>2. PICK pts : pts = [m \in surrounded(s) |-> 9]
      OBVIOUS
    <2>3. pts \in [surrounded(s) -> Nat]
      BY <2>2
    <2>4. Payable({scoredMonastery(m, pts[m]) : m \in surrounded(s)})
      BY <2>1, <2>3, MonasteriesPay
    <2>5. {scoredMonastery(m, pts[m]) : m \in surrounded(s)} = scoreCompletedMonasteries(s)
      BY <2>2 DEF scoreCompletedMonasteries
    <2> QED BY <2>4, <2>5
  <1>9. Payable(scoreCompletedFeatures(s))
    BY <1>6, <1>7, Zenon
  <1> QED BY <1>8, <1>9, PayableUnion

LEMMA FieldPays ==
  ASSUME NEW s, BoardSound(s.board), NEW root, root \subseteq placedZones(s.board)
  PROVE  scoredField(s, root).points \in Nat
         /\ scoredField(s, root).total = scoredField(s, root).points
  <1> DEFINE b == s.board
             cities == UNION {adjacentCityZoneRefs(b, ref) : ref \in root}
             n == Cardinality(fieldCompletedCities(b, root))
  <1>1. cities \in SUBSET placedZones(b)
    <2>1. \A ref \in placedZones(b) : adjacentCityZoneRefs(b, ref) \subseteq placedZones(b)
      BY DEF adjacentCityZoneRefs, placedZones
    <2> QED BY <2>1
  <1>2. IsFiniteSet({buildFeature(b, city) : city \in cities})
    BY <1>1, FeaturesFinite
  <1>3. fieldCompletedCities(b, root) \in SUBSET {buildFeature(b, city) : city \in cities}
    BY Zenon DEF fieldCompletedCities
  <1>4. n \in Nat
    BY <1>2, <1>3, FS_Subset, FS_CardinalityType
  <1>5. scoredField(s, root).points = 3 * n /\ scoredField(s, root).total = 3 * n
    BY DEF scoredField, scored
  <1> HIDE DEF n
  <1> QED BY <1>4, <1>5

\* Meeples stand on zones.
Standing(s) == \A m \in s.meeples : <<m.cell, m.zone>> \in placedZones(s.board)

LEMMA FinalPays ==
  ASSUME NEW s, BoardSound(s.board), IsFiniteSet(s.meeples), Standing(s)
  PROVE  Payable(finalEvents(s))
  <1> DEFINE b == s.board
             onFeatures == {n \in s.meeples : meepleZone(s, n).type \in {"road", "city"}}
             monks == {n \in s.meeples : meepleZone(s, n).type = "monastery"}
             refs == {<<m.cell, m.zone>> : m \in onFeatures}
             E == finalOccupiedFeatures(s)
             Q == finalOccupiedFields(s)
             EF == {scoredFeature(s, f, finalPointsPerTile(b, f)) : f \in E}
             EM == {scoredMonastery(m, 1 + adjacentTileCount(b, m.cell)) : m \in monks}
             EQ == {scoredField(s, root) : root \in Q}
  <1>1. refs \in SUBSET placedZones(b)
    BY DEF Standing
  <1>2. E = {buildFeature(b, ref) : ref \in refs}
    BY DEF finalOccupiedFeatures
  <1>3. ASSUME NEW f \in E PROVE finalPointsPerTile(b, f) \in Nat
    <2>1. PICK m \in onFeatures : f = buildFeature(b, <<m.cell, m.zone>>)
      BY DEF finalOccupiedFeatures
    <2>2. typeOf(b, <<m.cell, m.zone>>) \in {"road", "city"}
      BY <2>1 DEF meepleZone, typeOf
    <2>3. f.type \in {"road", "city"}
      BY <2>1, <2>2 DEF buildFeature, featureOf
    <2> QED BY <2>3 DEF finalPointsPerTile
  <1> HIDE DEF E, refs
  <1>4. Payable(EF)
    <2>1. PICK ppt : ppt = [f \in E |-> finalPointsPerTile(b, f)]
      OBVIOUS
    <2>2. ppt \in [E -> Nat]
      BY <1>3, <2>1
    <2>3. E \in SUBSET {buildFeature(b, ref) : ref \in refs}
      BY <1>2
    <2>4. Payable({scoredFeature(s, f, ppt[f]) : f \in E})
      BY <1>1, <2>2, <2>3, FeaturesPay
    <2>5. {scoredFeature(s, f, ppt[f]) : f \in E} = EF
      BY <2>1
    <2> QED BY <2>4, <2>5, Zenon
  <1>5. Payable(EM)
    <2>1. IsFiniteSet(monks)
      BY FS_Subset
    <2>2. PICK pts : pts = [m \in monks |-> 1 + adjacentTileCount(b, m.cell)]
      OBVIOUS
    <2>3. \A m : 1 + adjacentTileCount(b, m.cell) \in Nat
      BY NeighboursCount
    <2> HIDE DEF monks
    <2>4. pts \in [monks -> Nat]
      BY <2>2, <2>3
    <2>5. Payable({scoredMonastery(m, pts[m]) : m \in monks})
      BY <2>1, <2>4, MonasteriesPay
    <2>6. {scoredMonastery(m, pts[m]) : m \in monks} = EM
      BY <2>2
    <2> QED BY <2>5, <2>6, Zenon
  <1>6. Payable(EQ)
    <2>1. Q \in SUBSET buildFieldGraph(b)
      BY DEF finalOccupiedFields
    <2>2. IsFiniteSet(Q) /\ \A root \in Q : root \subseteq placedZones(b)
      BY <2>1, FieldsOnBoard, FS_Subset
    <2> HIDE DEF Q
    <2>3. PICK g : g = [root \in Q |-> scoredField(s, root)]
      OBVIOUS
    <2>4. IsFiniteSet({g[root] : root \in Q})
      BY <2>2, ImageFinite
    <2>5. {g[root] : root \in Q} = EQ
      BY <2>3
    <2>6. \A root \in Q : scoredField(s, root).points \in Nat
                          /\ scoredField(s, root).total = scoredField(s, root).points
      BY <2>2, FieldPays
    <2> QED BY <2>4, <2>5, <2>6 DEF Payable
  <1>7. finalEvents(s) = EF \cup EM \cup EQ
    BY Zenon DEF finalEvents, E
  <1> HIDE DEF EF, EM, EQ
  <1>8. Payable(EF \cup EM)
    BY <1>4, <1>5, PayableUnion
  <1> QED BY <1>6, <1>7, <1>8, PayableUnion

-----------------------------------------------------------------------------
(* The shape of a state *)

\* A state is a record of these fields.
IsState(s) ==
  s = [board |-> s.board, meeples |-> s.meeples, deck |-> s.deck, current |-> s.current,
       last |-> s.last, score |-> s.score, left |-> s.left, phase |-> s.phase,
       player |-> s.player, turn |-> s.turn, result |-> s.result, ok |-> s.ok]

\* The meeples of a state: as many as each player was given.
Counted(s, given) ==
  /\ IsFiniteSet(s.meeples)
  /\ s.left \in [Players -> [MeepleTypes -> Nat]]
  /\ \A p \in Players, type \in MeepleTypes :
       s.left[p][type] + Cardinality(heldBy(s.meeples, p, type)) = given[type]

\* Meeples stand on placed tiles, and none on the tile that is being played: it is
\* what makes the meeple that is put down a new one.
OnBoard(s) ==
  /\ \A m \in s.meeples : m.cell \in DOMAIN s.board
  /\ s.phase = "place_meeple" =>
       s.last \in DOMAIN s.board /\ \A m \in s.meeples : m.cell # s.last

Turned(s) ==
  /\ s.phase \in {"place_tile", "place_meeple", "finished"}
  /\ s.phase = "finished" <=> s.player = NoPlayer
  /\ s.phase # "finished" => s.player \in Players

IInv == IsState(state) /\ Counted(state, setup.meeples) /\ OnBoard(state) /\ Turned(state)

-----------------------------------------------------------------------------
(* Meeples *)

\* What is taken from a finite set and what stays make up the whole, per player and kind.
LEMMA HeldSplits ==
  ASSUME NEW M, IsFiniteSet(M), NEW R \in SUBSET M, NEW p, NEW type
  PROVE  /\ Cardinality(heldBy(R, p, type)) \in Nat
         /\ Cardinality(heldBy(M \ R, p, type)) \in Nat
         /\ Cardinality(heldBy(M, p, type))
              = Cardinality(heldBy(R, p, type)) + Cardinality(heldBy(M \ R, p, type))
  <1> DEFINE A == heldBy(R, p, type)
             B == heldBy(M \ R, p, type)
  <1>1. IsFiniteSet(A) /\ IsFiniteSet(B)
    BY FS_Subset DEF heldBy
  <1>2. A \cap B = {} /\ A \cup B = heldBy(M, p, type)
    BY DEF heldBy
  <1>3. Cardinality(A) \in Nat /\ Cardinality(B) \in Nat
    BY <1>1, FS_CardinalityType
  <1> HIDE DEF A, B
  <1>4. Cardinality(A \cap B) = 0
    BY <1>2, FS_EmptySet
  <1>5. Cardinality(A \cup B) = Cardinality(A) + Cardinality(B) - Cardinality(A \cap B)
    BY <1>1, FS_Union
  <1>6. Cardinality(heldBy(M, p, type)) = Cardinality(A \cup B)
    BY <1>2, Zenon
  <1> QED BY <1>3, <1>4, <1>5, <1>6 DEF A, B

\* Meeples that leave the board come back to those who put them there.
LEMMA ReturnCounts ==
  ASSUME NEW s, NEW given, Counted(s, given), NEW R \in SUBSET s.meeples,
         NEW t, t.left = incrementMeeples(s.left, R), t.meeples = s.meeples \ R
  PROVE  Counted(t, given)
  <1>0. IsFiniteSet(s.meeples) /\ t.meeples = s.meeples \ R
    BY DEF Counted
  <1>1. IsFiniteSet(t.meeples)
    BY <1>0, FS_Difference
  <1>2. \A p \in Players, type \in MeepleTypes :
          /\ Cardinality(heldBy(R, p, type)) \in Nat
          /\ Cardinality(heldBy(t.meeples, p, type)) \in Nat
          /\ Cardinality(heldBy(s.meeples, p, type))
               = Cardinality(heldBy(R, p, type)) + Cardinality(heldBy(t.meeples, p, type))
    BY <1>0, HeldSplits
  <1>3. \A p \in Players, type \in MeepleTypes :
          t.left[p][type] = s.left[p][type] + Cardinality(heldBy(R, p, type))
    BY DEF incrementMeeples
  <1>4. t.left \in [Players -> [MeepleTypes -> Nat]]
    BY <1>2 DEF incrementMeeples, Counted
  <1>5. \A p \in Players, type \in MeepleTypes : s.left[p][type] \in Nat
    BY DEF Counted
  <1>6. \A p \in Players, type \in MeepleTypes :
          t.left[p][type] + Cardinality(heldBy(t.meeples, p, type)) = given[type]
    <2> TAKE p \in Players, type \in MeepleTypes
    <2>1. s.left[p][type] + Cardinality(heldBy(s.meeples, p, type)) = given[type]
      BY DEF Counted
    <2> DEFINE h == s.left[p][type]
               l == t.left[p][type]
               a == Cardinality(heldBy(s.meeples, p, type))
               r == Cardinality(heldBy(R, p, type))
               b == Cardinality(heldBy(t.meeples, p, type))
    <2>2. r \in Nat /\ b \in Nat /\ a = r + b /\ l = h + r /\ h \in Nat
      BY <1>2, <1>3, <1>5, Zenon
    <2> HIDE DEF h, l, a, r, b
    <2>3. h + a = given[type]
      BY <2>1 DEF h, a
    <2>4. l + b = h + a
      BY <2>2
    <2> QED BY <2>3, <2>4 DEF l, b
  <1> QED BY <1>1, <1>4, <1>6 DEF Counted

\* What a step of the scoring keeps: everything but points and meeples, which it counts.
Settled(s, t, given) ==
  /\ IsState(t) /\ Counted(t, given)
  /\ t.meeples \subseteq s.meeples
  /\ t.board = s.board /\ t.phase = s.phase /\ t.player = s.player /\ t.turn = s.turn

LEMMA SettleSettles ==
  ASSUME NEW s, NEW given, NEW features, IsState(s), Counted(s, given)
  PROVE  Settled(s, settle(s, features), given)
  <1> DEFINE R == s.meeples \cap UNION {f.meeples : f \in features}
             t == settle(s, features)
             u == applyScores(s, features)
  <1>1. PICK S, o : u = [s EXCEPT !.score = S, !.ok = o]
    BY Zenon DEF applyScores
  <1> DEFINE L == incrementMeeples(s.left, R)
             M == s.meeples \ R
  <1>2. t = [u EXCEPT !.left = L, !.meeples = M]
    BY Zenon DEF settle
  <1> HIDE DEF R, t, u, L, M
  <1>3. /\ IsState(u)
        /\ u.board = s.board /\ u.phase = s.phase /\ u.player = s.player /\ u.turn = s.turn
    BY <1>1 DEF IsState
  <1>4. /\ IsState(t) /\ t.left = L /\ t.meeples = M
        /\ t.board = s.board /\ t.phase = s.phase /\ t.player = s.player /\ t.turn = s.turn
    BY <1>2, <1>3 DEF IsState
  <1>5. R \in SUBSET s.meeples
    BY DEF R
  <1>6. Counted(t, given)
    BY <1>4, <1>5, ReturnCounts DEF L, M
  <1> QED BY <1>4, <1>6 DEF Settled, t, M

LEMMA ScoreTurnSettles ==
  ASSUME NEW s, NEW given, IsState(s), Counted(s, given)
  PROVE  Settled(s, scoreTurn(s), given)
  BY SettleSettles, Zenon DEF scoreTurn

-----------------------------------------------------------------------------
(* The end of a turn *)

\* What the end of a turn does to the players: the next one follows, or none.
Passed(s, t) ==
  \/ t.phase = "place_tile" /\ t.player = nextPlayer(s.player) /\ t.turn = s.turn + 1
  \/ t.phase = "finished" /\ t.player = NoPlayer /\ t.turn = s.turn

LEMMA FinishCounts ==
  ASSUME NEW s, NEW given, IsState(s), Counted(s, given)
  PROVE  LET t == finish(scoreFinalFeatures(s)) IN
         /\ IsState(t) /\ Counted(t, given) /\ t.meeples = {} /\ Passed(s, t)
  <1> DEFINE u == applyScores(s, finalEvents(s))
             f == scoreFinalFeatures(s)
             L == incrementMeeples(s.left, s.meeples)
  <1>1. PICK S, o : u = [s EXCEPT !.score = S, !.ok = o]
    BY Zenon DEF applyScores
  <1>2. f = [u EXCEPT !.left = L, !.meeples = {}]
    BY Zenon DEF scoreFinalFeatures
  <1> DEFINE t == finish(f)
  <1>3. PICK w : t = [f EXCEPT !.result = w, !.phase = "finished", !.player = NoPlayer,
                               !.current = NoTile, !.last = NoCell]
    BY Zenon DEF finish
  <1> HIDE DEF u, f, L, t
  <1>4. IsState(u) /\ u.turn = s.turn
    BY <1>1 DEF IsState
  <1>5. IsState(f) /\ f.left = L /\ f.meeples = {} /\ f.turn = s.turn
    BY <1>2, <1>4 DEF IsState
  <1>6. /\ IsState(t) /\ t.left = L /\ t.meeples = {} /\ t.turn = s.turn
        /\ t.phase = "finished" /\ t.player = NoPlayer
    BY <1>3, <1>5 DEF IsState
  <1>7. s.meeples \in SUBSET s.meeples /\ t.meeples = s.meeples \ s.meeples
    BY <1>6
  <1>8. Counted(t, given)
    BY <1>6, <1>7, ReturnCounts, Zenon DEF L
  <1> QED BY <1>6, <1>8 DEF t, f, Passed

LEMMA NextTurnCounts ==
  ASSUME NEW s, NEW given, NEW i, IsState(s), Counted(s, given)
  PROVE  /\ IsState(nextTurn(s, i)) /\ Counted(nextTurn(s, i), given)
         /\ nextTurn(s, i).meeples = s.meeples /\ nextTurn(s, i).board = s.board
         /\ Passed(s, nextTurn(s, i))
  <1> DEFINE t == nextTurn(s, i)
             c == s.deck[i]
             d == withoutDrawn(s.deck, i)
             p == nextPlayer(s.player)
             n == s.turn + 1
  <1>1. t = [s EXCEPT !.current = c, !.deck = d, !.last = NoCell, !.player = p, !.turn = n,
                      !.phase = "place_tile"]
    BY Zenon DEF nextTurn
  <1> HIDE DEF t, c, d, p, n
  <1>2. /\ IsState(t) /\ t.left = s.left /\ t.meeples = s.meeples /\ t.board = s.board
        /\ t.player = p /\ t.turn = n /\ t.phase = "place_tile"
    BY <1>1 DEF IsState
  <1>3. Counted(t, given)
    BY <1>2 DEF Counted
  <1> QED BY <1>2, <1>3 DEF t, p, n, Passed

LEMMA ResolveTurnCounts ==
  ASSUME NEW s, NEW given, IsState(s), Counted(s, given),
         \A m \in s.meeples : m.cell \in DOMAIN s.board
  PROVE  /\ IsState(resolveTurn(s)) /\ Counted(resolveTurn(s), given)
         /\ \A m \in resolveTurn(s).meeples : m.cell \in DOMAIN resolveTurn(s).board
         /\ Passed(s, resolveTurn(s))
  <1> DEFINE u == scoreTurn(s)
             t == completeTurnAndDrawNextTile(u)
  <1>1. Settled(s, u, given)
    BY ScoreTurnSettles
  <1>2. t = finish(scoreFinalFeatures(u)) \/ \E i : t = nextTurn(u, i)
    BY Zenon DEF completeTurnAndDrawNextTile
  <1>3. resolveTurn(s) = t
    BY Zenon DEF resolveTurn
  <1> HIDE DEF u, t
  <1>4. IsState(u) /\ Counted(u, given) /\ \A m \in u.meeples : m.cell \in DOMAIN u.board
    BY <1>1 DEF Settled
  <1>5. /\ IsState(t) /\ Counted(t, given) /\ Passed(u, t)
        /\ \A m \in t.meeples : m.cell \in DOMAIN t.board
    <2>1. CASE t = finish(scoreFinalFeatures(u))
      BY <2>1, <1>4, FinishCounts
    <2>2. ASSUME NEW i, t = nextTurn(u, i)
                 PROVE  /\ IsState(t) /\ Counted(t, given) /\ Passed(u, t)
                        /\ \A m \in t.meeples : m.cell \in DOMAIN t.board
      BY <2>2, <1>4, NextTurnCounts
    <2> QED BY <1>2, <2>1, <2>2
  <1>6. Passed(s, t)
    BY <1>1, <1>5 DEF Passed, Settled
  <1> QED BY <1>3, <1>5, <1>6

-----------------------------------------------------------------------------
(* The moves *)

LEMMA NextPlayerSits == \A p : nextPlayer(p) \in Players
  <1> TAKE p
  <1>1. Len(Seats) \in Nat \ {0} /\ \A i \in 1..Len(Seats) : Seats[i] \in Players
    BY SeatsAssumption
  <1>2. CASE p \in Players
    <2>1. \E i \in 1..Len(Seats) : Seats[i] = p
      BY <1>2 DEF Players
    <2>2. seatOf(p) \in 1..Len(Seats)
      BY <2>1 DEF seatOf
    <2>3. (seatOf(p) % Len(Seats)) + 1 \in 1..Len(Seats)
      BY <1>1, <2>2
    <2> QED BY <1>1, <1>2, <2>3 DEF nextPlayer
  <1>3. CASE p \notin Players
    BY <1>1, <1>3 DEF nextPlayer
  <1> QED BY <1>2, <1>3

LEMMA PutTileKeeps ==
  ASSUME NEW s, NEW given, NEW cell, NEW rotation, IsState(s), Counted(s, given), OnBoard(s),
         cell \notin DOMAIN s.board
  PROVE  LET t == putTile(s, cell, rotation) IN
         /\ IsState(t) /\ Counted(t, given) /\ OnBoard(t)
         /\ t.phase = "place_meeple" /\ t.player = s.player /\ t.turn = s.turn
  <1> DEFINE t == putTile(s, cell, rotation)
             b == placed(s.board, cell, s.current, rotation)
  <1>1. t = [s EXCEPT !.board = b, !.last = cell, !.current = NoTile, !.phase = "place_meeple"]
    BY Zenon DEF putTile
  <1>2. DOMAIN b = DOMAIN s.board \cup {cell}
    BY DEF placed
  <1> HIDE DEF t, b
  <1>3. /\ IsState(t) /\ t.board = b /\ t.last = cell /\ t.phase = "place_meeple"
        /\ t.meeples = s.meeples /\ t.left = s.left /\ t.player = s.player /\ t.turn = s.turn
    BY <1>1 DEF IsState
  <1>4. Counted(t, given)
    BY <1>3 DEF Counted
  <1>5. OnBoard(t)
    BY <1>2, <1>3 DEF OnBoard
  <1> QED BY <1>3, <1>4, <1>5 DEF t

\* The meeple that is put down is on no tile yet: the set grows by one.
LEMMA PutMeepleCounts ==
  ASSUME NEW s, NEW given, NEW actor \in Players, NEW place,
         IsState(s), Counted(s, given), OnBoard(s), s.phase = "place_meeple",
         place.type \in MeepleTypes, s.left[actor][place.type] > 0
  PROVE  LET t == putMeeple(s, actor, place) IN
         /\ IsState(t) /\ Counted(t, given)
         /\ \A m \in t.meeples : m.cell \in DOMAIN t.board
         /\ t.player = s.player /\ t.turn = s.turn
  <1> DEFINE t == putMeeple(s, actor, place)
             new == [cell |-> s.last, zone |-> place.zone, actor |-> actor, type |-> place.type]
             M == s.meeples \cup {new}
             L == [s.left EXCEPT ![actor][place.type] = @ - 1]
  <1>1. t = [s EXCEPT !.meeples = M, !.left = L]
    BY Zenon DEF putMeeple
  <1>2. new \notin s.meeples /\ s.last \in DOMAIN s.board
    BY DEF OnBoard
  <1>3. \A m \in M : m.cell \in DOMAIN s.board
    BY <1>2 DEF OnBoard
  <1>4. IsFiniteSet(M)
    BY FS_AddElement DEF Counted
  <1>5. L \in [Players -> [MeepleTypes -> Nat]]
    BY DEF Counted
  <1>6. \A p \in Players, type \in MeepleTypes :
          L[p][type] + Cardinality(heldBy(M, p, type)) = given[type]
    <2> TAKE p \in Players, type \in MeepleTypes
    <2> DEFINE H == heldBy(s.meeples, p, type)
    <2>1. /\ IsFiniteSet(H) /\ Cardinality(H) \in Nat
      <3>1. IsFiniteSet(s.meeples) /\ H \in SUBSET s.meeples
        BY DEF Counted, heldBy
      <3>2. IsFiniteSet(H)
        BY <3>1, FS_Subset
      <3> QED BY <3>2, FS_CardinalityType
    <2>2. s.left[p][type] + Cardinality(H) = given[type] /\ s.left[p][type] \in Nat
      BY DEF Counted
    <2>3. CASE p = actor /\ type = place.type
      <3>1. heldBy(M, p, type) = H \cup {new} /\ new \notin H
        BY <2>3, <1>2 DEF heldBy
      <3>2. Cardinality(H \cup {new}) = Cardinality(H) + 1
        BY <2>1, <3>1, FS_AddElement
      <3>3. Cardinality(heldBy(M, p, type)) = Cardinality(H) + 1
        BY <3>1, <3>2, Zenon
      <3>4. L[p][type] = s.left[p][type] - 1
        BY <2>3 DEF Counted
      <3> HIDE DEF H, M, L
      <3> QED BY <2>1, <2>2, <3>3, <3>4
    <2>4. CASE ~(p = actor /\ type = place.type)
      <3>1. heldBy(M, p, type) = H
        BY <2>4 DEF heldBy
      <3>2. L[p][type] = s.left[p][type]
        BY <2>4 DEF Counted
      <3> HIDE DEF H, M, L
      <3> QED BY <2>2, <3>1, <3>2, Zenon
    <2> QED BY <2>3, <2>4
  <1> HIDE DEF t, M, L, new
  <1>7. /\ IsState(t) /\ t.meeples = M /\ t.left = L /\ t.board = s.board
        /\ t.player = s.player /\ t.turn = s.turn
    BY <1>1 DEF IsState
  <1>8. Counted(t, given)
    BY <1>4, <1>5, <1>6, <1>7 DEF Counted
  <1> QED BY <1>3, <1>7, <1>8 DEF t

-----------------------------------------------------------------------------
(* The match *)

LEMMA InitIInv == Init => IInv
  <1> SUFFICES ASSUME Init PROVE IInv
    OBVIOUS
  <1> DEFINE s == BuildInitialMatch(setup)
             b == [c \in {<<0, 0>>} |-> [tile |-> StartTile, rotation |-> 0]]
             z == [p \in Players |-> 0]
             l == [p \in Players |-> setup.meeples]
             fresh == [board |-> b, meeples |-> {}, deck |-> setup.deck, current |-> NoTile,
                       last |-> NoCell, score |-> z, left |-> l, phase |-> "place_tile",
                       player |-> Seats[1], turn |-> 1, result |-> {}, ok |-> TRUE]
  <1>1. \/ s = [fresh EXCEPT !.phase = "finished", !.player = NoPlayer, !.result = Players]
        \/ \E c, d : s = [fresh EXCEPT !.current = c, !.deck = d]
    BY Zenon DEF BuildInitialMatch
  <1>2. Seats[1] \in Players /\ NoPlayer \notin Players
    BY SeatsAssumption
  <1>3. l \in [Players -> [MeepleTypes -> Nat]]
    BY SetupAssumption DEF Init
  <1>4. \A p \in Players, type \in MeepleTypes : l[p][type] + 0 = setup.meeples[type]
    BY <1>3
  <1>5. \A p, type : heldBy({}, p, type) = {}
    BY DEF heldBy
  <1> HIDE DEF b, z, l
  <1>6. /\ IsState(s) /\ s.left = l /\ s.meeples = {}
        /\ \/ s.phase = "finished" /\ s.player = NoPlayer
           \/ s.phase = "place_tile" /\ s.player = Seats[1]
    <2> HIDE DEF s
    <2>1. CASE s = [fresh EXCEPT !.phase = "finished", !.player = NoPlayer, !.result = Players]
      BY <2>1 DEF IsState
    <2>2. ASSUME NEW c, NEW d, s = [fresh EXCEPT !.current = c, !.deck = d]
          PROVE  /\ IsState(s) /\ s.left = l /\ s.meeples = {}
                 /\ s.phase = "place_tile" /\ s.player = Seats[1]
      BY <2>2 DEF IsState
    <2> QED BY <1>1, <2>1, <2>2
  <1> HIDE DEF s
  <1>7. Counted(s, setup.meeples)
    BY <1>3, <1>4, <1>5, <1>6, FS_EmptySet DEF Counted
  <1>8. OnBoard(s) /\ Turned(s)
    BY <1>2, <1>6 DEF OnBoard, Turned
  <1>9. state = s
    BY DEF Init, s
  <1> QED BY <1>6, <1>7, <1>8, <1>9 DEF IInv

\* What one step does to the turn.
Turns ==
  \/ /\ state.phase = "place_tile" /\ state'.phase = "place_meeple"
     /\ state'.player = state.player /\ state'.turn = state.turn
  \/ state.phase # "finished" /\ Passed(state, state')

LEMMA PassedOn ==
  ASSUME IInv, NEW s, IsState(s), Counted(s, setup.meeples),
         \A m \in s.meeples : m.cell \in DOMAIN s.board,
         s.player = state.player, s.turn = state.turn, state.phase # "finished",
         state' = resolveTurn(s), UNCHANGED setup
  PROVE  IInv' /\ Turns
  <1>1. /\ IsState(state') /\ Counted(state', setup.meeples) /\ Passed(s, state')
        /\ \A m \in state'.meeples : m.cell \in DOMAIN state'.board
    BY ResolveTurnCounts
  <1>2. Passed(state, state')
    BY <1>1 DEF Passed
  <1>3. OnBoard(state')
    BY <1>1 DEF OnBoard, Passed
  <1>4. Turned(state')
    BY <1>2, NextPlayerSits, SeatsAssumption DEF Turned, Passed
  <1> QED BY <1>1, <1>2, <1>3, <1>4 DEF IInv, Turns

LEMMA PlaceTileKeeps ==
  ASSUME IInv, NEW cell, NEW rotation, PlaceTile(cell, rotation)
  PROVE  IInv' /\ Turns
  <1>1. cell \notin DOMAIN state.board
    BY Zenon DEF PlaceTile, canPlaceTile
  <1>2. state' = putTile(state, cell, rotation) /\ setup' = setup /\ state.phase = "place_tile"
    BY DEF PlaceTile, Store
  <1>3. /\ IsState(state') /\ Counted(state', setup.meeples) /\ OnBoard(state')
        /\ state'.phase = "place_meeple" /\ state'.player = state.player
        /\ state'.turn = state.turn
    BY <1>1, <1>2, PutTileKeeps DEF IInv
  <1>4. Turned(state')
    BY <1>2, <1>3 DEF IInv, Turned
  <1> QED BY <1>2, <1>3, <1>4 DEF IInv, Turns

LEMMA PlaceMeepleKeeps == ASSUME IInv, NEW place, PlaceMeeple(place) PROVE IInv' /\ Turns
  <1> DEFINE s == putMeeple(state, state.player, place)
  <1>1. /\ state.phase = "place_meeple"
        /\ place.type \in MeepleTypes /\ state.left[state.player][place.type] > 0
    BY Zenon DEF PlaceMeeple, canPlaceMeeple
  <1>2. state' = resolveTurn(s) /\ UNCHANGED setup
    BY DEF PlaceMeeple, Store
  <1>3. state.player \in Players
    BY <1>1 DEF IInv, Turned
  <1>4. /\ IsState(s) /\ Counted(s, setup.meeples)
        /\ \A m \in s.meeples : m.cell \in DOMAIN s.board
        /\ s.player = state.player /\ s.turn = state.turn
    BY <1>1, <1>3, PutMeepleCounts DEF IInv
  <1> HIDE DEF s
  <1> QED BY <1>1, <1>2, <1>4, PassedOn

LEMMA SkipMeepleKeeps == ASSUME IInv, SkipMeeple PROVE IInv' /\ Turns
  <1>1. state' = resolveTurn(state) /\ UNCHANGED setup /\ state.phase = "place_meeple"
    BY DEF SkipMeeple, Store
  <1> QED BY <1>1, PassedOn DEF IInv, OnBoard

LEMMA TimeoutKeeps == ASSUME IInv, ApplyTurnTimeout PROVE IInv' /\ Turns
  <1>1. PICK p \in timeoutChoices(state) : Store(timedOut(state, p), NoMeeple)
    BY DEF ApplyTurnTimeout
  <1>2. state' = timedOut(state, p) /\ UNCHANGED setup
    BY <1>1 DEF Store
  <1>3. CASE state.phase = "place_tile"
    <2> DEFINE s == putTile(state, p[1], p[2])
    <2>1. state' = resolveTurn(s)
      BY <1>2, <1>3, Zenon DEF timedOut
    <2>2. p \in validTilePlacements(state.board, state.current)
      BY <1>1, <1>3 DEF timeoutChoices
    <2>3. p[1] \notin DOMAIN state.board
      <3>1. canPlaceTile(state.board, state.current, p[1], p[2])
        BY <2>2 DEF validTilePlacements
      <3> QED BY <3>1, Zenon DEF canPlaceTile
    <2>4. /\ IsState(s) /\ Counted(s, setup.meeples) /\ OnBoard(s)
          /\ s.player = state.player /\ s.turn = state.turn
      BY <2>3, PutTileKeeps DEF IInv
    <2> HIDE DEF s
    <2> QED BY <1>2, <1>3, <2>1, <2>4, PassedOn DEF OnBoard
  <1>4. CASE state.phase = "place_meeple"
    <2>1. state' = resolveTurn(state)
      BY <1>2, <1>4, Zenon DEF timedOut
    <2> QED BY <1>2, <1>4, <2>1, PassedOn DEF IInv, OnBoard
  <1>5. CASE state.phase = "finished"
    BY <1>1, <1>5 DEF timeoutChoices
  <1> QED BY <1>3, <1>4, <1>5 DEF IInv, Turned

LEMMA NextKeeps == IInv /\ Next => IInv' /\ Turns
  <1> SUFFICES ASSUME IInv, Next PROVE IInv' /\ Turns
    OBVIOUS
  <1>1. \/ \E cell, rotation : PlaceTile(cell, rotation)
        \/ \E place : PlaceMeeple(place)
        \/ SkipMeeple
        \/ ApplyTurnTimeout
    BY Zenon DEF Next
  <1> QED BY <1>1, PlaceTileKeeps, PlaceMeepleKeeps, SkipMeepleKeeps, TimeoutKeeps

LEMMA NextIInv == IInv /\ [Next]_vars => IInv'
  BY NextKeeps DEF vars, IInv

\* Whatever the catalogue, the seats and the number of meeples: placing, scoring and the
\* end of the match (putMeeple, returnMeeplesForFeature, returnAllMeeples) neither lose
\* nor make a meeple.
THEOREM MeeplesAreConserved == Spec => []MeeplesConserved
  <1>1. IInv => MeeplesConserved
    BY DEF IInv, Counted, MeeplesConserved
  <1> QED BY InitIInv, NextIInv, <1>1, PTL DEF Spec

\* A state of TurnMachine.
r(phase, player, turn, deck) ==
  [version |-> 1, phase |-> phase, turn |-> turn, player |-> player, deck |-> deck]

LEMMA Drawn ==
  ASSUME NEW phase, NEW p \in Players, NEW n
  PROVE  TM!resolveTurn(r(phase, p, n, 1)) = r("place_tile", nextPlayer(p), n + 1, 0)
  <1> DEFINE x == r(phase, p, n, 1)
             t == TM!resolveTurn(x)
             q == nextPlayer(p)
             f == [o \in Players |-> nextPlayer(o)]
  <1>1. f[p] = q
    OBVIOUS
  <1>2. x.deck = 1 /\ x.player = p /\ x.turn = n
    BY DEF r
  <1>3. x.deck # 0 /\ x.deck - 1 = 0
    BY <1>2
  <1>4. f[x.player] = q /\ x.player \in Players /\ x.turn + 1 = n + 1
    BY <1>1, <1>2, Zenon
  <1>5. t = [x EXCEPT !.phase = "place_tile", !.turn = n + 1, !.deck = 0, !.player = q]
    <2>1. t = [x EXCEPT !.phase = "place_tile", !.turn = x.turn + 1, !.deck = x.deck - 1,
                        !.player = q]
      <3> HIDE DEF x, q
      <3> QED BY <1>3, <1>4, Zenon DEF TM!resolveTurn
    <2> HIDE DEF x, q, t
    <2> QED BY <2>1, <1>3, <1>4, Zenon
  <1> HIDE DEF t, q
  <1>6. t = r("place_tile", q, n + 1, 0)
    BY <1>5 DEF r
  <1> QED BY <1>6 DEF t, q

LEMMA TimedOutTurn ==
  ASSUME NEW phase, NEW p \in Players, NEW n
  PROVE  TM!ApplyTurnTimeout(r(phase, p, n, 1)) = r("place_tile", nextPlayer(p), n + 1, 0)
  <1>1. CASE phase = "place_tile"
    <2>1. TM!placeTile(r(phase, p, n, 1)) = r("place_meeple", p, n, 1)
      BY DEF TM!placeTile, r
    <2>2. TM!ApplyTurnTimeout(r(phase, p, n, 1)) = TM!resolveTurn(TM!placeTile(r(phase, p, n, 1)))
      <3>1. r(phase, p, n, 1).phase = "place_tile"
        BY <1>1 DEF r
      <3> QED BY <3>1, Zenon DEF TM!ApplyTurnTimeout
    <2> QED BY <2>1, <2>2, Drawn, Zenon
  <1>2. CASE phase # "place_tile"
    <2>1. r(phase, p, n, 1).phase # "place_tile"
      BY <1>2 DEF r
    <2> QED BY <2>1, Drawn, Zenon DEF TM!ApplyTurnTimeout
  <1> QED BY <1>1, <1>2

\* Every step of the engine is a step of TurnMachine: what the match service is proved
\* to do with that automaton (MatchActionsProofs) it does with the engine.
THEOREM TurnsInOrder == Spec => TurnOrder
  <1>1. IInv /\ Turns => TurnStep
    <2> SUFFICES ASSUME IInv, Turns PROVE TurnStep
      OBVIOUS
    <2>1. CASE state.phase = "place_tile" /\ state'.phase = "place_meeple"
      <3>1. TM!Verdict(turnState(state, 0), state.player, "place_tile") = "ok"
        BY <2>1 DEF TM!Verdict, turnState
      <3>2. turnState(state', 0) = TM!ApplyAction(turnState(state, 0), "place_tile")
        BY <2>1 DEF TM!ApplyAction, TM!placeTile, turnState, Turns, Passed
      <3> QED BY <3>1, <3>2 DEF TM!Moves, TurnStep
    <2>2. CASE state.phase # "finished" /\ Passed(state, state')
      <3>1. PICK deck \in 0..1 : turnState(state', 0) = TM!ApplyTurnTimeout(turnState(state, deck))
        <4>1. state.player \in Players
          BY <2>2 DEF IInv, Turned
        <4>2. CASE state'.phase = "finished"
          <5>1. turnState(state', 0) = TM!ApplyTurnTimeout(turnState(state, 0))
            BY <2>2, <4>2 DEF Passed, TM!ApplyTurnTimeout, TM!resolveTurn, TM!placeTile, turnState
          <5> QED BY <5>1
        <4>3. CASE state'.phase = "place_tile"
          <5>1. turnState(state', 0)
                  = r("place_tile", nextPlayer(state.player), state.turn + 1, 0)
            BY <2>2, <4>3 DEF Passed, turnState, r
          <5>2. turnState(state, 1) = r(state.phase, state.player, state.turn, 1)
            BY DEF turnState, r
          <5>3. turnState(state', 0) = TM!ApplyTurnTimeout(turnState(state, 1))
            BY <4>1, <5>1, <5>2, TimedOutTurn, Zenon
          <5> QED BY <5>3
        <4> QED BY <2>2, <4>2, <4>3 DEF Passed
      <3> QED BY <2>2, <3>1 DEF TurnStep
    <2> QED BY <2>1, <2>2 DEF Turns
  <1>2. IInv /\ [Next]_vars => [TurnStep]_vars
    BY <1>1, NextKeeps, Zenon
  <1> QED BY InitIInv, NextIInv, <1>2, PTL DEF Spec, TurnOrder

-----------------------------------------------------------------------------
(* A state through a turn *)

\* What a state has on the table and in its books.
Sound(s) ==
  /\ BoardSound(s.board) /\ EdgesMatch(s.board) /\ Standing(s)
  /\ s.score \in [Players -> Nat] /\ s.ok = TRUE
  /\ s.deck \in Seq(DOMAIN Catalog) /\ s.turn \in Nat \ {0}

\* What the phase says of the other fields.
Playing(s) ==
  /\ s.phase = "place_tile" <=> s.current # NoTile
  /\ s.phase = "place_meeple" <=> s.last # NoCell
  /\ s.phase = "finished" <=> s.result # {}
  /\ s.current # NoTile => s.current \in DOMAIN Catalog /\ hasAnyTilePlacement(s.board, s.current)
  /\ s.last # NoCell => s.last \in DOMAIN s.board

\* Every tile of a deck, once.
tilesOfKind(s, t) ==
  Cardinality(onBoard(s.board, t)) + Cardinality(inDeck(s.deck, t)) + (IF s.current = t THEN 1 ELSE 0)
Dealt(s, deck) == \A t \in DOMAIN Catalog : tilesOfKind(s, t) = Cardinality(inDeck(deck, t))

\* A state whose turn is to be resolved.
Ready(s) ==
  /\ IsState(s) /\ IsFiniteSet(s.meeples) /\ Sound(s)
  /\ s.last \in DOMAIN s.board /\ s.current = NoTile /\ s.result = {}

-----------------------------------------------------------------------------
(* Paying *)

LEMMA PlayersThere == Players # {}
  <1>1. Len(Seats) \in Nat \ {0}
    BY SeatsAssumption
  <1>2. 1 \in 1..Len(Seats)
    BY <1>1
  <1> QED BY <1>2, SeatsAssumption

LEMMA PlayersFinite == IsFiniteSet(Players)
  <1>1. IsFiniteSet(1..Len(Seats))
    BY SeatsAssumption, FS_Interval
  <1>2. PICK f : f = [i \in 1..Len(Seats) |-> Seats[i]]
    OBVIOUS
  <1>3. IsFiniteSet({f[i] : i \in 1..Len(Seats)})
    BY <1>1, ImageFinite
  <1>4. {f[i] : i \in 1..Len(Seats)} = Players
    BY <1>2 DEF Players
  <1> QED BY <1>3, <1>4

\* What is paid is added to the score, and nothing contradicts.
LEMMA PaidScores ==
  ASSUME NEW s, s.score \in [Players -> Nat], s.ok = TRUE, NEW E, Payable(E)
  PROVE  \E S \in [Players -> Nat] : applyScores(s, E) = [s EXCEPT !.score = S, !.ok = TRUE]
  <1> DEFINE won(p) == {f \in E : p \in f.winners}
             S == [p \in Players |-> s.score[p] + MapThenSumSet(LAMBDA f : f.points, won(p))]
             o == s.ok /\ \A f \in E : f.total = f.points
  <1>1. ASSUME NEW p \in Players PROVE S[p] \in Nat
    <2>1. PICK W : W = won(p)
      OBVIOUS
    <2>2. IsFiniteSet(W) /\ \A f \in W : f.points \in Nat
      BY <2>1, FS_Subset DEF Payable
    <2>3. PICK n : n = MapThenSumSet(LAMBDA f : f.points, W)
      OBVIOUS
    <2>4. n \in Nat
      BY <2>2, <2>3, PointsAddUp, Zenon
    <2>5. S[p] = s.score[p] + n
      BY <2>1, <2>3, Zenon
    <2>6. s.score[p] \in Nat
      OBVIOUS
    <2> HIDE DEF S
    <2> QED BY <2>4, <2>5, <2>6
  <1>2. o = TRUE
    BY DEF Payable
  <1>3. applyScores(s, E) = [s EXCEPT !.score = S, !.ok = o]
    BY Zenon DEF applyScores
  <1>4. S \in [Players -> Nat]
    <2>1. S = [p \in Players |-> S[p]]
      OBVIOUS
    <2> HIDE DEF S
    <2> QED BY <1>1, <2>1
  <1> HIDE DEF S, o
  <1> QED BY <1>2, <1>3, <1>4, Zenon

\* The scoring of a turn leaves what it does not pay for.
LEMMA ScoredTurn ==
  ASSUME NEW s, Ready(s)
  PROVE  LET u == scoreTurn(s) IN
         /\ Ready(u) /\ u.board = s.board /\ u.deck = s.deck /\ u.turn = s.turn
         /\ u.meeples \subseteq s.meeples
  <1> DEFINE E == scoreCompletedFeatures(s) \cup scoreCompletedMonasteries(s)
             R == s.meeples \cap UNION {f.meeples : f \in E}
             L == incrementMeeples(s.left, R)
             M == s.meeples \ R
             a == applyScores(s, E)
             u == scoreTurn(s)
  <1>1. Payable(E)
    BY TurnPays DEF Ready, Sound
  <1>2. u = [a EXCEPT !.left = L, !.meeples = M]
    BY Zenon DEF scoreTurn, settle
  <1> HIDE DEF E, R, L, u
  <1>3. PICK S \in [Players -> Nat] : a = [s EXCEPT !.score = S, !.ok = TRUE]
    BY <1>1, PaidScores DEF Ready, Sound
  <1> HIDE DEF a, M
  <1>4. /\ IsState(a) /\ a.board = s.board /\ a.deck = s.deck /\ a.turn = s.turn
        /\ a.current = s.current /\ a.last = s.last /\ a.result = s.result
        /\ a.score = S /\ a.ok = TRUE
    BY <1>3 DEF IsState, Ready
  <1>5. /\ IsState(u) /\ u.board = s.board /\ u.deck = s.deck /\ u.turn = s.turn
        /\ u.current = s.current /\ u.last = s.last /\ u.result = s.result
        /\ u.score = S /\ u.ok = TRUE /\ u.meeples = M
    BY <1>2, <1>4 DEF IsState
  <1>6. M \in SUBSET s.meeples /\ IsFiniteSet(M)
    BY FS_Subset DEF M, Ready
  <1>7. Sound(u)
    BY <1>3, <1>5, <1>6 DEF Sound, Standing, Ready
  <1>8. Ready(u)
    BY <1>5, <1>6, <1>7 DEF Ready
  <1> QED BY <1>5, <1>6, <1>8 DEF u

\* Some player has the most points.
LEMMA SomebodyWins ==
  ASSUME NEW s, s.score \in [Players -> Nat] PROVE matchResult(s) # {}
  <1> DEFINE A == {T \in SUBSET Players : T # {} => \E p \in T : \A q \in T : s.score[q] <= s.score[p]}
  <1>1. {} \in A
    OBVIOUS
  <1>2. ASSUME NEW T \in SUBSET Players, T # {}, \A x \in T : T \ {x} \in A PROVE T \in A
    <2>1. PICK x \in T : TRUE
      BY <1>2
    <2>2. CASE T \ {x} = {}
      <3>1. \A q \in T : q = x
        BY <2>2
      <3>2. s.score[x] <= s.score[x]
        BY <2>1
      <3> QED BY <3>1, <3>2
    <2>3. CASE T \ {x} # {}
      <3>1. PICK p \in T \ {x} : \A q \in T \ {x} : s.score[q] <= s.score[p]
        BY <1>2, <2>3
      <3>2. s.score[p] \in Nat /\ s.score[x] \in Nat /\ \A q \in T : s.score[q] \in Nat
        OBVIOUS
      <3>3. CASE s.score[x] <= s.score[p]
        BY <3>1, <3>3
      <3>4. CASE ~(s.score[x] <= s.score[p])
        <4>1. \A q \in T : s.score[q] <= s.score[x]
          BY <3>1, <3>2, <3>4
        <4> QED BY <4>1
      <3> QED BY <3>3, <3>4
    <2> QED BY <2>2, <2>3
  <1> HIDE DEF A
  <1>3. \A T \in SUBSET Players : T # {} /\ (\A x \in T : T \ {x} \in A) => T \in A
    BY <1>2
  <1>4. Players \in A
    BY <1>1, <1>3, PlayersFinite, FiniteInduction
  <1>5. Players # {}
    BY PlayersThere
  <1> QED BY <1>4, <1>5 DEF A, matchResult

\* The final scoring, and the draw of the next tile.
LEMMA FinishedWell ==
  ASSUME NEW s, Ready(s)
  PROVE  LET t == finish(scoreFinalFeatures(s)) IN
         /\ Sound(t) /\ Playing(t) /\ t.board = s.board /\ t.deck = s.deck /\ t.current = NoTile
  <1> DEFINE E == finalEvents(s)
             a == applyScores(s, E)
             L == incrementMeeples(s.left, s.meeples)
             f == scoreFinalFeatures(s)
             t == finish(f)
             W == matchResult(f)
  <1>1. Payable(E)
    BY FinalPays DEF Ready, Sound
  <1>2. f = [a EXCEPT !.left = L, !.meeples = {}]
    BY Zenon DEF scoreFinalFeatures
  <1>3. t = [f EXCEPT !.result = W, !.phase = "finished", !.player = NoPlayer,
                      !.current = NoTile, !.last = NoCell]
    BY Zenon DEF finish
  <1> HIDE DEF E, L, t, f
  <1>4. PICK S \in [Players -> Nat] : a = [s EXCEPT !.score = S, !.ok = TRUE]
    BY <1>1, PaidScores DEF Ready, Sound
  <1> HIDE DEF a
  <1>5. /\ IsState(a) /\ a.board = s.board /\ a.deck = s.deck /\ a.turn = s.turn
        /\ a.score = S /\ a.ok = TRUE
    BY <1>4 DEF IsState, Ready
  <1>6. /\ IsState(f) /\ f.board = s.board /\ f.deck = s.deck /\ f.turn = s.turn
        /\ f.score = S /\ f.ok = TRUE /\ f.meeples = {}
    BY <1>2, <1>5 DEF IsState
  <1>7. W # {}
    BY <1>6, SomebodyWins
  <1> HIDE DEF W
  <1>8. /\ t.board = s.board /\ t.deck = s.deck /\ t.turn = s.turn
        /\ t.score = S /\ t.ok = TRUE /\ t.meeples = {} /\ t.result = W
        /\ t.phase = "finished" /\ t.current = NoTile /\ t.last = NoCell
    BY <1>3, <1>6 DEF IsState
  <1>9. Sound(t)
    BY <1>8 DEF Sound, Standing, Ready
  <1>10. Playing(t)
    BY <1>7, <1>8 DEF Playing
  <1> QED BY <1>8, <1>9, <1>10 DEF t, f

\* The first tile of the deck that fits.
LEMMA FirstFits ==
  ASSUME NEW d \in Seq(DOMAIN Catalog), NEW b, drawable(d, b) # {}
  PROVE  LET i == CHOOSE k \in drawable(d, b) : \A j \in drawable(d, b) : k <= j IN
         i \in 1..Len(d) /\ d[i] \in DOMAIN Catalog /\ hasAnyTilePlacement(b, d[i])
  <1> DEFINE T == drawable(d, b)
  <1>1. T \subseteq 1..Len(d) /\ \A i \in T : hasAnyTilePlacement(b, d[i])
    BY DEF drawable
  <1>2. T \subseteq Nat
    BY <1>1
  <1>3. \E i \in T : \A j \in T : i <= j
    BY <1>2, LeastNumber
  <1>4. PICK i : i = CHOOSE k \in T : \A j \in T : k <= j
    OBVIOUS
  <1>5. i \in T
    BY <1>3, <1>4, Zenon
  <1>6. i \in 1..Len(d) /\ d[i] \in DOMAIN Catalog /\ hasAnyTilePlacement(b, d[i])
    BY <1>1, <1>5, ElementOfSeq
  <1> QED BY <1>4, <1>6, Zenon

LEMMA NextTurnWell ==
  ASSUME NEW s, Ready(s), NEW i \in 1..Len(s.deck), hasAnyTilePlacement(s.board, s.deck[i])
  PROVE  LET t == nextTurn(s, i) IN
         /\ Sound(t) /\ Playing(t) /\ t.board = s.board
         /\ t.deck = withoutDrawn(s.deck, i) /\ t.current = s.deck[i]
  <1> DEFINE t == nextTurn(s, i)
             c == s.deck[i]
             d == withoutDrawn(s.deck, i)
             p == nextPlayer(s.player)
  <1>1. t = [s EXCEPT !.current = c, !.deck = d, !.last = NoCell, !.player = p,
                      !.turn = s.turn + 1, !.phase = "place_tile"]
    BY Zenon DEF nextTurn
  <1>2. s.deck \in Seq(DOMAIN Catalog) /\ c \in DOMAIN Catalog
    BY ElementOfSeq DEF Ready, Sound
  <1>3. d \in Seq(DOMAIN Catalog)
    BY <1>2, DrawnDeck
  <1>4. c # NoTile
    BY <1>2, SeatsAssumption
  <1> HIDE DEF t, d, p
  <1>5. /\ t.board = s.board /\ t.deck = d /\ t.turn = s.turn + 1
        /\ t.score = s.score /\ t.ok = s.ok /\ t.meeples = s.meeples /\ t.result = s.result
        /\ t.phase = "place_tile" /\ t.current = c /\ t.last = NoCell
    BY <1>1 DEF IsState, Ready
  <1>6. Sound(t)
    BY <1>3, <1>5 DEF Sound, Standing, Ready
  <1>7. Playing(t)
    BY <1>2, <1>4, <1>5 DEF Playing, Ready
  <1> QED BY <1>5, <1>6, <1>7 DEF t, d

\* The whole end of a turn.
LEMMA ResolvedWell ==
  ASSUME NEW s, Ready(s), NEW deck, Dealt(s, deck)
  PROVE  /\ Sound(resolveTurn(s)) /\ Playing(resolveTurn(s)) /\ Dealt(resolveTurn(s), deck)
         /\ resolveTurn(s).board = s.board
  <1> DEFINE u == scoreTurn(s)
             T == drawable(u.deck, u.board)
             t == completeTurnAndDrawNextTile(u)
  <1>1. Ready(u) /\ u.board = s.board /\ u.deck = s.deck
    BY ScoredTurn
  <1>2. u.deck \in Seq(DOMAIN Catalog) /\ u.current = NoTile /\ s.current = NoTile
    BY <1>1 DEF Ready, Sound
  <1>3. \A k \in DOMAIN Catalog :
          Cardinality(onBoard(u.board, k)) + Cardinality(inDeck(u.deck, k)) + 0
            = Cardinality(inDeck(deck, k))
    <2>1. \A k \in DOMAIN Catalog : s.current # k
      BY <1>2, SeatsAssumption
    <2> QED BY <1>1, <2>1 DEF Dealt, tilesOfKind
  <1>4. resolveTurn(s) = t
    BY Zenon DEF resolveTurn
  <1>5. CASE T = {}
    <2>1. t = finish(scoreFinalFeatures(u))
      BY <1>5, Zenon DEF completeTurnAndDrawNextTile
    <2> HIDE DEF t, u
    <2>2. /\ Sound(t) /\ Playing(t) /\ t.board = u.board /\ t.deck = u.deck /\ t.current = NoTile
      BY <1>1, <2>1, FinishedWell
    <2>3. \A k \in DOMAIN Catalog : t.current # k
      BY <2>2, SeatsAssumption
    <2>4. Dealt(t, deck)
      BY <1>3, <2>2, <2>3 DEF Dealt, tilesOfKind
    <2> QED BY <1>1, <1>4, <2>2, <2>4
  <1>6. CASE T # {}
    <2>1. PICK i : i = CHOOSE k \in T : \A j \in T : k <= j
      OBVIOUS
    <2>2. t = nextTurn(u, i)
      BY <1>6, <2>1, Zenon DEF completeTurnAndDrawNextTile
    <2>3. i \in 1..Len(u.deck) /\ hasAnyTilePlacement(u.board, u.deck[i])
      BY <1>2, <1>6, <2>1, FirstFits
    <2> HIDE DEF t, u
    <2>4. /\ Sound(t) /\ Playing(t) /\ t.board = u.board
          /\ t.deck = withoutDrawn(u.deck, i) /\ t.current = u.deck[i]
      BY <1>1, <2>2, <2>3, NextTurnWell
    <2>5. ASSUME NEW k \in DOMAIN Catalog
          PROVE  tilesOfKind(t, k) = Cardinality(inDeck(deck, k))
      <3>1. Cardinality(inDeck(t.deck, k)) + (IF t.current = k THEN 1 ELSE 0)
              = Cardinality(inDeck(u.deck, k))
        BY <1>2, <2>3, <2>4, DrawnCounts
      <3>2. Cardinality(onBoard(u.board, k)) \in Nat
        <4>1. IsFiniteSet(DOMAIN u.board) /\ onBoard(u.board, k) \in SUBSET DOMAIN u.board
          BY <1>1 DEF Ready, Sound, BoardSound, onBoard
        <4> QED BY <4>1, FS_Subset, FS_CardinalityType
      <3>3. Cardinality(inDeck(t.deck, k)) \in Nat
        <4>1. t.deck \in Seq(DOMAIN Catalog)
          BY <2>4 DEF Sound
        <4> QED BY <4>1, InDeckFinite
      <3>4. PICK x \in Nat, y \in Nat, z \in 0..1 :
              /\ x = Cardinality(onBoard(t.board, k)) /\ y = Cardinality(inDeck(t.deck, k))
              /\ z = IF t.current = k THEN 1 ELSE 0
        BY <2>4, <3>2, <3>3
      <3>5. tilesOfKind(t, k) = x + y + z
        BY <3>4 DEF tilesOfKind
      <3>6. x + (y + z) = Cardinality(inDeck(deck, k))
        <4>1. y + z = Cardinality(inDeck(u.deck, k))
          BY <3>1, <3>4
        <4>2. x = Cardinality(onBoard(u.board, k))
          BY <2>4, <3>4
        <4>3. x + (y + z) + 0 = Cardinality(inDeck(deck, k))
          BY <1>3, <4>1, <4>2, Zenon
        <4> QED BY <4>3
      <3> QED BY <3>5, <3>6
    <2>6. Dealt(t, deck)
      BY <2>5 DEF Dealt
    <2> QED BY <1>1, <1>4, <2>4, <2>6
  <1> QED BY <1>5, <1>6

-----------------------------------------------------------------------------
(* Putting down tiles and meeples *)

LEMMA PutTileWell ==
  ASSUME NEW s, IsState(s), IsFiniteSet(s.meeples), Sound(s), Playing(s), s.phase = "place_tile",
         NEW cell, NEW rotation, Fits(s.board, s.current, cell, rotation),
         NEW deck, Dealt(s, deck)
  PROVE  LET t == putTile(s, cell, rotation) IN
         Sound(t) /\ Playing(t) /\ Dealt(t, deck) /\ Ready(t)
  <1> DEFINE t == putTile(s, cell, rotation)
  <1>1. PICK b : b = placed(s.board, cell, s.current, rotation)
    OBVIOUS
  <1>2. t = [s EXCEPT !.board = b, !.last = cell, !.current = NoTile, !.phase = "place_meeple"]
    BY <1>1, Zenon DEF putTile
  <1> HIDE DEF t
  <1>3. /\ IsState(t) /\ t.board = b /\ t.last = cell /\ t.current = NoTile
        /\ t.phase = "place_meeple" /\ t.meeples = s.meeples /\ t.result = s.result
        /\ t.score = s.score /\ t.ok = s.ok /\ t.deck = s.deck /\ t.turn = s.turn
    BY <1>2 DEF IsState
  <1>4. /\ DOMAIN b = DOMAIN s.board \cup {cell} /\ b[cell].tile = s.current
        /\ \A c \in DOMAIN s.board \ {cell} : b[c] = s.board[c]
    BY <1>1 DEF placed
  <1>5. cell \in Int \X Int /\ cell \notin DOMAIN s.board
    BY Zenon DEF Fits, canPlaceTile
  <1>6. BoardSound(b) /\ EdgesMatch(b)
    BY <1>1, PlacedSound, PlacedMatches DEF Sound
  <1>7. Standing(t)
    <2>1. \A ref \in placedZones(s.board) : ref \in placedZones(b)
      BY <1>4, <1>5 DEF placedZones, zonesAt
    <2> QED BY <1>3, <2>1 DEF Standing, Sound
  <1>8. Sound(t)
    BY <1>3, <1>6, <1>7 DEF Sound
  <1>9. cell # NoCell
    BY <1>5, SeatsAssumption
  <1>10. Playing(t)
    BY <1>3, <1>4, <1>9 DEF Playing
  <1>11. Ready(t)
    BY <1>3, <1>4, <1>8 DEF Ready, Playing
  <1>12. ASSUME NEW k \in DOMAIN Catalog
         PROVE  tilesOfKind(t, k) = Cardinality(inDeck(deck, k))
    <2>1. PICK A : A = onBoard(s.board, k)
      OBVIOUS
    <2>2. IsFiniteSet(A) /\ Cardinality(A) \in Nat
      <3>1. IsFiniteSet(DOMAIN s.board) /\ A \in SUBSET DOMAIN s.board
        BY <2>1 DEF Sound, BoardSound, onBoard
      <3> QED BY <3>1, FS_Subset, FS_CardinalityType
    <2>3. cell \notin A /\ cell # <<0, 0>>
      BY <1>5, <2>1 DEF onBoard, Sound, BoardSound
    <2>4. PICK n \in Nat : n = Cardinality(inDeck(s.deck, k))
      <3>1. s.deck \in Seq(DOMAIN Catalog)
        BY DEF Sound
      <3> QED BY <3>1, InDeckFinite
    <2>5. k # NoTile
      BY SeatsAssumption
    <2>6. tilesOfKind(s, k) = Cardinality(inDeck(deck, k))
      BY DEF Dealt
    <2>7. CASE s.current = k
      <3>1. onBoard(b, k) = A \cup {cell}
        BY <1>4, <2>1, <2>3, <2>7 DEF onBoard
      <3>2. Cardinality(onBoard(b, k)) = Cardinality(A) + 1
        BY <2>2, <2>3, <3>1, FS_AddElement
      <3>3. tilesOfKind(t, k) = (Cardinality(A) + 1) + n + 0
        BY <1>3, <2>4, <2>5, <3>2 DEF tilesOfKind
      <3>4. tilesOfKind(s, k) = Cardinality(A) + n + 1
        BY <2>1, <2>4, <2>7 DEF tilesOfKind
      <3> QED BY <2>2, <2>6, <3>3, <3>4
    <2>8. CASE s.current # k
      <3>1. onBoard(b, k) = A
        BY <1>4, <1>5, <2>1, <2>8 DEF onBoard
      <3>2. tilesOfKind(t, k) = Cardinality(A) + n + 0
        BY <1>3, <2>4, <2>5, <3>1 DEF tilesOfKind
      <3>3. tilesOfKind(s, k) = Cardinality(A) + n + 0
        BY <2>1, <2>4, <2>8 DEF tilesOfKind
      <3> QED BY <2>6, <3>2, <3>3
    <2> QED BY <2>7, <2>8
  <1>13. Dealt(t, deck)
    BY <1>12 DEF Dealt
  <1> QED BY <1>8, <1>10, <1>11, <1>13 DEF t

LEMMA PutMeepleWell ==
  ASSUME NEW s, IsState(s), IsFiniteSet(s.meeples), Sound(s), Playing(s),
         s.phase = "place_meeple", NEW actor, NEW place,
         place.zone \in DOMAIN zonesAt(s.board, s.last), NEW deck, Dealt(s, deck)
  PROVE  LET t == putMeeple(s, actor, place) IN Dealt(t, deck) /\ Ready(t)
  <1> DEFINE t == putMeeple(s, actor, place)
             new == [cell |-> s.last, zone |-> place.zone, actor |-> actor, type |-> place.type]
  <1>1. PICK M, L : t = [s EXCEPT !.meeples = M, !.left = L] /\ M = s.meeples \cup {new}
    BY Zenon DEF putMeeple
  <1> HIDE DEF t
  <1>2. /\ IsState(t) /\ t.board = s.board /\ t.last = s.last /\ t.current = s.current
        /\ t.meeples = M /\ t.result = s.result
        /\ t.score = s.score /\ t.ok = s.ok /\ t.deck = s.deck /\ t.turn = s.turn
    BY <1>1 DEF IsState
  <1>3. IsFiniteSet(M)
    BY <1>1, FS_AddElement
  <1>4. s.last \in DOMAIN s.board /\ s.current = NoTile /\ s.result = {}
    BY DEF Playing
  <1>5. <<new.cell, new.zone>> \in placedZones(s.board)
    BY <1>4 DEF placedZones
  <1>6. Standing(t)
    BY <1>1, <1>2, <1>5 DEF Standing, Sound
  <1>7. Sound(t)
    BY <1>2, <1>6 DEF Sound
  <1>8. Ready(t)
    BY <1>2, <1>3, <1>4, <1>7 DEF Ready
  <1>9. Dealt(t, deck)
    BY <1>2 DEF Dealt, tilesOfKind
  <1> QED BY <1>8, <1>9 DEF t

-----------------------------------------------------------------------------
(* The match *)

FInv ==
  /\ IInv /\ setup \in Setups
  /\ Sound(state) /\ Playing(state) /\ Dealt(state, setup.deck)

LEMMA FreshBoard ==
  ASSUME NEW b, b = [c \in {<<0, 0>>} |-> [tile |-> StartTile, rotation |-> 0]]
  PROVE  BoardSound(b) /\ EdgesMatch(b) /\ \A t : onBoard(b, t) = {}
  <1>1. DOMAIN b = {<<0, 0>>} /\ b[<<0, 0>>].tile = StartTile /\ b[<<0, 0>>].rotation = 0
    OBVIOUS
  <1>2. BoardSound(b)
    <2>1. IsFiniteSet(DOMAIN b)
      BY <1>1, FS_Singleton
    <2>2. 0 \in Rotations /\ StartTile \in DOMAIN Catalog
      BY SetupAssumption DEF Rotations
    <2> QED BY <1>1, <2>1, <2>2 DEF BoardSound
  <1>3. adjacentTiles(b, <<0, 0>>) = {}
    <2>1. <<0, 0>> \in Int \X Int
      OBVIOUS
    <2>2. \A side \in Sides : borderNeighborCell(<<0, 0>>, side) # <<0, 0>>
      BY <2>1, ThereAndBack
    <2> QED BY <1>1, <2>2 DEF adjacentTiles
  <1>4. EdgesMatch(b)
    BY <1>1, <1>3 DEF EdgesMatch
  <1> QED BY <1>1, <1>2, <1>4 DEF onBoard

LEMMA InitFInv == Init => FInv
  <1> SUFFICES ASSUME Init PROVE FInv
    OBVIOUS
  <1>1. PICK b : b = [c \in {<<0, 0>>} |-> [tile |-> StartTile, rotation |-> 0]]
    OBVIOUS
  <1>2. PICK z : z = [p \in Players |-> 0]
    OBVIOUS
  <1>3. PICK l : l = [p \in Players |-> setup.meeples]
    OBVIOUS
  <1>4. PICK fresh : fresh = [board |-> b, meeples |-> {}, deck |-> setup.deck, current |-> NoTile,
                       last |-> NoCell, score |-> z, left |-> l, phase |-> "place_tile",
                       player |-> Seats[1], turn |-> 1, result |-> {}, ok |-> TRUE]
    OBVIOUS
  <1>5. /\ IsState(fresh) /\ fresh.board = b /\ fresh.meeples = {} /\ fresh.deck = setup.deck
        /\ fresh.current = NoTile /\ fresh.last = NoCell /\ fresh.score = z
        /\ fresh.phase = "place_tile" /\ fresh.turn = 1 /\ fresh.result = {} /\ fresh.ok = TRUE
    BY <1>4 DEF IsState
  <1>6. state = BuildInitialMatch(setup) /\ setup \in Setups
    BY DEF Init
  <1>7. setup.deck \in Seq(DOMAIN Catalog)
    BY <1>6, SetupAssumption
  <1>8. z \in [Players -> Nat]
    BY <1>2
  <1>9. BoardSound(b) /\ EdgesMatch(b) /\ \A k : Cardinality(onBoard(b, k)) = 0
    BY <1>1, FreshBoard, FS_EmptySet
  <1>10. \A k \in DOMAIN Catalog : k # NoTile
    BY SeatsAssumption
  <1>11. \A k \in DOMAIN Catalog : Cardinality(inDeck(setup.deck, k)) \in Nat
    BY <1>7, InDeckFinite
  <1> DEFINE T == drawable(setup.deck, b)
  <1>12. CASE T = {}
    <2>1. state = [fresh EXCEPT !.phase = "finished", !.player = NoPlayer, !.result = Players]
      BY <1>1, <1>2, <1>3, <1>4, <1>5, <1>6, <1>12, Zenon DEF BuildInitialMatch
    <2>2. /\ state.board = b /\ state.meeples = {} /\ state.deck = setup.deck
          /\ state.current = NoTile /\ state.last = NoCell /\ state.score = z
          /\ state.phase = "finished" /\ state.turn = 1 /\ state.result = Players /\ state.ok = TRUE
      BY <1>5, <2>1 DEF IsState
    <2>3. Players # {}
      BY PlayersThere
    <2>4. Sound(state)
      BY <1>7, <1>8, <1>9, <2>2 DEF Sound, Standing
    <2>5. Playing(state)
      BY <2>2, <2>3 DEF Playing
    <2>6. \A k \in DOMAIN Catalog : tilesOfKind(state, k) = 0 + Cardinality(inDeck(setup.deck, k)) + 0
      BY <1>9, <1>10, <2>2 DEF tilesOfKind
    <2>7. Dealt(state, setup.deck)
      BY <1>11, <2>6 DEF Dealt
    <2> QED BY <1>6, <2>4, <2>5, <2>7, InitIInv DEF FInv
  <1>13. CASE T # {}
    <2>1. PICK i : i = CHOOSE k \in T : \A j \in T : k <= j
      OBVIOUS
    <2>2. state = [fresh EXCEPT !.current = setup.deck[i], !.deck = withoutDrawn(setup.deck, i)]
      BY <1>1, <1>2, <1>3, <1>4, <1>5, <1>6, <1>13, <2>1, Zenon DEF BuildInitialMatch
    <2>3. /\ i \in 1..Len(setup.deck) /\ setup.deck[i] \in DOMAIN Catalog
          /\ hasAnyTilePlacement(b, setup.deck[i])
      BY <1>7, <1>13, <2>1, FirstFits
    <2>4. PICK c, d : c = setup.deck[i] /\ d = withoutDrawn(setup.deck, i)
      OBVIOUS
    <2>5. state = [fresh EXCEPT !.current = c, !.deck = d]
      BY <2>2, <2>4, Zenon
    <2>6. /\ state.board = b /\ state.meeples = {} /\ state.deck = d
          /\ state.current = c /\ state.last = NoCell /\ state.score = z
          /\ state.phase = "place_tile" /\ state.turn = 1 /\ state.result = {} /\ state.ok = TRUE
      BY <1>5, <2>5 DEF IsState
    <2>7. d \in Seq(DOMAIN Catalog)
      BY <1>7, <2>3, <2>4, DrawnDeck
    <2>8. Sound(state)
      BY <1>8, <1>9, <2>6, <2>7 DEF Sound, Standing
    <2>9. Playing(state)
      BY <1>10, <2>3, <2>4, <2>6 DEF Playing
    <2>10. ASSUME NEW k \in DOMAIN Catalog
           PROVE  tilesOfKind(state, k) = Cardinality(inDeck(setup.deck, k))
      <3>1. Cardinality(inDeck(d, k)) + (IF c = k THEN 1 ELSE 0) = Cardinality(inDeck(setup.deck, k))
        BY <1>7, <2>3, <2>4, DrawnCounts
      <3>2. Cardinality(inDeck(d, k)) \in Nat
        BY <2>7, InDeckFinite
      <3>3. tilesOfKind(state, k) = 0 + Cardinality(inDeck(d, k)) + (IF c = k THEN 1 ELSE 0)
        BY <1>9, <2>6 DEF tilesOfKind
      <3> QED BY <3>1, <3>2, <3>3
    <2>11. Dealt(state, setup.deck)
      BY <2>10 DEF Dealt
    <2> QED BY <1>6, <2>8, <2>9, <2>11, InitIInv DEF FInv
  <1> QED BY <1>12, <1>13

\* A placement the engine lists is one that fits.
LEMMA ValidFits ==
  ASSUME NEW b, BoardSound(b), NEW t \in DOMAIN Catalog, NEW p \in validTilePlacements(b, t)
  PROVE  Fits(b, t, p[1], p[2])
  <1>1. canPlaceTile(b, t, p[1], p[2])
    <2> HIDE DEF canPlaceTile
    <2> QED BY DEF validTilePlacements
  <1>2. PICK c \in DOMAIN b, side \in Sides, rotation \in Rotations :
          p = <<borderNeighborCell(c, side), rotation>>
    BY DEF validTilePlacements
  <1>3. c \in Int \X Int
    BY DEF BoardSound
  <1>4. borderNeighborCell(c, side) \in Int \X Int
    BY <1>3, ThereAndBack
  <1> QED BY <1>1, <1>2, <1>4 DEF Fits

LEMMA BestAmong ==
  ASSUME NEW rated PROVE best(rated) \subseteq {q[1] : q \in rated}
  <1>1. PICK top : best(rated) = {q[1] : q \in {o \in rated : o[2] = top}}
    BY Zenon DEF best
  <1> QED BY <1>1

LEMMA BotsPlaceValidly ==
  ASSUME NEW s, NEW actor, NEW skill
  PROVE  chooseBotTilePlacement(s, actor, skill) \subseteq validTilePlacements(s.board, s.current)
  <1>1. PICK options : options = validTilePlacements(s.board, s.current)
    OBVIOUS
  <1>2. PICK rated : rated = {<<o, scoreBotTilePlacement(s, actor, skill, o)>> : o \in options}
    OBVIOUS
  <1>3. {q[1] : q \in rated} \subseteq options
    BY <1>2
  <1>4. best(rated) \subseteq options
    BY <1>3, BestAmong
  <1>5. chooseBotTilePlacement(s, actor, skill) = IF skill = "easy" THEN options ELSE best(rated)
    BY <1>1, <1>2, Zenon DEF chooseBotTilePlacement
  <1> QED BY <1>1, <1>4, <1>5

\* What anyone may choose for the tile is on the grid.
LEMMA ChosenOnGrid ==
  ASSUME FInv, state.phase = "place_tile", NEW p \in tileChoices(setup.skill[state.player])
  PROVE  p[1] \in Int \X Int /\ p[2] \in Rotations
  <1>1. BoardSound(state.board) /\ state.turn \in Nat \ {0} /\ state.current \in DOMAIN Catalog
    BY DEF FInv, Sound, Playing
  <1>2. PICK skill : skill = setup.skill[state.player]
    OBVIOUS
  <1>3. CASE scripted
    <2>1. p = <<setup.script[state.turn].cell, setup.script[state.turn].rotation>>
      BY <1>2, <1>3 DEF tileChoices
    <2>2. PICK Turn : Turn = [cell : Int \X Int, rotation : Rotations, place : Place \cup {NoPlace}]
      OBVIOUS
    <2>3. setup.script \in Seq(Turn)
      BY <2>2, SetupAssumption DEF FInv
    <2>4. state.turn \in 1..Len(setup.script)
      BY <1>1, <1>3, <2>3 DEF scripted
    <2>5. setup.script[state.turn] \in Turn
      BY <2>3, <2>4, ElementOfSeq
    <2> QED BY <2>1, <2>2, <2>5
  <1>4. CASE ~scripted /\ skill = "human"
    <2>1. p \in Cells \X Rotations
      BY <1>2, <1>4 DEF tileChoices
    <2>2. \A c \in DOMAIN state.board : c[1] \in Int /\ c[2] \in Int
      BY <1>1 DEF BoardSound
    <2>3. Cells \subseteq Int \X Int
      BY <2>2 DEF Cells, Around
    <2> QED BY <2>1, <2>3
  <1>5. CASE ~scripted /\ skill # "human"
    <2>1. p \in chooseBotTilePlacement(state, state.player, skill)
      BY <1>2, <1>5 DEF tileChoices
    <2>2. p \in validTilePlacements(state.board, state.current)
      BY <2>1, BotsPlaceValidly
    <2> QED BY <1>1, <2>2, ValidFits DEF Fits
  <1> QED BY <1>3, <1>4, <1>5

\* A turn without a tile in hand can be resolved at once.
LEMMA TurnReady == ASSUME FInv, state.phase = "place_meeple" PROVE Ready(state)
  BY DEF FInv, IInv, Counted, Playing, Ready

LEMMA Hypotheses ==
  ASSUME FInv
  PROVE  IsState(state) /\ IsFiniteSet(state.meeples)
  BY DEF FInv, IInv, Counted

\* What a timeout stores, if it can time out.
LEMMA TimedOutWell ==
  ASSUME FInv, NEW p \in timeoutChoices(state)
  PROVE  LET t == timedOut(state, p) IN Sound(t) /\ Playing(t) /\ Dealt(t, setup.deck)
  <1>1. Sound(state) /\ Playing(state) /\ Dealt(state, setup.deck)
        /\ state.phase \in {"place_tile", "place_meeple", "finished"}
    BY DEF FInv, IInv, Turned
  <1>2. CASE state.phase = "place_tile"
    <2>1. PICK s : s = putTile(state, p[1], p[2])
      OBVIOUS
    <2>2. timedOut(state, p) = resolveTurn(s)
      BY <1>2, <2>1, Zenon DEF timedOut
    <2>3. p \in validTilePlacements(state.board, state.current)
      BY <1>2 DEF timeoutChoices
    <2>4. state.current \in DOMAIN Catalog /\ BoardSound(state.board)
      BY <1>1, <1>2 DEF Playing, Sound
    <2>5. Fits(state.board, state.current, p[1], p[2])
      BY <2>3, <2>4, ValidFits
    <2>6. Ready(s) /\ Dealt(s, setup.deck)
      BY <1>1, <1>2, <2>1, <2>5, Hypotheses, PutTileWell
    <2> QED BY <2>2, <2>6, ResolvedWell
  <1>3. CASE state.phase = "place_meeple"
    <2>1. timedOut(state, p) = resolveTurn(state)
      BY <1>3, Zenon DEF timedOut
    <2> QED BY <1>1, <1>3, <2>1, TurnReady, ResolvedWell
  <1>4. CASE state.phase = "finished"
    BY <1>4 DEF timeoutChoices
  <1> QED BY <1>1, <1>2, <1>3, <1>4

\* Every step of a match.
LEMMA NextFInv == FInv /\ [Next]_vars => FInv'
  <1> SUFFICES ASSUME FInv, [Next]_vars PROVE FInv'
    OBVIOUS
  <1>1. IInv'
    BY NextIInv DEF FInv
  <1>2. Sound(state) /\ Playing(state) /\ Dealt(state, setup.deck) /\ setup \in Setups
    BY DEF FInv
  <1> DEFINE Goal == Sound(state') /\ Playing(state') /\ Dealt(state', setup.deck) /\ setup' = setup
  <1>3. ASSUME state.phase = "place_tile", NEW p \in tileChoices(setup.skill[state.player]),
               PlaceTile(p[1], p[2])
        PROVE  Goal
    <2>1. canPlaceTile(state.board, state.current, p[1], p[2])
      BY <1>3, Zenon DEF PlaceTile
    <2>2. state' = putTile(state, p[1], p[2]) /\ setup' = setup
      BY <1>3 DEF PlaceTile, Store
    <2>3. state.current \in DOMAIN Catalog
      BY <1>2, <1>3 DEF Playing
    <2>4. Fits(state.board, state.current, p[1], p[2])
      BY <1>3, <2>1, <2>3, ChosenOnGrid DEF Fits
    <2> QED BY <1>2, <1>3, <2>2, <2>4, Hypotheses, PutTileWell
  <1>4. ASSUME NEW place, PlaceMeeple(place) PROVE Goal
    <2>1. PICK s : s = putMeeple(state, state.player, place)
      OBVIOUS
    <2>2. state' = resolveTurn(s) /\ setup' = setup
      BY <1>4, <2>1 DEF PlaceMeeple, Store
    <2>3. state.phase = "place_meeple" /\ place.zone \in DOMAIN zonesAt(state.board, state.last)
      BY <1>4, Zenon DEF PlaceMeeple, canPlaceMeeple
    <2>4. Ready(s) /\ Dealt(s, setup.deck)
      BY <1>2, <2>1, <2>3, Hypotheses, PutMeepleWell
    <2> QED BY <2>2, <2>4, ResolvedWell
  <1>5. ASSUME SkipMeeple PROVE Goal
    <2>1. state' = resolveTurn(state) /\ setup' = setup /\ state.phase = "place_meeple"
      BY <1>5 DEF SkipMeeple, Store
    <2> QED BY <1>2, <2>1, TurnReady, ResolvedWell
  <1>6. ASSUME ApplyTurnTimeout PROVE Goal
    <2>1. PICK p \in timeoutChoices(state) : Store(timedOut(state, p), NoMeeple)
      BY <1>6 DEF ApplyTurnTimeout
    <2>2. state' = timedOut(state, p) /\ setup' = setup
      BY <2>1 DEF Store
    <2> QED BY <2>2, TimedOutWell
  <1>7. CASE UNCHANGED vars
    BY <1>1, <1>2, <1>7 DEF FInv, vars
  <1>8. CASE Next
    <2>1. Goal
      <3> HIDE DEF Goal
      <3>1. \/ state.phase = "place_tile"
               /\ \E p \in tileChoices(setup.skill[state.player]) : PlaceTile(p[1], p[2])
            \/ \E place : PlaceMeeple(place)
            \/ SkipMeeple
            \/ ApplyTurnTimeout
        BY <1>8, Zenon DEF Next
      <3> QED BY <1>3, <1>4, <1>5, <1>6, <3>1
    <2> QED BY <1>1, <1>2, <2>1 DEF FInv
  <1> QED BY <1>7, <1>8

\* The phase of a match says which of its fields are set, whatever the engine scores and
\* draws: a tile in hand in place_tile, a last tile in place_meeple, winners at the end.
THEOREM StatesAreTyped == Spec => []TypeOK
  <1>1. FInv => TypeOK
    <2> SUFFICES ASSUME FInv PROVE TypeOK
      OBVIOUS
    <2>1. \A c \in DOMAIN state.board : /\ state.board[c].tile \in DOMAIN Catalog
                                        /\ state.board[c].rotation \in Rotations
      BY DEF FInv, Sound, BoardSound
    <2>2. \A m \in state.meeples : /\ m.cell \in DOMAIN state.board
                                   /\ m.zone \in DOMAIN zonesAt(state.board, m.cell)
      <3>1. \A m \in state.meeples : <<m.cell, m.zone>> \in placedZones(state.board)
        BY DEF FInv, Sound, Standing
      <3>2. ASSUME NEW m \in state.meeples
            PROVE  m.cell \in DOMAIN state.board /\ m.zone \in DOMAIN zonesAt(state.board, m.cell)
        <4>1. PICK cell \in DOMAIN state.board :
                <<m.cell, m.zone>> \in {cell} \X DOMAIN zonesAt(state.board, cell)
          BY <3>1 DEF placedZones
        <4>2. m.cell = cell /\ m.zone \in DOMAIN zonesAt(state.board, cell)
          BY <4>1
        <4> QED BY <4>2
      <3> QED BY <3>2
    <2>3. state.score \in [Players -> Nat] /\ state.left \in [Players -> [MeepleTypes -> Nat]]
      BY DEF FInv, Sound, IInv, Counted
    <2>4. /\ state.phase \in {"place_tile", "place_meeple", "finished"}
          /\ state.phase = "place_tile" <=> state.current # NoTile
          /\ state.phase = "place_meeple" <=> state.last # NoCell
          /\ state.phase = "finished" <=> state.player = NoPlayer
          /\ state.phase = "finished" <=> state.result # {}
      BY DEF FInv, IInv, Turned, Playing
    <2> QED BY <2>1, <2>2, <2>3, <2>4 DEF FInv, TypeOK
  <1> QED BY InitFInv, NextFInv, <1>1, PTL DEF Spec

\* drawNextPlaceableTile loses no tile and doubles none, for every deck and every board.
THEOREM TilesAreConserved == Spec => []TilesConserved
  <1>1. FInv => TilesConserved
    BY DEF FInv, Dealt, tilesOfKind, onBoard, inDeck, TilesConserved
  <1> QED BY InitFInv, NextFInv, <1>1, PTL DEF Spec

\* canPlaceTile compares edges only, and yet every zone goes on in a zone of its type on
\* the neighbouring tile, for catalogues that have fields beside their roads.
THEOREM BordersAreContinued == ASSUME RoadsRunThroughFields PROVE Spec => []BordersMatch
  <1>1. FInv => BordersMatch
    <2>1. FInv => Continues(state.board)
      BY BordersContinue DEF FInv, Sound
    <2> QED BY <2>1 DEF Continues, BordersMatch
  <1> QED BY InitFInv, NextFInv, <1>1, PTL DEF Spec

\* The kind of meeple matters only in that the player has one.
LEMMA KindsAlike ==
  ASSUME NEW s, NEW actor, NEW zone, NEW type \in MeepleTypes, NEW other \in MeepleTypes,
         canPlaceMeeple(s, actor, zone, type), s.left[actor][other] > 0
  PROVE  canPlaceMeeple(s, actor, zone, other)
  BY Zenon DEF canPlaceMeeple

LEMMA PreferredHeld ==
  ASSUME NEW s, NEW actor, availableMeepleTypes(s, actor) # {}
  PROVE  /\ preferred(availableMeepleTypes(s, actor)) \in availableMeepleTypes(s, actor)
         /\ availableMeepleTypes(s, actor) \subseteq MeepleTypes
  BY DEF availableMeepleTypes, preferred, MeepleTypes

\* What is offered, zone by zone.
LEMMA Offered ==
  ASSUME NEW s, NEW actor, NEW o
  PROVE  o \in validMeeplePlacements(s, actor)
           <=> /\ s.last # NoCell /\ availableMeepleTypes(s, actor) # {}
               /\ \E z \in DOMAIN zonesAt(s.board, s.last) :
                    /\ canPlaceMeeple(s, actor, z, preferred(availableMeepleTypes(s, actor)))
                    /\ o = [zone |-> z, types |-> availableMeepleTypes(s, actor)]
  <1>1. PICK types : types = availableMeepleTypes(s, actor)
    OBVIOUS
  <1>2. PICK Z : Z = {y \in DOMAIN zonesAt(s.board, s.last) :
                        canPlaceMeeple(s, actor, y, preferred(types))}
    OBVIOUS
  <1>3. validMeeplePlacements(s, actor)
          = IF s.last = NoCell \/ types = {} THEN {} ELSE {[zone |-> z, types |-> types] : z \in Z}
    BY <1>1, <1>2, Zenon DEF validMeeplePlacements
  <1>4. \A z : z \in Z <=> /\ z \in DOMAIN zonesAt(s.board, s.last)
                           /\ canPlaceMeeple(s, actor, z, preferred(types))
    BY <1>2
  <1> QED BY <1>1, <1>3, <1>4

LEMMA BotsPlaceOffered ==
  ASSUME NEW s, NEW actor, NEW skill, NEW place \in chooseBotMeeplePlacement(s, actor, skill),
         place # NoPlace
  PROVE  canPlaceMeeple(s, actor, place.zone, place.type)
  <1>1. PICK offers : offers = validMeeplePlacements(s, actor)
    OBVIOUS
  <1>2. PICK rated : rated = {<<NoPlace, 0>>}
              \cup {<<o, scoreBotMeeplePlacement(s, actor, skill, o)>> : o \in offers}
    OBVIOUS
  <1>3. PICK chosen : chosen = IF skill = "easy" THEN offers ELSE best(rated)
    OBVIOUS
  <1>4. chooseBotMeeplePlacement(s, actor, skill) = unlessNone(chosen)
    BY <1>1, <1>2, <1>3, Zenon DEF chooseBotMeeplePlacement
  <1>5. {q[1] : q \in rated} \subseteq {NoPlace} \cup offers
    BY <1>2
  <1>6. chosen \subseteq {NoPlace} \cup offers
    BY <1>3, <1>5, BestAmong
  <1>7. PICK o \in offers : place = botPlace(o)
    <2>1. place \in unlessNone(chosen)
      BY <1>4
    <2>2. NoPlace \notin chosen /\ place \in {botPlace(o) : o \in chosen}
      BY <2>1 DEF unlessNone
    <2> QED BY <1>6, <2>2
  <1>8. PICK types : types = availableMeepleTypes(s, actor)
    OBVIOUS
  <1>9. PICK z : canPlaceMeeple(s, actor, z, preferred(types)) /\ o = [zone |-> z, types |-> types]
    BY <1>1, <1>7, <1>8, Offered
  <1>10. place.zone = z /\ place.type = preferred(types)
    BY <1>7, <1>9 DEF botPlace, botMeepleType
  <1> QED BY <1>9, <1>10, Zenon

\* No match stands still: while it is not finished a timeout has a choice, the tile in
\* hand fits somewhere, the contributions of each scored feature add up to its points, and
\* the bots' meeples are accepted (timeoutChoices, applyScore, chooseBotMeeplePlacement).
THEOREM TurnsCanEnd == Spec => []TurnCanEnd
  <1>1. FInv => TurnCanEnd
    <2> SUFFICES ASSUME FInv PROVE TurnCanEnd
      OBVIOUS
    <2>1. state.phase # "finished" => timeoutChoices(state) # {}
      <3>1. state.phase \in {"place_tile", "place_meeple", "finished"}
        BY DEF FInv, IInv, Turned
      <3>2. CASE state.phase = "place_tile"
        <4>1. hasAnyTilePlacement(state.board, state.current)
          BY <3>2 DEF FInv, Playing
        <4> QED BY <3>2, <4>1 DEF hasAnyTilePlacement, timeoutChoices
      <3>3. CASE state.phase = "place_meeple"
        BY <3>3 DEF timeoutChoices
      <3> QED BY <3>1, <3>2, <3>3
    <2>2. \A p \in timeoutChoices(state) : timedOut(state, p).ok
      BY TimedOutWell, Zenon DEF Sound
    <2>3. \A place \in chooseBotMeeplePlacement(state, state.player, setup.skill[state.player]) \ {NoPlace} :
            canPlaceMeeple(state, state.player, place.zone, place.type)
      BY BotsPlaceOffered
    <2> QED BY <2>1, <2>2, <2>3, Zenon DEF TurnCanEnd
  <1> QED BY InitFInv, NextFInv, <1>1, PTL DEF Spec

\* validMeeplePlacements offers what canPlaceMeeple accepts, though it tries one kind of
\* meeple only.
THEOREM OffersAreWhatIsAccepted == Spec => []OffersAreExact
  <1>1. FInv => OffersAreExact
    <2> SUFFICES ASSUME FInv, state.phase = "place_meeple"
                 PROVE  {place \in Place : canPlaceMeeple(state, state.player, place.zone, place.type)}
                        = UNION {[zone : {o.zone}, type : o.types] :
                                   o \in validMeeplePlacements(state, state.player)}
      BY DEF OffersAreExact
    <2>1. PICK types : types = availableMeepleTypes(state, state.player)
      OBVIOUS
    <2>2. PICK accepted : accepted = {place \in Place :
                            canPlaceMeeple(state, state.player, place.zone, place.type)}
      OBVIOUS
    <2>3. PICK offers : offers = validMeeplePlacements(state, state.player)
      OBVIOUS
    <2>4. PICK zones : zones = DOMAIN zonesAt(state.board, state.last)
      OBVIOUS
    <2>5. \A z \in zones : \A k \in MeepleTypes : [zone |-> z, type |-> k] \in Place
      <3>1. state.last \in DOMAIN state.board
        BY DEF FInv, Playing
      <3>2. state.board[state.last].tile \in DOMAIN Catalog
        BY <3>1 DEF FInv, Sound, BoardSound
      <3> QED BY <2>4, <3>2 DEF Place, zonesAt
    <2>6. ASSUME NEW place \in accepted PROVE \E o \in offers : place \in [zone : {o.zone}, type : o.types]
      <3>1. place \in Place /\ canPlaceMeeple(state, state.player, place.zone, place.type)
        BY <2>2
      <3>2. PICK z : \E k \in MeepleTypes : place = [zone |-> z, type |-> k]
        BY <3>1 DEF Place
      <3>3. PICK k \in MeepleTypes : place = [zone |-> z, type |-> k]
        BY <3>2
      <3>4. canPlaceMeeple(state, state.player, z, k)
        BY <3>1, <3>3
      <3>5. state.last # NoCell /\ state.left[state.player][k] > 0 /\ z \in zones
        BY <2>4, <3>4, Zenon DEF canPlaceMeeple
      <3>6. k \in types
        BY <2>1, <3>3, <3>5 DEF availableMeepleTypes
      <3>7. preferred(types) \in types /\ preferred(types) \in MeepleTypes
        BY <2>1, <3>6, PreferredHeld
      <3>8. state.left[state.player][preferred(types)] > 0
        BY <2>1, <3>7 DEF availableMeepleTypes
      <3>9. canPlaceMeeple(state, state.player, z, preferred(types))
        BY <3>4, <3>7, <3>8, KindsAlike
      <3>10. [zone |-> z, types |-> types] \in offers
        BY <2>1, <2>3, <2>4, <3>5, <3>6, <3>9, Offered
      <3> QED BY <3>3, <3>6, <3>10
    <2>7. ASSUME NEW o \in offers, NEW place \in [zone : {o.zone}, type : o.types]
          PROVE  place \in accepted
      <3>1. PICK z \in zones : /\ canPlaceMeeple(state, state.player, z, preferred(types))
                               /\ o = [zone |-> z, types |-> types]
        BY <2>1, <2>3, <2>4, <2>7, Offered
      <3>2. PICK k \in types : place = [zone |-> z, type |-> k]
        BY <2>7, <3>1
      <3>3. k \in MeepleTypes /\ state.left[state.player][k] > 0
        BY <2>1, <3>2 DEF availableMeepleTypes
      <3>4. preferred(types) \in MeepleTypes
        BY <2>1, <3>2, PreferredHeld
      <3>5. canPlaceMeeple(state, state.player, z, k)
        BY <3>1, <3>3, <3>4, KindsAlike
      <3>6. canPlaceMeeple(state, state.player, place.zone, place.type)
        BY <3>2, <3>5
      <3> QED BY <2>2, <2>5, <3>2, <3>3, <3>6
    <2>8. accepted = UNION {[zone : {o.zone}, type : o.types] : o \in offers}
      BY <2>6, <2>7
    <2> QED BY <2>2, <2>3, <2>8, Zenon
  <1> QED BY InitFInv, NextFInv, <1>1, PTL DEF Spec

\* The meeple put down by a step stands alone in its region.
LEMMA FreeRegion ==
  ASSUME RoadsRunThroughFields, FInv, [Next]_vars, put' # NoMeeple, ~UNCHANGED vars,
         NEW R \in Regions(state'.board), <<put'.cell, put'.zone>> \in R
  PROVE  MeeplesIn(state.meeples, R) = {}
  <1>1. PICK place : PlaceMeeple(place)
    <2>1. \/ \E cell, rotation : PlaceTile(cell, rotation)
          \/ \E place : PlaceMeeple(place)
          \/ SkipMeeple
          \/ ApplyTurnTimeout
      BY Zenon DEF Next
    <2>2. \A cell, rotation : PlaceTile(cell, rotation) => put' = NoMeeple
      BY DEF PlaceTile, Store
    <2> QED BY <2>1, <2>2 DEF SkipMeeple, ApplyTurnTimeout, Store
  <1> DEFINE s == putMeeple(state, state.player, place)
  <1>2. /\ state.phase = "place_meeple" /\ state.last # NoCell
        /\ place.zone \in DOMAIN zonesAt(state.board, state.last)
        /\ typeOf(state.board, <<state.last, place.zone>>) # "cathedral"
        /\ meeplesOn(state, regionOf(state.board, <<state.last, place.zone>>)) = {}
        /\ place.type \in MeepleTypes /\ state.left[state.player][place.type] > 0
    BY <1>1, Zenon DEF PlaceMeeple, canPlaceMeeple
  <1>3. state' = resolveTurn(s) /\ put' = meepleAt(place)
    BY <1>1 DEF PlaceMeeple, Store
  <1>4. PICK ref : ref = <<state.last, place.zone>>
    OBVIOUS
  <1>5. ref \in R
    BY <1>3, <1>4 DEF meepleAt
  <1>6. state.last \in DOMAIN state.board /\ BoardSound(state.board) /\ EdgesMatch(state.board)
    BY <1>2 DEF FInv, Playing, Sound
  <1>7. ref \in placedZones(state.board)
    BY <1>2, <1>4, <1>6 DEF placedZones
  <1>8. state'.board = state.board
    <2>1. Ready(s) /\ Dealt(s, setup.deck)
      BY <1>2, <1>6, Hypotheses, PutMeepleWell DEF FInv
    <2>2. s.board = state.board
      BY DEF putMeeple, FInv, IInv, IsState
    <2> HIDE DEF s
    <2> QED BY <1>3, <2>1, <2>2, ResolvedWell
  <1>9. ref \in regionOf(state.board, ref) /\ Sealed(state.board, regionOf(state.board, ref))
    BY <1>2, <1>4, <1>6, <1>7, RegionClosed
  <1>10. R \subseteq regionOf(state.board, ref)
    BY <1>5, <1>6, <1>8, <1>9, RegionWithin
  <1>11. meeplesOn(state, regionOf(state.board, ref)) = {}
    BY <1>2, <1>4
  <1> QED BY <1>10, <1>11 DEF meeplesOn, MeeplesIn

\* canPlaceMeeple looks at a feature found from one zone, at a field of the graph or at a
\* monastery; whatever the catalogue (with fields beside its roads) and the match, that is
\* the whole region a meeple is put on.
THEOREM MeeplesGoOnFreeRegions == ASSUME RoadsRunThroughFields PROVE Spec => MeepleOnFreeRegion
  <1>1. FInv /\ [Next]_vars =>
          [put' # NoMeeple => \A R \in Regions(state'.board) :
             <<put'.cell, put'.zone>> \in R => MeeplesIn(state.meeples, R) = {}]_vars
    BY FreeRegion, Zenon
  <1> QED BY InitFInv, NextFInv, <1>1, PTL DEF Spec, MeepleOnFreeRegion

=============================================================================
