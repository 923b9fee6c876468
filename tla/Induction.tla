----------------------------- MODULE Induction ------------------------------
(***************************************************************************)
(* Induction and recursion over the natural numbers, stated about sets and   *)
(* functions so that a proof can cite them; what they say of the folds the   *)
(* models are written with; and with that, what Select and AddNew return.    *)
(***************************************************************************)
EXTENDS Selections, WellFoundedInduction, FiniteSetTheorems, SequenceTheorems, TLAPS

-----------------------------------------------------------------------------
(* Induction. *)

(* A set of natural numbers has a least element. *)
LEMMA Smallest ==
  ASSUME NEW T \in SUBSET Nat, T # {}
  PROVE  \E n \in T : \A m \in T : n <= m
<1>1. PICK n \in T : \A m \in T : <<m, n>> \notin OpToRel(<, Nat)
  BY NatLessThanWellFounded, WFMin
<1>2. \A m \in T : ~(m < n)
  BY <1>1 DEF OpToRel
<1>3. QED
  BY <1>2

(* A set that holds 0, and n + 1 with every n it holds, holds them all. *)
LEMMA SetInduction ==
  ASSUME NEW T, 0 \in T, \A n \in Nat : n \in T => n + 1 \in T
  PROVE  \A n \in Nat : n \in T
<1> DEFINE Out == {n \in Nat : n \notin T}
<1>1. SUFFICES ASSUME Out # {} PROVE FALSE
  OBVIOUS
<1>2. PICK n \in Out : \A m \in Out : n <= m
  <2>1. Out \in SUBSET Nat
    OBVIOUS
  <2> HIDE DEF Out
  <2>2. QED
    BY <1>1, <2>1, Smallest
<1>3. n # 0 /\ n - 1 \in Nat /\ n - 1 \notin Out
  BY <1>2
<1>4. QED
  BY <1>3

(* The same up to a bound. *)
LEMMA IntervalInduction ==
  ASSUME NEW N \in Nat, NEW T, 0 \in T, \A n \in 0 .. N - 1 : n \in T => n + 1 \in T
  PROVE  \A n \in 0 .. N : n \in T
<1> DEFINE U == {n \in Nat : n <= N => n \in T}
<1>1. 0 \in U
  OBVIOUS
<1>2. \A n \in Nat : n \in U => n + 1 \in U
  OBVIOUS
<1> HIDE DEF U
<1>3. \A n \in Nat : n \in U
  BY <1>1, <1>2, SetInduction
<1>4. QED
  BY <1>3 DEF U

(* A finite set of numbers has a greatest element, which Max chooses. *)
LEMMA MaxIsGreatest ==
  ASSUME NEW n \in Nat, NEW T \in SUBSET (1 .. n), T # {}
  PROVE  Max(T) \in T /\ \A m \in T : m <= Max(T)
<1> DEFINE Down == {d \in Nat : n - d \in T}
<1>1. Down \in SUBSET Nat
  OBVIOUS
<1>2. \A m \in T : n - m \in Down /\ m \in Nat
  OBVIOUS
<1>3. Down # {}
  BY <1>2
<1>4. \A d \in Down : n - d \in T /\ d \in Nat
  OBVIOUS
<1> HIDE DEF Down
<1>5. PICK d \in Down : \A e \in Down : d <= e
  BY <1>1, <1>3, Smallest
<1>6. n - d \in T /\ \A m \in T : n - d >= m
  BY <1>2, <1>4, <1>5
<1>7. Max(T) \in T /\ \A m \in T : Max(T) >= m
  BY <1>6 DEF Max
<1>8. QED
  BY <1>7

LEMMA MaxOfInterval ==
  ASSUME NEW n \in Nat, n # 0
  PROVE  Max(1 .. n) = n /\ (1 .. n) \ {n} = 1 .. n - 1 /\ 1 .. n # {}
<1>1. n \in 1 .. n
  OBVIOUS
<1>2. Max(1 .. n) \in 1 .. n /\ \A m \in 1 .. n : m <= Max(1 .. n)
  BY <1>1, MaxIsGreatest
<1>3. QED
  BY <1>1, <1>2

-----------------------------------------------------------------------------
(* Recursion. *)

(* step[n] takes V to V, for every n. *)
StepsIn(step, V) == \A n \in Nat, v \in V : step[n][v] \in V

(* f is v0, step[0][v0], step[1][step[0][v0]], ...  *)
Follows(f, step, v0, V) ==
  /\ f[0] = v0
  /\ \A n \in Nat : f[n] \in V /\ f[n + 1] = step[n][f[n]]

LEMMA Recursion ==
  ASSUME NEW V, NEW v0 \in V, NEW step, StepsIn(step, V)
  PROVE  \E f : Follows(f, step, v0, V)
<1> DEFINE Good(n, g) == /\ g \in [0 .. n -> V] /\ g[0] = v0
                         /\ \A i \in 0 .. n - 1 : g[i + 1] = step[i][g[i]]
<1> DEFINE T == {n \in Nat : \E g : Good(n, g)}
<1>1. 0 \in T
  <2>1. Good(0, [i \in 0 .. 0 |-> v0])
    OBVIOUS
  <2>2. QED
    BY <2>1
<1>2. ASSUME NEW n \in Nat, n \in T PROVE n + 1 \in T
  <2>1. PICK g : Good(n, g)
    BY <1>2
  <2> DEFINE h == [i \in 0 .. n + 1 |-> IF i <= n THEN g[i] ELSE step[n][g[n]]]
  <2>2. g[n] \in V /\ step[n][g[n]] \in V
    BY <2>1 DEF StepsIn
  <2>3. h \in [0 .. n + 1 -> V]
    BY <2>1, <2>2
  <2>4. h[0] = v0
    BY <2>1
  <2>5. \A i \in 0 .. n + 1 - 1 : h[i + 1] = step[i][h[i]]
    BY <2>1
  <2> HIDE DEF h
  <2>6. Good(n + 1, h)
    BY <2>3, <2>4, <2>5
  <2> HIDE DEF Good
  <2>7. QED
    BY <2>6
<1>3. \A n \in Nat : n \in T
  <2> HIDE DEF T
  <2>1. QED
    BY <1>1, <1>2, SetInduction
<1>4. ASSUME NEW m \in Nat, NEW n \in Nat, m <= n, NEW g, NEW h, Good(m, g), Good(n, h)
      PROVE  g[m] = h[m]
  <2> DEFINE U == {i \in Nat : i <= m => g[i] = h[i]}
  <2>1. 0 \in U
    BY <1>4
  <2>2. \A i \in Nat : i \in U => i + 1 \in U
    BY <1>4
  <2> HIDE DEF U
  <2>3. m \in U
    BY <2>1, <2>2, SetInduction
  <2>4. QED
    BY <2>3 DEF U
<1> DEFINE G == [n \in Nat |-> CHOOSE g : Good(n, g)]
           f == [n \in Nat |-> G[n][n]]
<1>5. \A n \in Nat : Good(n, G[n])
  <2> HIDE DEF Good
  <2>1. QED
    BY <1>3
<1> HIDE DEF T, G
<1>6. \A n \in Nat : f[n] \in V
  BY <1>5
<1>7. f[0] = v0
  BY <1>5
<1>8. ASSUME NEW n \in Nat PROVE f[n + 1] = step[n][f[n]]
  <2>1. Good(n, G[n]) /\ Good(n + 1, G[n + 1])
    BY <1>5
  <2>2. G[n + 1][n + 1] = step[n][G[n + 1][n]]
    <3>1. \A i \in 0 .. n + 1 - 1 : G[n + 1][i + 1] = step[i][G[n + 1][i]]
      BY <2>1
    <3> HIDE DEF Good
    <3>2. QED
      BY <3>1
  <2>3. G[n][n] = G[n + 1][n]
    <3> HIDE DEF Good
    <3>1. QED
      BY <2>1, <1>4
  <2>4. f[n + 1] = G[n + 1][n + 1] /\ f[n] = G[n][n]
    OBVIOUS
  <2> HIDE DEF f
  <2>5. QED
    BY <2>2, <2>3, <2>4
<1> HIDE DEF f
<1>9. QED
  BY <1>6, <1>7, <1>8 DEF Follows

(* The same step at every n. *)
ClosedUnder(step, V) == \A v \in V : step[v] \in V

Iterates(f, step, v0, V) == /\ f[0] = v0
                            /\ \A n \in Nat : f[n] \in V /\ f[n + 1] = step[f[n]]

LEMMA Iteration ==
  ASSUME NEW V, NEW v0 \in V, NEW step, ClosedUnder(step, V)
  PROVE  \E f : Iterates(f, step, v0, V)
<1> DEFINE steps == [n \in Nat |-> step]
<1>1. StepsIn(steps, V) /\ \A n \in Nat : steps[n] = step
  BY DEF StepsIn, ClosedUnder
<1> HIDE DEF steps
<1>2. PICK f : Follows(f, steps, v0, V)
  BY <1>1, Recursion
<1>3. QED
  BY <1>1, <1>2 DEF Follows, Iterates

-----------------------------------------------------------------------------
(* Folds.  FoldLeft works through the sets of indexes left, each time the    *)
(* greatest; such a function exists, whatever op is folded over s.           *)
FoldStep(F, s, v0, op) ==
  [T \in SUBSET DOMAIN s |->
     IF T = {} THEN v0 ELSE op[F[T \ {Max(T)}]][s[Max(T)]]]

OpIn(op, V, X) == \A v \in V, x \in X : op[v][x] \in V

Folds(F, s, v0, op, V) == F \in [SUBSET DOMAIN s -> V] /\ F = FoldStep(F, s, v0, op)

LEMMA FoldExists ==
  ASSUME NEW X, NEW s \in Seq(X), NEW V, NEW v0 \in V, NEW op, OpIn(op, V, X)
  PROVE  \E F : Folds(F, s, v0, op, V)
<1> DEFINE N == Len(s)
           D == SUBSET DOMAIN s
           W == [D -> V]
           Step(F) == FoldStep(F, s, v0, op)
           F0 == [T \in D |-> v0]
           step == [F \in W |-> Step(F)]
<1> HIDE DEF N, D, W, Step, F0, step
<1>1. N \in Nat /\ DOMAIN s = 1 .. N /\ \A x \in DOMAIN s : s[x] \in X
  BY LenProperties DEF N
<1>2. \A T \in D : T # {} => Max(T) \in DOMAIN s /\ T \ {Max(T)} \in D /\ Max(T) \in T
  BY <1>1, MaxIsGreatest DEF D
<1>3. \A F \in W : Step(F) \in W
  BY <1>1, <1>2 DEF W, D, Step, FoldStep, OpIn
<1>4. F0 \in W
  BY DEF F0, W
<1>5. ClosedUnder(step, W) /\ \A F \in W : step[F] = Step(F)
  BY <1>3 DEF step, ClosedUnder
<1>6. PICK f : Iterates(f, step, F0, W)
  BY <1>4, <1>5, Iteration
<1>7. \A n \in Nat : f[n] \in W /\ f[n + 1] \in W /\ f[n + 1] = Step(f[n])
  <2>1. \A n \in Nat : n + 1 \in Nat /\ f[n] \in W /\ f[n + 1] = step[f[n]]
    BY <1>6 DEF Iterates
  <2>2. QED
    BY <2>1, <1>5
<1>8. IsFiniteSet(DOMAIN s) /\ Cardinality(DOMAIN s) = N
  BY <1>1, FS_Interval
<1>9. \A T \in D : IsFiniteSet(T) /\ Cardinality(T) \in Nat /\ Cardinality(T) <= N
  BY <1>8, FS_Subset, FS_CardinalityType DEF D
<1> DEFINE Settled == {n \in Nat : \A T \in D : Cardinality(T) <= n => f[n + 1][T] = f[n][T]}
<1>10. 0 \in Settled
  <2> SUFFICES ASSUME NEW T \in D, Cardinality(T) <= 0 PROVE f[0 + 1][T] = f[0][T]
    OBVIOUS
  <2>1. Cardinality(T) = 0
    BY <1>9
  <2>2. T = {}
    BY <2>1, <1>9, FS_EmptySet
  <2>3. f[0 + 1] = Step(f[0]) /\ f[0] = F0
    BY <1>6, <1>7 DEF Iterates
  <2>4. Step(f[0])[T] = v0 /\ F0[T] = v0
    BY <2>2 DEF Step, FoldStep, F0, D
  <2>5. QED
    BY <2>3, <2>4
<1>11. ASSUME NEW n \in Nat, n \in Settled PROVE n + 1 \in Settled
  <2> SUFFICES ASSUME NEW T \in D, Cardinality(T) <= n + 1
               PROVE  f[n + 1 + 1][T] = f[n + 1][T]
    OBVIOUS
  <2>1. f[n + 1 + 1] = Step(f[n + 1]) /\ f[n + 1] = Step(f[n])
    <3>1. n + 1 \in Nat
      OBVIOUS
    <3>2. QED
      BY <3>1, <1>7
  <2>2. CASE T = {}
    BY <2>1, <2>2 DEF Step, FoldStep, D
  <2>3. CASE T # {}
    <3> DEFINE U == T \ {Max(T)}
    <3>1. U \in D /\ Max(T) \in T
      BY <1>2, <2>3
    <3>2. Cardinality(U) = Cardinality(T) - 1
      BY <3>1, <1>9, FS_RemoveElement
    <3>3. /\ Step(f[n + 1])[T] = op[f[n + 1][U]][s[Max(T)]]
          /\ Step(f[n])[T] = op[f[n][U]][s[Max(T)]]
      BY <2>3 DEF Step, FoldStep, D
    <3> HIDE DEF U
    <3>4. f[n + 1][U] = f[n][U]
      BY <1>9, <1>11, <3>1, <3>2
    <3>5. QED
      BY <2>1, <3>3, <3>4
  <2>4. QED
    BY <2>2, <2>3
<1> HIDE DEF Settled
<1>12. N \in Settled
  BY <1>1, <1>10, <1>11, SetInduction
<1>13. \A T \in D : f[N + 1][T] = f[N][T]
  BY <1>9, <1>12 DEF Settled
<1>14. f[N + 1] = f[N]
  BY <1>1, <1>7, <1>13 DEF W
<1>15. f[N] \in W /\ f[N] = Step(f[N])
  BY <1>1, <1>7, <1>14
<1>16. QED
  BY <1>15 DEF W, Step, D, Folds

(* A function that works through the indexes of s holds, at 1 .. i, what the *)
(* fold makes of the first i.                                                *)
LEMMA FoldPrefixes ==
  ASSUME NEW n \in Nat, NEW i \in 1 .. n
  PROVE  /\ 1 .. i \in SUBSET (1 .. n) /\ 1 .. i - 1 \in SUBSET (1 .. n)
         /\ 1 .. i # {} /\ Max(1 .. i) = i /\ (1 .. i) \ {Max(1 .. i)} = 1 .. i - 1
  BY MaxOfInterval

-----------------------------------------------------------------------------
(* What Select and AddNew return, for every sequence.                        *)

(* The lists the loop of Select goes through. *)
SelectsBy(f, s, S) ==
  /\ f[0] = <<>> /\ f[Len(s)] = Select(s, S)
  /\ \A i \in 1 .. Len(s) :
        f[i] = IF s[i] \in S THEN Append(f[i - 1], s[i]) ELSE f[i - 1]

LEMMA SelectSteps ==
  ASSUME NEW X, NEW s \in Seq(X), NEW S
  PROVE  \E f : SelectsBy(f, s, S)
<1> DEFINE V == Seq(X)
           op == [v \in V |-> [x \in X |-> IF x \in S THEN Append(v, x) ELSE v]]
           D == SUBSET DOMAIN s
           Concrete(F) == F = [T \in D |->
              IF T = {} THEN <<>>
              ELSE IF s[Max(T)] \in S THEN Append(F[T \ {Max(T)}], s[Max(T)])
                                      ELSE F[T \ {Max(T)}]]
<1>1. <<>> \in V /\ OpIn(op, V, X)
  BY DEF OpIn
<1>2. PICK F : Folds(F, s, <<>>, op, V)
  <2> HIDE DEF V, op
  <2>1. QED
    BY <1>1, FoldExists
<1>3. Len(s) \in Nat /\ DOMAIN s = 1 .. Len(s) /\ \A i \in DOMAIN s : s[i] \in X
  OBVIOUS
<1>4. \A T \in D : T # {} => Max(T) \in DOMAIN s /\ T \ {Max(T)} \in D
  BY <1>3, MaxIsGreatest
<1>5. \A v \in V, x \in X : op[v][x] = IF x \in S THEN Append(v, x) ELSE v
  OBVIOUS
<1> HIDE DEF op, V, D
<1>6. ASSUME NEW T \in D
      PROVE  F[T] = IF T = {} THEN <<>>
              ELSE IF s[Max(T)] \in S THEN Append(F[T \ {Max(T)}], s[Max(T)])
                                      ELSE F[T \ {Max(T)}]
  <2>1. F[T] = IF T = {} THEN <<>> ELSE op[F[T \ {Max(T)}]][s[Max(T)]]
    BY <1>2 DEF Folds, FoldStep, D
  <2>2. T # {} => F[T \ {Max(T)}] \in V /\ s[Max(T)] \in X
    BY <1>2, <1>3, <1>4 DEF Folds, D
  <2>3. QED
    BY <2>1, <2>2, <1>5
<1>7. Concrete(F)
  BY <1>2, <1>6 DEF Folds, D
<1> DEFINE I == CHOOSE G : Concrete(G)
<1>8. Concrete(I)
  <2> HIDE DEF Concrete
  <2>1. QED
    BY <1>7
<1>9. Select(s, S) = I[DOMAIN s]
  BY DEF Select, FoldLeft, MapThenFoldSet, D
<1> HIDE DEF I
<1> DEFINE f == [i \in 0 .. Len(s) |-> I[1 .. i]]
<1>10. f[0] = <<>>
  <2>1. 1 .. 0 = {} /\ {} \in D
    BY DEF D
  <2>2. QED
    BY <2>1, <1>3, <1>8
<1>11. f[Len(s)] = Select(s, S)
  BY <1>3, <1>9
<1>12. ASSUME NEW i \in 1 .. Len(s)
       PROVE  f[i] = IF s[i] \in S THEN Append(f[i - 1], s[i]) ELSE f[i - 1]
  <2>1. /\ 1 .. i \in D /\ 1 .. i # {} /\ Max(1 .. i) = i
        /\ (1 .. i) \ {Max(1 .. i)} = 1 .. i - 1
    BY <1>3, FoldPrefixes DEF D
  <2>2. I[1 .. i] = IF s[i] \in S THEN Append(I[1 .. i - 1], s[i]) ELSE I[1 .. i - 1]
    BY <2>1, <1>8
  <2>3. f[i] = I[1 .. i] /\ f[i - 1] = I[1 .. i - 1]
    BY <1>3
  <2> HIDE DEF f
  <2>4. QED
    BY <2>2, <2>3
<1> HIDE DEF f
<1>13. QED
  BY <1>10, <1>11, <1>12 DEF SelectsBy

(* r is what S keeps of the first n of s: e tells where each was.            *)
Picks(e, r, s, n, S) ==
  /\ e \in [1 .. Len(r) -> 1 .. n]
  /\ \A k, l \in 1 .. Len(r) : k < l => e[k] < e[l]
  /\ \A k \in 1 .. Len(r) : r[k] = s[e[k]] /\ r[k] \in S
  /\ \A i \in 1 .. n : s[i] \in S => \E k \in 1 .. Len(r) : e[k] = i

(* Select keeps the elements of S, in their order, each where it was.        *)
LEMMA SelectPicks ==
  ASSUME NEW X, NEW s \in Seq(X), NEW S
  PROVE  Select(s, S) \in Seq(X) /\ \E e : Picks(e, Select(s, S), s, Len(s), S)
<1>1. PICK f : SelectsBy(f, s, S)
  BY SelectSteps
<1>2. Len(s) \in Nat /\ \A i \in 1 .. Len(s) : s[i] \in X
  OBVIOUS
<1> DEFINE T == {n \in Nat : f[n] \in Seq(X) /\ \E e : Picks(e, f[n], s, n, S)}
<1>3. 0 \in T
  <2>1. f[0] = <<>>
    BY <1>1 DEF SelectsBy
  <2>2. Picks(<<>>, f[0], s, 0, S)
    BY <2>1 DEF Picks
  <2>3. f[0] \in Seq(X)
    BY <2>1
  <2>4. QED
    BY <2>2, <2>3
<1>4. ASSUME NEW n \in 0 .. Len(s) - 1, n \in T PROVE n + 1 \in T
  <2>1. PICK e : Picks(e, f[n], s, n, S)
    BY <1>4
  <2>2. /\ n \in Nat /\ n + 1 \in 1 .. Len(s) /\ (n + 1) - 1 = n
        /\ f[n] \in Seq(X) /\ s[n + 1] \in X
    BY <1>2, <1>4
  <2>3. f[n + 1] = IF s[n + 1] \in S THEN Append(f[n], s[n + 1]) ELSE f[n]
    BY <1>1, <2>2 DEF SelectsBy
  <2>4. CASE s[n + 1] \notin S
    <3>1. Picks(e, f[n], s, n + 1, S)
      BY <2>1, <2>2, <2>4 DEF Picks
    <3>2. QED
      BY <2>2, <2>3, <2>4, <3>1
  <2>5. CASE s[n + 1] \in S
    <3> DEFINE r == Append(f[n], s[n + 1])
               d == [k \in 1 .. Len(r) |-> IF k = Len(r) THEN n + 1 ELSE e[k]]
    <3>1. /\ r \in Seq(X) /\ Len(r) = Len(f[n]) + 1 /\ Len(f[n]) \in Nat
          /\ r[Len(r)] = s[n + 1] /\ \A k \in 1 .. Len(f[n]) : r[k] = f[n][k]
      BY <2>2
    <3> HIDE DEF r
    <3>2. ASSUME NEW k \in 1 .. Len(f[n])
          PROVE  e[k] \in 1 .. n /\ d[k] = e[k] /\ k \in 1 .. Len(r)
      <4>1. k \in 1 .. Len(r) /\ k # Len(r)
        BY <3>1
      <4>2. e[k] \in 1 .. n
        BY <2>1 DEF Picks
      <4>3. QED
        BY <4>1, <4>2
    <3>3. d[Len(r)] = n + 1 /\ Len(r) \in 1 .. Len(r)
      BY <3>1
    <3>4. \A k \in 1 .. Len(r) : k = Len(r) \/ k \in 1 .. Len(f[n])
      BY <3>1
    <3>5. d \in [1 .. Len(r) -> 1 .. n + 1]
      <4>1. n + 1 \in 1 .. n + 1 /\ 1 .. n \subseteq 1 .. n + 1
        BY <2>2
      <4>2. ASSUME NEW k \in 1 .. Len(r) PROVE d[k] \in 1 .. n + 1
        <5> HIDE DEF d
        <5>1. CASE k = Len(r)
          BY <3>3, <4>1, <5>1
        <5>2. CASE k \in 1 .. Len(f[n])
          BY <3>2, <4>1, <5>2
        <5>3. QED
          BY <3>4, <5>1, <5>2
      <4>3. QED
        BY <4>2
    <3> HIDE DEF d
    <3>6. \A k, l \in 1 .. Len(r) : k < l => d[k] < d[l]
      <4> SUFFICES ASSUME NEW k \in 1 .. Len(r), NEW l \in 1 .. Len(r), k < l
                   PROVE  d[k] < d[l]
        OBVIOUS
      <4>1. k \in 1 .. Len(f[n])
        BY <3>1
      <4>2. CASE l = Len(r)
        BY <2>2, <3>2, <3>3, <4>1, <4>2
      <4>3. CASE l \in 1 .. Len(f[n])
        BY <2>1, <3>2, <4>1, <4>3 DEF Picks
      <4>4. QED
        BY <3>4, <4>2, <4>3
    <3>7. \A k \in 1 .. Len(r) : r[k] = s[d[k]] /\ r[k] \in S
      BY <2>1, <2>5, <3>1, <3>2, <3>3, <3>4 DEF Picks
    <3>8. ASSUME NEW i \in 1 .. n + 1, s[i] \in S PROVE \E k \in 1 .. Len(r) : d[k] = i
      <4>1. CASE i = n + 1
        BY <3>3, <4>1
      <4>2. CASE i \in 1 .. n
        <5>1. PICK k \in 1 .. Len(f[n]) : e[k] = i
          BY <2>1, <3>8, <4>2 DEF Picks
        <5>2. QED
          BY <3>2, <5>1
      <4>3. QED
        BY <2>2, <4>1, <4>2
    <3>9. Picks(d, r, s, n + 1, S)
      BY <3>5, <3>6, <3>7, <3>8 DEF Picks
    <3>10. f[n + 1] = r
      BY <2>3, <2>5 DEF r
    <3>11. QED
      BY <2>2, <3>1, <3>9, <3>10
  <2>6. QED
    BY <2>4, <2>5
<1> HIDE DEF T
<1>5. Len(s) \in T
  <2>1. \A n \in 0 .. Len(s) : n \in T
    <3> DEFINE N == Len(s)
    <3> HIDE DEF N
    <3>1. N \in Nat /\ \A n \in 0 .. N - 1 : n \in T => n + 1 \in T
      BY <1>2, <1>4 DEF N
    <3>2. \A n \in 0 .. N : n \in T
      BY <1>3, <3>1, IntervalInduction
    <3>3. QED
      BY <3>2 DEF N
  <2>2. QED
    BY <1>2, <2>1
<1>6. QED
  BY <1>1, <1>5 DEF T, SelectsBy

(* So it repeats nothing that s does not repeat.                             *)
LEMMA SelectFacts ==
  ASSUME NEW X, NEW s \in Seq(X), NEW S
  PROVE  /\ Select(s, S) \in Seq(X)
         /\ ToSet(Select(s, S)) = ToSet(s) \cap S
         /\ IsInjective(s) => IsInjective(Select(s, S))
<1> DEFINE r == Select(s, S)
<1>1. PICK e : Picks(e, r, s, Len(s), S)
  BY SelectPicks
<1>2. r \in Seq(X)
  BY SelectPicks
<1> HIDE DEF r
<1>3. DOMAIN r = 1 .. Len(r) /\ DOMAIN s = 1 .. Len(s) /\ Len(r) \in Nat /\ Len(s) \in Nat
  BY <1>2
<1>4. \A k \in DOMAIN r : e[k] \in DOMAIN s /\ r[k] = s[e[k]] /\ r[k] \in S
  BY <1>1, <1>3 DEF Picks
<1>5. \A i \in DOMAIN s : s[i] \in S => \E k \in DOMAIN r : e[k] = i
  BY <1>1, <1>3 DEF Picks
<1>6. \A k, l \in DOMAIN r : e[k] = e[l] => k = l
  <2> SUFFICES ASSUME NEW k \in DOMAIN r, NEW l \in DOMAIN r, k # l PROVE e[k] # e[l]
    OBVIOUS
  <2>1. k < l \/ l < k
    BY <1>3
  <2>2. e[k] \in Nat /\ e[l] \in Nat
    BY <1>3, <1>4
  <2>3. QED
    BY <1>1, <1>3, <2>1, <2>2 DEF Picks
<1>7. ToSet(r) = ToSet(s) \cap S
  BY <1>4, <1>5 DEF ToSet
<1>8. IsInjective(s) => IsInjective(r)
  BY <1>4, <1>6 DEF IsInjective
<1>9. QED
  BY <1>2, <1>7, <1>8 DEF r

(* And what it keeps stays in its order.                                     *)
LEMMA SelectInOrder ==
  ASSUME NEW X, NEW s \in Seq(X), NEW S
  PROVE  \A k, l \in DOMAIN Select(s, S) :
            k < l => \E i, j \in DOMAIN s : /\ i < j
                                            /\ Select(s, S)[k] = s[i]
                                            /\ Select(s, S)[l] = s[j]
<1> DEFINE r == Select(s, S)
<1>1. r \in Seq(X)
  BY SelectPicks
<1>2. PICK e : Picks(e, r, s, Len(s), S)
  BY SelectPicks
<1> HIDE DEF r
<1>3. DOMAIN r = 1 .. Len(r) /\ DOMAIN s = 1 .. Len(s)
  BY <1>1
<1>4. ASSUME NEW k \in DOMAIN r, NEW l \in DOMAIN r, k < l
      PROVE  \E i, j \in DOMAIN s : i < j /\ r[k] = s[i] /\ r[l] = s[j]
  <2>1. /\ e[k] \in DOMAIN s /\ e[l] \in DOMAIN s /\ e[k] < e[l]
        /\ r[k] = s[e[k]] /\ r[l] = s[e[l]]
    BY <1>2, <1>3, <1>4 DEF Picks
  <2>2. QED
    BY <2>1
<1>5. QED
  BY <1>4 DEF r

-----------------------------------------------------------------------------
(* The queues the loop of AddNew goes through.                               *)
AddsBy(f, queue, s, skip) ==
  /\ f[0] = queue /\ f[Len(s)] = AddNew(queue, s, skip)
  /\ \A i \in 1 .. Len(s) :
        f[i] = IF s[i] \in skip \/ Contains(f[i - 1], s[i])
                 THEN f[i - 1] ELSE Append(f[i - 1], s[i])

LEMMA AddNewSteps ==
  ASSUME NEW X, NEW queue \in Seq(X), NEW s \in Seq(X), NEW skip
  PROVE  \E f : AddsBy(f, queue, s, skip)
<1> DEFINE V == Seq(X)
           op == [v \in V |-> [x \in X |->
                    IF x \in skip \/ Contains(v, x) THEN v ELSE Append(v, x)]]
           D == SUBSET DOMAIN s
           Concrete(F) == F = [T \in D |->
              IF T = {} THEN queue
              ELSE IF s[Max(T)] \in skip \/ Contains(F[T \ {Max(T)}], s[Max(T)])
                     THEN F[T \ {Max(T)}] ELSE Append(F[T \ {Max(T)}], s[Max(T)])]
<1>1. queue \in V /\ OpIn(op, V, X)
  BY DEF OpIn
<1>2. PICK F : Folds(F, s, queue, op, V)
  <2> HIDE DEF V, op
  <2>1. QED
    BY <1>1, FoldExists
<1>3. Len(s) \in Nat /\ DOMAIN s = 1 .. Len(s) /\ \A i \in DOMAIN s : s[i] \in X
  OBVIOUS
<1>4. \A T \in D : T # {} => Max(T) \in DOMAIN s /\ T \ {Max(T)} \in D
  BY <1>3, MaxIsGreatest
<1>5. \A v \in V, x \in X :
        op[v][x] = IF x \in skip \/ Contains(v, x) THEN v ELSE Append(v, x)
  OBVIOUS
<1> HIDE DEF op, V, D
<1>6. ASSUME NEW T \in D
      PROVE  F[T] = IF T = {} THEN queue
              ELSE IF s[Max(T)] \in skip \/ Contains(F[T \ {Max(T)}], s[Max(T)])
                     THEN F[T \ {Max(T)}] ELSE Append(F[T \ {Max(T)}], s[Max(T)])
  <2>1. F[T] = IF T = {} THEN queue ELSE op[F[T \ {Max(T)}]][s[Max(T)]]
    BY <1>2 DEF Folds, FoldStep, D
  <2>2. T # {} => F[T \ {Max(T)}] \in V /\ s[Max(T)] \in X
    BY <1>2, <1>3, <1>4 DEF Folds, D
  <2>3. QED
    BY <2>1, <2>2, <1>5
<1>7. Concrete(F)
  BY <1>2, <1>6 DEF Folds, D
<1> DEFINE I == CHOOSE G : Concrete(G)
<1>8. Concrete(I)
  <2> HIDE DEF Concrete
  <2>1. QED
    BY <1>7
<1>9. AddNew(queue, s, skip) = I[DOMAIN s]
  BY DEF AddNew, FoldLeft, MapThenFoldSet, D
<1> HIDE DEF I
<1> DEFINE f == [i \in 0 .. Len(s) |-> I[1 .. i]]
<1>10. f[0] = queue
  <2>1. 1 .. 0 = {} /\ {} \in D
    BY DEF D
  <2>2. QED
    BY <2>1, <1>3, <1>8
<1>11. f[Len(s)] = AddNew(queue, s, skip)
  BY <1>3, <1>9
<1>12. ASSUME NEW i \in 1 .. Len(s)
       PROVE  f[i] = IF s[i] \in skip \/ Contains(f[i - 1], s[i])
                       THEN f[i - 1] ELSE Append(f[i - 1], s[i])
  <2>1. /\ 1 .. i \in D /\ 1 .. i # {} /\ Max(1 .. i) = i
        /\ (1 .. i) \ {Max(1 .. i)} = 1 .. i - 1
    BY <1>3, FoldPrefixes DEF D
  <2>2. I[1 .. i] = IF s[i] \in skip \/ Contains(I[1 .. i - 1], s[i])
                      THEN I[1 .. i - 1] ELSE Append(I[1 .. i - 1], s[i])
    BY <2>1, <1>8
  <2>3. f[i] = I[1 .. i] /\ f[i - 1] = I[1 .. i - 1]
    BY <1>3
  <2> HIDE DEF f
  <2>4. QED
    BY <2>2, <2>3
<1> HIDE DEF f
<1>13. QED
  BY <1>10, <1>11, <1>12 DEF AddsBy

(* Appending what a sequence does not contain.                               *)
LEMMA AppendNew ==
  ASSUME NEW X, NEW q \in Seq(X), NEW x \in X
  PROVE  /\ Append(q, x) \in Seq(X) /\ ToSet(Append(q, x)) = ToSet(q) \cup {x}
         /\ IsInjective(q) /\ ~Contains(q, x) => IsInjective(Append(q, x))
<1> DEFINE r == Append(q, x)
<1>1. /\ r \in Seq(X) /\ DOMAIN r = 1 .. Len(q) + 1 /\ DOMAIN q = 1 .. Len(q)
      /\ Len(q) \in Nat /\ r[Len(q) + 1] = x /\ \A k \in 1 .. Len(q) : r[k] = q[k]
  OBVIOUS
<1> HIDE DEF r
<1>2. \A k \in DOMAIN r : k = Len(q) + 1 \/ k \in DOMAIN q
  BY <1>1
<1>3. ToSet(r) = ToSet(q) \cup {x}
  <2>1. \A y \in ToSet(r) : y \in ToSet(q) \cup {x}
    BY <1>1, <1>2 DEF ToSet
  <2>2. x \in ToSet(r) /\ ToSet(q) \subseteq ToSet(r)
    BY <1>1 DEF ToSet
  <2>3. QED
    BY <2>1, <2>2
<1>4. ASSUME IsInjective(q), ~Contains(q, x) PROVE IsInjective(r)
  <2>1. \A k \in DOMAIN q : q[k] # x
    BY <1>1, <1>4 DEF Contains
  <2>2. QED
    BY <1>1, <1>2, <1>4, <2>1 DEF IsInjective
<1>5. QED
  BY <1>1, <1>3, <1>4 DEF r

(* AddNew repeats nothing, and adds nothing to skip.                         *)
LEMMA AddNewFacts ==
  ASSUME NEW X, NEW queue \in Seq(X), NEW s \in Seq(X), NEW skip, IsInjective(queue)
  PROVE  /\ AddNew(queue, s, skip) \in Seq(X) /\ IsInjective(AddNew(queue, s, skip))
         /\ ToSet(AddNew(queue, s, skip)) \subseteq ToSet(queue) \cup (ToSet(s) \ skip)
<1>1. PICK f : AddsBy(f, queue, s, skip)
  BY AddNewSteps
<1> DEFINE Good(q) == /\ q \in Seq(X) /\ IsInjective(q)
                      /\ ToSet(q) \subseteq ToSet(queue) \cup (ToSet(s) \ skip)
           N == Len(s)
           T == {n \in 0 .. N : Good(f[n])}
<1>2. N \in Nat /\ \A i \in 1 .. N : s[i] \in X /\ s[i] \in ToSet(s)
  BY DEF ToSet
<1> HIDE DEF N
<1>3. 0 \in T
  BY <1>1, <1>2 DEF AddsBy
<1>4. ASSUME NEW n \in 0 .. N - 1, n \in T PROVE n + 1 \in T
  <2>1. n + 1 \in 1 .. N /\ n + 1 \in 0 .. N /\ (n + 1) - 1 = n
    BY <1>2
  <2>2. f[n + 1] = IF s[n + 1] \in skip \/ Contains(f[n], s[n + 1])
                     THEN f[n] ELSE Append(f[n], s[n + 1])
    BY <1>1, <2>1 DEF AddsBy, N
  <2>3. s[n + 1] \in X /\ s[n + 1] \in ToSet(s) /\ Good(f[n])
    BY <1>2, <1>4, <2>1
  <2>4. Good(f[n + 1])
    <3>1. CASE s[n + 1] \in skip \/ Contains(f[n], s[n + 1])
      BY <2>2, <2>3, <3>1
    <3>2. CASE s[n + 1] \notin skip /\ ~Contains(f[n], s[n + 1])
      BY <2>2, <2>3, <3>2, AppendNew
    <3>3. QED
      BY <3>1, <3>2
  <2> HIDE DEF Good
  <2>5. QED
    BY <2>1, <2>4
<1> HIDE DEF T
<1>5. \A n \in 0 .. N : n \in T
  BY <1>2, <1>3, <1>4, IntervalInduction
<1>6. N \in T
  BY <1>2, <1>5
<1>7. QED
  BY <1>1, <1>6 DEF T, N, AddsBy

GrownFrom(list, queue) ==
  Len(queue) <= Len(list) /\ \A k \in 1 .. Len(queue) : list[k] = queue[k]

(* It keeps what the queue has where it is, and adds all else of s.          *)
LEMMA AddNewKeeps ==
  ASSUME NEW X, NEW queue \in Seq(X), NEW s \in Seq(X), NEW skip
  PROVE  /\ AddNew(queue, s, skip) \in Seq(X)
         /\ GrownFrom(AddNew(queue, s, skip), queue)
         /\ ToSet(s) \subseteq ToSet(AddNew(queue, s, skip)) \cup skip
<1>1. PICK f : AddsBy(f, queue, s, skip)
  BY AddNewSteps
<1> DEFINE N == Len(s)
           Keeps(q) == q \in Seq(X) /\ GrownFrom(q, queue)
           Has(q, n) == \A i \in 1 .. n : s[i] \in ToSet(q) \cup skip
           T == {n \in 0 .. N : Keeps(f[n]) /\ Has(f[n], n)}
<1>2. N \in Nat /\ \A i \in 1 .. N : s[i] \in X
  OBVIOUS
<1>3. 0 \in T
  <2>1. Keeps(queue) /\ Has(queue, 0)
    BY DEF GrownFrom
  <2>2. QED
    BY <1>1, <1>2, <2>1 DEF AddsBy
<1>4. ASSUME NEW n \in 0 .. N - 1, n \in T PROVE n + 1 \in T
  <2> DEFINE q == f[n]
             x == s[n + 1]
  <2>1. n + 1 \in 1 .. N /\ n + 1 \in 0 .. N /\ (n + 1) - 1 = n /\ n \in Nat
    BY <1>2
  <2>2. f[n + 1] = IF x \in skip \/ Contains(q, x) THEN q ELSE Append(q, x)
    BY <1>1, <2>1 DEF AddsBy
  <2>3. x \in X /\ Keeps(q) /\ Has(q, n)
    BY <1>2, <1>4, <2>1
  <2>4. \A i \in 1 .. n + 1 : i \in 1 .. n \/ i = n + 1
    BY <2>1
  <2> HIDE DEF q, x
  <2>5. CASE x \in skip \/ Contains(q, x)
    <3>1. x \in ToSet(q) \cup skip
      BY <2>5 DEF Contains, ToSet
    <3>2. Has(q, n + 1)
      BY <2>3, <2>4, <3>1 DEF x
    <3>3. QED
      BY <2>1, <2>2, <2>3, <2>5, <3>2
  <2>6. CASE ~(x \in skip \/ Contains(q, x))
    <3>1. ToSet(Append(q, x)) = ToSet(q) \cup {x}
      BY <2>3, AppendNew
    <3>2. Has(Append(q, x), n + 1)
      BY <2>3, <2>4, <3>1 DEF x
    <3>3. Keeps(Append(q, x))
      BY <2>3 DEF GrownFrom
    <3>4. QED
      BY <2>1, <2>2, <2>6, <3>2, <3>3
  <2>7. QED
    BY <2>5, <2>6
<1> HIDE DEF T
<1>5. \A n \in 0 .. N : n \in T
  BY <1>2, <1>3, <1>4, IntervalInduction
<1>6. Keeps(f[N]) /\ Has(f[N], N)
  BY <1>2, <1>5 DEF T
<1>7. f[N] = AddNew(queue, s, skip)
  BY <1>1 DEF AddsBy
<1>8. ToSet(s) \subseteq ToSet(f[N]) \cup skip
  BY <1>6 DEF ToSet
<1>9. QED
  BY <1>6, <1>7, <1>8

-----------------------------------------------------------------------------
(* FlattenSeq.                                                               *)

(* The beginnings that FlattenSeq joins, one sequence after the other.       *)
JoinsBy(f, ss, X) ==
  /\ f[0] = <<>> /\ f[Len(ss)] = FlattenSeq(ss)
  /\ \A i \in 1 .. Len(ss) : f[i] = f[i - 1] \o ss[i]
  /\ \A i \in 0 .. Len(ss) : f[i] \in Seq(X)

LEMMA FlattenSteps ==
  ASSUME NEW X, NEW ss \in Seq(Seq(X))
  PROVE  \E f : JoinsBy(f, ss, X)
<1> DEFINE V == Seq(X)
           N == Len(ss)
           join == [n \in Nat |-> [v \in V |-> IF n + 1 \in 1 .. N THEN v \o ss[n + 1] ELSE v]]
           Concrete(F) == F = [i \in 1 .. N |-> IF i = 1 THEN ss[i] ELSE F[i - 1] \o ss[i]]
<1>1. N \in Nat /\ \A i \in 1 .. N : ss[i] \in V
  OBVIOUS
<1>2. \A v, w \in V : v \o w \in V /\ <<>> \o w = w
  OBVIOUS
<1>3. <<>> \in V
  OBVIOUS
<1> HIDE DEF N, V
<1>4. StepsIn(join, V)
  BY <1>1, <1>2 DEF StepsIn
<1>5. PICK f : Follows(f, join, <<>>, V)
  <2> HIDE DEF join
  <2>1. QED
    BY <1>3, <1>4, Recursion
<1>6. f[0] = <<>> /\ \A i \in 0 .. N : f[i] \in V
  <2>1. \A i \in 0 .. N : i \in Nat
    BY <1>1
  <2>2. QED
    BY <1>5, <2>1 DEF Follows
<1>7. ASSUME NEW i \in 1 .. N PROVE f[i] = f[i - 1] \o ss[i]
  <2>1. i - 1 \in Nat /\ (i - 1) + 1 = i /\ f[i - 1] \in V
    BY <1>1, <1>6
  <2>2. f[(i - 1) + 1] = join[i - 1][f[i - 1]]
    BY <1>5, <2>1 DEF Follows
  <2>3. join[i - 1][f[i - 1]] = f[i - 1] \o ss[i]
    BY <1>1, <2>1
  <2>4. QED
    BY <2>1, <2>2, <2>3
<1> HIDE DEF join
<1>8. CASE N = 0
  <2>1. ss = <<>> /\ FlattenSeq(ss) = ss
    BY <1>8 DEF FlattenSeq, N
  <2>2. QED
    BY <1>6, <1>7, <1>8, <2>1 DEF JoinsBy, N, V
<1>9. CASE N # 0
  <2> DEFINE I == CHOOSE F : Concrete(F)
             g == [i \in 1 .. N |-> f[i]]
  <2>1. Concrete(g)
    <3>1. ASSUME NEW i \in 1 .. N PROVE f[i] = IF i = 1 THEN ss[i] ELSE g[i - 1] \o ss[i]
      <4>1. CASE i = 1
        <5>1. i - 1 = 0 /\ ss[i] \in V
          BY <1>1, <4>1
        <5>2. f[i] = f[0] \o ss[i]
          BY <1>7, <5>1
        <5>3. f[i] = ss[i]
          BY <1>2, <1>6, <5>1, <5>2
        <5>4. QED
          BY <4>1, <5>3
      <4>2. CASE i # 1
        <5>1. i - 1 \in 1 .. N
          BY <1>1, <4>2
        <5>2. QED
          BY <1>7, <4>2, <5>1
      <4>3. QED
        BY <4>1, <4>2
    <3>2. QED
      BY <3>1
  <2>2. Concrete(I)
    <3> HIDE DEF Concrete
    <3>1. QED
      BY <2>1
  <2>3. FlattenSeq(ss) = I[N]
    BY <1>9 DEF FlattenSeq, N
  <2> HIDE DEF I
  <2> DEFINE T == {n \in Nat : n \in 1 .. N => I[n] = f[n]}
  <2>4. 0 \in T
    BY <1>1
  <2>5. ASSUME NEW n \in 0 .. N - 1, n \in T PROVE n + 1 \in T
    <3>1. n + 1 \in 1 .. N /\ n \in Nat /\ (n + 1) - 1 = n
      BY <1>1
    <3>2. I[n + 1] = IF n + 1 = 1 THEN ss[n + 1] ELSE I[n] \o ss[n + 1]
      BY <2>2, <3>1
    <3>3. f[n + 1] = f[n] \o ss[n + 1]
      BY <1>7, <3>1
    <3>4. CASE n = 0
      <4>1. ss[n + 1] \in V /\ f[n] = <<>>
        BY <1>1, <1>6, <3>1, <3>4
      <4>2. f[n + 1] = ss[n + 1]
        BY <1>2, <3>3, <4>1
      <4>3. I[n + 1] = ss[n + 1]
        BY <3>2, <3>4
      <4>4. QED
        BY <3>1, <4>2, <4>3
    <3>5. CASE n # 0
      <4>1. n \in 1 .. N /\ n + 1 # 1
        BY <1>1, <3>5
      <4>2. I[n] = f[n]
        BY <2>5, <4>1
      <4>3. I[n + 1] = I[n] \o ss[n + 1]
        BY <3>2, <4>1
      <4>4. I[n + 1] = f[n + 1]
        BY <3>3, <4>2, <4>3
      <4>5. QED
        BY <3>1, <4>4
    <3>6. QED
      BY <3>4, <3>5
  <2> HIDE DEF T
  <2>6. \A n \in 0 .. N : n \in T
    BY <1>1, <2>4, <2>5, IntervalInduction
  <2>7. I[N] = f[N]
    BY <1>1, <1>9, <2>6 DEF T
  <2>8. QED
    BY <1>6, <1>7, <2>3, <2>7 DEF JoinsBy, N, V
<1>10. QED
  BY <1>8, <1>9

LEMMA FlattenEmpty == FlattenSeq(<<>>) = <<>>
  BY DEF FlattenSeq

LEMMA FlattenTyped ==
  ASSUME NEW X, NEW ss \in Seq(Seq(X))
  PROVE  FlattenSeq(ss) \in Seq(X)
<1>1. PICK f : JoinsBy(f, ss, X)
  BY FlattenSteps
<1>2. Len(ss) \in 0 .. Len(ss)
  OBVIOUS
<1>3. QED
  BY <1>1, <1>2 DEF JoinsBy

(* A function on 1 .. n is a sequence of length n. *)
IsList(f, n, X) == f = [i \in 1 .. n |-> f[i]] /\ \A i \in 1 .. n : f[i] \in X

LEMMA ListIsSeq ==
  ASSUME NEW X, NEW n \in Nat, NEW f, IsList(f, n, X)
  PROVE  f \in Seq(X) /\ Len(f) = n
<1>1. f = [i \in 1 .. n |-> f[i]] /\ \A i \in 1 .. n : f[i] \in X
  BY DEF IsList
<1>2. [i \in 1 .. n |-> f[i]] \in Seq(X) /\ Len([i \in 1 .. n |-> f[i]]) = n
  BY <1>1
<1>3. QED
  BY <1>1, <1>2

(* c elements after the first a. *)
LEMMA Stretch ==
  ASSUME NEW X, NEW s \in Seq(X), NEW a \in Nat, NEW c \in Nat, a + c <= Len(s)
  PROVE  /\ SubSeq(s, a + 1, a + c) \in Seq(X) /\ Len(SubSeq(s, a + 1, a + c)) = c
         /\ \A i \in 1 .. c : /\ a + i \in 1 .. Len(s)
                              /\ SubSeq(s, a + 1, a + c)[i] = s[a + i]
<1>1. \A i \in a + 1 .. a + c : s[i] \in X
  OBVIOUS
<1>2. a + 1 \in Int /\ a + c \in Int /\ (a + c) - (a + 1) + 1 = c
      /\ \A i \in 1 .. c : a + i \in 1 .. Len(s) /\ (a + 1) + i - 1 = a + i
  OBVIOUS
<1> DEFINE t == SubSeq(s, a + 1, a + c)
<1>3. /\ t \in Seq(X) /\ Len(t) = IF a + 1 <= a + c THEN (a + c) - (a + 1) + 1 ELSE 0
      /\ \A i \in 1 .. (a + c) - (a + 1) + 1 : t[i] = s[(a + 1) + i - 1]
  BY <1>1, <1>2, SubSeqProperties
<1> HIDE DEF t
<1>4. Len(t) = c
  BY <1>2, <1>3
<1>5. \A i \in 1 .. c : t[i] = s[a + i]
  BY <1>2, <1>3
<1>6. QED
  BY <1>2, <1>3, <1>4, <1>5 DEF t

(* One sequence more is joined at the end. *)
LEMMA FlattenAppend ==
  ASSUME NEW X, NEW ss \in Seq(Seq(X)), NEW s \in Seq(X)
  PROVE  FlattenSeq(Append(ss, s)) = FlattenSeq(ss) \o s
<1> DEFINE tt == Append(ss, s)
           N == Len(ss)
<1>1. /\ tt \in Seq(Seq(X)) /\ Len(tt) = N + 1 /\ N \in Nat /\ tt[N + 1] = s
      /\ \A i \in 1 .. N : tt[i] = ss[i]
  OBVIOUS
<1>2. PICK f : JoinsBy(f, ss, X)
  BY FlattenSteps
<1> HIDE DEF tt
<1>3. PICK g : JoinsBy(g, tt, X)
  BY <1>1, FlattenSteps
<1>4. \A i \in 1 .. N : f[i] = f[i - 1] \o ss[i]
  BY <1>2 DEF JoinsBy
<1>5. \A i \in 1 .. N + 1 : g[i] = g[i - 1] \o tt[i]
  BY <1>1, <1>3 DEF JoinsBy
<1>6. f[0] = <<>> /\ g[0] = <<>> /\ f[N] = FlattenSeq(ss) /\ g[N + 1] = FlattenSeq(tt)
  BY <1>1, <1>2, <1>3 DEF JoinsBy
<1> HIDE DEF N
<1> DEFINE T == {n \in Nat : f[n] = g[n]}
<1>7. 0 \in T
  BY <1>6
<1>8. ASSUME NEW n \in 0 .. N - 1, n \in T PROVE n + 1 \in T
  <2>1. n + 1 \in 1 .. N /\ n + 1 \in 1 .. N + 1 /\ (n + 1) - 1 = n /\ n + 1 \in Nat
    BY <1>1
  <2>2. f[n + 1] = f[n] \o ss[n + 1] /\ g[n + 1] = g[n] \o tt[n + 1]
    BY <1>4, <1>5, <2>1
  <2>3. QED
    BY <1>1, <1>8, <2>1, <2>2
<1> HIDE DEF T
<1>9. \A n \in 0 .. N : n \in T
  BY <1>1, <1>7, <1>8, IntervalInduction
<1>10. f[N] = g[N]
  BY <1>1, <1>9 DEF T
<1>11. N + 1 \in 1 .. N + 1 /\ (N + 1) - 1 = N
  BY <1>1
<1>12. g[N + 1] = g[N] \o s
  BY <1>1, <1>5, <1>11
<1>13. QED
  BY <1>6, <1>10, <1>12 DEF tt

(* The last sequence grows. *)
LEMMA FlattenGrows ==
  ASSUME NEW X, NEW ss \in Seq(Seq(X)), ss # <<>>, NEW t \in Seq(X)
  PROVE  FlattenSeq([ss EXCEPT ![Len(ss)] = @ \o t]) = FlattenSeq(ss) \o t
<1> DEFINE N == Len(ss)
           front == [i \in 1 .. N - 1 |-> ss[i]]
           last == ss[N]
           uu == [ss EXCEPT ![Len(ss)] = @ \o t]
<1>1. N \in Nat \ {0} /\ N - 1 \in Nat /\ \A i \in 1 .. N : ss[i] \in Seq(X)
  OBVIOUS
<1>2. front \in Seq(Seq(X)) /\ Len(front) = N - 1 /\ last \in Seq(X)
  BY <1>1
<1>3. ss = Append(front, last)
  BY <1>1, <1>2
<1>4. last \o t \in Seq(X)
  BY <1>2
<1>5. uu = Append(front, last \o t)
  <2>1. uu \in Seq(Seq(X)) /\ Len(uu) = N /\ uu[N] = last \o t
        /\ \A i \in 1 .. N - 1 : uu[i] = front[i]
    BY <1>1, <1>4
  <2> HIDE DEF uu, front, last
  <2>2. /\ Append(front, last \o t) \in Seq(Seq(X)) /\ Len(Append(front, last \o t)) = N
        /\ Append(front, last \o t)[N] = last \o t
        /\ \A i \in 1 .. N - 1 : Append(front, last \o t)[i] = front[i]
    BY <1>1, <1>2, <1>4
  <2> DEFINE vv == Append(front, last \o t)
  <2>3. \A i \in 1 .. N : i \in 1 .. N - 1 \/ i = N
    BY <1>1
  <2> HIDE DEF vv, N
  <2>4. uu \in Seq(Seq(X)) /\ vv \in Seq(Seq(X)) /\ Len(uu) = N /\ Len(vv) = N
        /\ \A i \in 1 .. N : uu[i] = vv[i]
    BY <2>1, <2>2, <2>3 DEF vv
  <2>5. QED
    BY <2>4, SeqEqual DEF vv
<1> HIDE DEF front, last, uu
<1>6. FlattenSeq(uu) = FlattenSeq(front) \o (last \o t)
  BY <1>2, <1>4, <1>5, FlattenAppend
<1>7. FlattenSeq(ss) = FlattenSeq(front) \o last
  BY <1>2, <1>3, FlattenAppend
<1>8. FlattenSeq(front) \in Seq(X)
  BY <1>2, FlattenTyped
<1>9. (FlattenSeq(front) \o last) \o t = FlattenSeq(front) \o (last \o t)
  <2> DEFINE a == FlattenSeq(front)
  <2>1. a \in Seq(X) /\ last \in Seq(X) /\ t \in Seq(X)
    BY <1>2, <1>8
  <2> HIDE DEF a
  <2>2. (a \o last) \o t = a \o (last \o t)
    BY <2>1, ConcatAssociative
  <2>3. QED
    BY <2>2 DEF a
<1>10. QED
  BY <1>2, <1>6, <1>7, <1>8, <1>9 DEF uu

-----------------------------------------------------------------------------
(* Select of lists put together.                                             *)
LEMMA SelectEmpty ==
  ASSUME NEW S
  PROVE  Select(<<>>, S) = <<>>
<1>1. <<>> \in Seq({}) /\ Len(<<>>) = 0
  OBVIOUS
<1>2. PICK f : SelectsBy(f, <<>>, S)
  BY <1>1, SelectSteps
<1>3. QED
  BY <1>1, <1>2 DEF SelectsBy

LEMMA SelectAppend ==
  ASSUME NEW X, NEW s \in Seq(X), NEW x \in X, NEW S
  PROVE  Select(Append(s, x), S) =
            IF x \in S THEN Append(Select(s, S), x) ELSE Select(s, S)
<1> DEFINE t == Append(s, x)
           N == Len(s)
<1>1. /\ t \in Seq(X) /\ Len(t) = N + 1 /\ N \in Nat /\ t[N + 1] = x
      /\ \A i \in 1 .. N : t[i] = s[i]
  OBVIOUS
<1>2. PICK f : SelectsBy(f, s, S)
  BY SelectSteps
<1> HIDE DEF t
<1>3. PICK g : SelectsBy(g, t, S)
  BY <1>1, SelectSteps
<1>4. \A i \in 1 .. N : f[i] = IF s[i] \in S THEN Append(f[i - 1], s[i]) ELSE f[i - 1]
  BY <1>2 DEF SelectsBy
<1>5. \A i \in 1 .. N + 1 :
         g[i] = IF t[i] \in S THEN Append(g[i - 1], t[i]) ELSE g[i - 1]
  BY <1>1, <1>3 DEF SelectsBy
<1>6. f[0] = <<>> /\ g[0] = <<>> /\ f[N] = Select(s, S) /\ g[N + 1] = Select(t, S)
  BY <1>1, <1>2, <1>3 DEF SelectsBy
<1> HIDE DEF N
<1> DEFINE T == {n \in Nat : f[n] = g[n]}
<1>7. 0 \in T
  BY <1>6
<1>8. ASSUME NEW n \in 0 .. N - 1, n \in T PROVE n + 1 \in T
  <2>1. n + 1 \in 1 .. N /\ n + 1 \in 1 .. N + 1 /\ (n + 1) - 1 = n /\ n + 1 \in Nat
    BY <1>1
  <2>2. /\ f[n + 1] = IF s[n + 1] \in S THEN Append(f[n], s[n + 1]) ELSE f[n]
        /\ g[n + 1] = IF t[n + 1] \in S THEN Append(g[n], t[n + 1]) ELSE g[n]
    BY <1>4, <1>5, <2>1
  <2>3. t[n + 1] = s[n + 1] /\ f[n] = g[n]
    BY <1>1, <1>8, <2>1
  <2>4. f[n + 1] = g[n + 1]
    BY <2>2, <2>3
  <2>5. QED
    BY <2>1, <2>4
<1> HIDE DEF T
<1>9. \A n \in 0 .. N : n \in T
  BY <1>1, <1>7, <1>8, IntervalInduction
<1>10. f[N] = g[N]
  BY <1>1, <1>9 DEF T
<1>11. N + 1 \in 1 .. N + 1 /\ (N + 1) - 1 = N
  BY <1>1
<1>12. g[N + 1] = IF x \in S THEN Append(g[N], x) ELSE g[N]
  BY <1>1, <1>5, <1>11
<1>13. QED
  BY <1>6, <1>10, <1>12 DEF t

(* The first n elements. *)
UpTo(s, n) == SubSeq(s, 1, n)

LEMMA StartFacts ==
  ASSUME NEW X, NEW s \in Seq(X)
  PROVE  /\ UpTo(s, 0) = <<>> /\ UpTo(s, Len(s)) = s
         /\ \A n \in 0 .. Len(s) : UpTo(s, n) \in Seq(X)
         /\ \A n \in 0 .. Len(s) - 1 : /\ s[n + 1] \in X
                                      /\ UpTo(s, n + 1) = Append(UpTo(s, n), s[n + 1])
<1>1. UpTo(s, 0) = <<>> /\ UpTo(s, Len(s)) = s
  BY DEF UpTo
<1>2. \A n \in 0 .. Len(s) : UpTo(s, n) \in Seq(X)
  BY DEF UpTo
<1>3. ASSUME NEW n \in 0 .. Len(s) - 1
      PROVE  s[n + 1] \in X /\ UpTo(s, n + 1) = Append(UpTo(s, n), s[n + 1])
  <2>1. n + 1 \in 1 .. Len(s) /\ n \in Nat /\ n + 1 \in 0 .. Len(s) /\ s[n + 1] \in X
    OBVIOUS
  <2> DEFINE a == UpTo(s, n + 1)
             b == Append(UpTo(s, n), s[n + 1])
  <2>2. /\ a \in Seq(X) /\ Len(a) = n + 1 /\ \A i \in 1 .. n + 1 : a[i] = s[i]
    BY <2>1 DEF UpTo
  <2>3. /\ b \in Seq(X) /\ Len(b) = n + 1 /\ \A i \in 1 .. n + 1 : b[i] = s[i]
    BY <2>1 DEF UpTo
  <2> HIDE DEF a, b
  <2>4. a = b
    BY <2>2, <2>3, SeqEqual
  <2>5. QED
    BY <2>1, <2>4 DEF a, b
<1>4. QED
  BY <1>1, <1>2, <1>3

LEMMA SelectConcat ==
  ASSUME NEW X, NEW s \in Seq(X), NEW t \in Seq(X), NEW S
  PROVE  Select(s \o t, S) = Select(s, S) \o Select(t, S)
<1> DEFINE N == Len(t)
           part(n) == UpTo(t, n)
           T == {n \in Nat : Select(s \o part(n), S) = Select(s, S) \o Select(part(n), S)}
<1>1. /\ N \in Nat /\ part(0) = <<>> /\ part(N) = t
      /\ \A n \in 0 .. N : part(n) \in Seq(X)
      /\ \A n \in 0 .. N - 1 : t[n + 1] \in X /\ part(n + 1) = Append(part(n), t[n + 1])
  BY StartFacts
<1>2. Select(s, S) \in Seq(X) /\ \A n \in 0 .. N : Select(part(n), S) \in Seq(X)
  BY <1>1, SelectFacts
<1>3. s \o <<>> = s /\ Select(s, S) \o <<>> = Select(s, S)
  BY <1>2
<1> HIDE DEF N, part
<1>4. 0 \in T
  BY <1>1, <1>3, SelectEmpty
<1>5. ASSUME NEW n \in 0 .. N - 1, n \in T PROVE n + 1 \in T
  <2> DEFINE p == part(n)
             x == t[n + 1]
             a == Select(s, S)
             b == Select(p, S)
  <2>1. n \in Nat /\ n \in 0 .. N /\ n + 1 \in Nat
    BY <1>1
  <2>2. p \in Seq(X) /\ x \in X /\ part(n + 1) = Append(p, x)
    BY <1>1, <2>1
  <2>3. a \in Seq(X) /\ b \in Seq(X) /\ Select(s \o p, S) = a \o b
    BY <1>2, <1>5, <2>1
  <2> HIDE DEF p, x
  <2>4. s \o Append(p, x) = Append(s \o p, x) /\ s \o p \in Seq(X)
    BY <2>2
  <2>5. Select(Append(s \o p, x), S) = IF x \in S THEN Append(a \o b, x) ELSE a \o b
    <3> DEFINE c == s \o p
    <3>1. c \in Seq(X) /\ x \in X /\ Select(c, S) = a \o b
      BY <2>2, <2>3, <2>4
    <3> HIDE DEF c, a, b
    <3>2. Select(Append(c, x), S) = IF x \in S THEN Append(Select(c, S), x) ELSE Select(c, S)
      BY <3>1, SelectAppend
    <3>3. QED
      BY <3>1, <3>2 DEF c
  <2>6. Select(Append(p, x), S) = IF x \in S THEN Append(b, x) ELSE b
    BY <2>2, SelectAppend
  <2> HIDE DEF a, b
  <2>7. a \o Append(b, x) = Append(a \o b, x)
    BY <2>2, <2>3
  <2>8. Select(s \o part(n + 1), S) = a \o Select(part(n + 1), S)
    BY <2>2, <2>4, <2>5, <2>6, <2>7
  <2>9. QED
    BY <2>1, <2>8 DEF a
<1> HIDE DEF T
<1>6. \A n \in 0 .. N : n \in T
  BY <1>1, <1>4, <1>5, IntervalInduction
<1>7. N \in T
  BY <1>1, <1>6
<1>8. QED
  BY <1>1, <1>7 DEF T

(* Select of what FlattenSeq joins. *)
LEMMA FlattenSelect ==
  ASSUME NEW X, NEW ss \in Seq(Seq(X)), NEW tt \in Seq(Seq(X)), NEW S,
         Len(tt) = Len(ss), \A n \in 1 .. Len(ss) : tt[n] = Select(ss[n], S)
  PROVE  FlattenSeq(tt) = Select(FlattenSeq(ss), S)
<1> DEFINE N == Len(ss)
<1>1. PICK f : JoinsBy(f, ss, X)
  BY FlattenSteps
<1>2. PICK g : JoinsBy(g, tt, X)
  BY FlattenSteps
<1>3. /\ f[0] = <<>> /\ g[0] = <<>> /\ f[N] = FlattenSeq(ss) /\ g[N] = FlattenSeq(tt)
      /\ \A i \in 1 .. N : f[i] = f[i - 1] \o ss[i] /\ g[i] = g[i - 1] \o tt[i]
      /\ \A i \in 0 .. N : f[i] \in Seq(X)
      /\ N \in Nat /\ \A n \in 1 .. N : tt[n] = Select(ss[n], S) /\ ss[n] \in Seq(X)
  <2>1. N \in Nat /\ \A n \in 1 .. N : ss[n] \in Seq(X)
    OBVIOUS
  <2>2. /\ f[0] = <<>> /\ f[N] = FlattenSeq(ss) /\ \A i \in 0 .. N : f[i] \in Seq(X)
        /\ \A i \in 1 .. N : f[i] = f[i - 1] \o ss[i]
    BY <1>1 DEF JoinsBy
  <2>3. /\ g[0] = <<>> /\ g[N] = FlattenSeq(tt)
        /\ \A i \in 1 .. N : g[i] = g[i - 1] \o tt[i]
    BY <1>2 DEF JoinsBy
  <2>4. \A n \in 1 .. N : tt[n] = Select(ss[n], S)
    OBVIOUS
  <2> HIDE DEF N
  <2>5. QED
    BY <2>1, <2>2, <2>3, <2>4
<1> HIDE DEF N
<1> DEFINE T == {n \in Nat : g[n] = Select(f[n], S)}
<1>4. 0 \in T
  BY <1>3, SelectEmpty
<1>5. ASSUME NEW n \in 0 .. N - 1, n \in T PROVE n + 1 \in T
  <2>1. n + 1 \in 1 .. N /\ n \in 0 .. N /\ (n + 1) - 1 = n /\ n + 1 \in Nat
    BY <1>3
  <2>2. /\ f[n + 1] = f[n] \o ss[n + 1] /\ g[n + 1] = g[n] \o Select(ss[n + 1], S)
        /\ f[n] \in Seq(X) /\ ss[n + 1] \in Seq(X) /\ g[n] = Select(f[n], S)
    BY <1>3, <1>5, <2>1
  <2>3. Select(f[n] \o ss[n + 1], S) = Select(f[n], S) \o Select(ss[n + 1], S)
    <3> DEFINE a == f[n]
               b == ss[n + 1]
    <3>1. a \in Seq(X) /\ b \in Seq(X)
      BY <2>2
    <3> HIDE DEF a, b
    <3>2. Select(a \o b, S) = Select(a, S) \o Select(b, S)
      BY <3>1, SelectConcat
    <3>3. QED
      BY <3>2 DEF a, b
  <2>4. g[n + 1] = Select(f[n + 1], S)
    BY <2>2, <2>3
  <2>5. QED
    BY <2>1, <2>4
<1> HIDE DEF T
<1>6. \A n \in 0 .. N : n \in T
  BY <1>3, <1>4, <1>5, IntervalInduction
<1>7. N \in T
  BY <1>3, <1>6
<1>8. QED
  BY <1>3, <1>7 DEF T


LEMMA SelectShorter ==
  ASSUME NEW X, NEW s \in Seq(X), NEW S
  PROVE  Len(Select(s, S)) <= Len(s)
<1>1. PICK f : SelectsBy(f, s, S)
  BY SelectSteps
<1> DEFINE N == Len(s)
           T == {n \in Nat : f[n] \in Seq(X) /\ Len(f[n]) <= n}
<1>2. /\ N \in Nat /\ f[0] = <<>> /\ f[N] = Select(s, S) /\ \A i \in 1 .. N : s[i] \in X
      /\ \A i \in 1 .. N : f[i] = IF s[i] \in S THEN Append(f[i - 1], s[i]) ELSE f[i - 1]
  BY <1>1 DEF SelectsBy
<1> HIDE DEF N
<1>3. 0 \in T
  <2>1. <<>> \in Seq(X) /\ Len(<<>>) <= 0
    OBVIOUS
  <2>2. QED
    BY <1>2, <2>1
<1>4. ASSUME NEW n \in 0 .. N - 1, n \in T PROVE n + 1 \in T
  <2>1. n \in Nat /\ n + 1 \in 1 .. N /\ f[n] \in Seq(X) /\ Len(f[n]) <= n /\ (n + 1) - 1 = n
    BY <1>2, <1>4
  <2>2. s[n + 1] \in X /\ f[n + 1] \in {f[n], Append(f[n], s[n + 1])}
    BY <1>2, <2>1
  <2>3. Append(f[n], s[n + 1]) \in Seq(X) /\ Len(Append(f[n], s[n + 1])) = Len(f[n]) + 1
    BY <2>1, <2>2
  <2>4. f[n + 1] \in Seq(X) /\ Len(f[n + 1]) <= n + 1
    <3>1. Len(f[n]) \in Nat
      BY <2>1
    <3>2. CASE f[n + 1] = f[n]
      BY <2>1, <3>1, <3>2
    <3>3. CASE f[n + 1] = Append(f[n], s[n + 1])
      BY <2>1, <2>3, <3>1, <3>3
    <3>4. QED
      BY <2>2, <3>2, <3>3
  <2>5. QED
    BY <2>1, <2>4
<1> HIDE DEF T
<1>5. \A n \in 0 .. N : n \in T
  BY <1>2, <1>3, <1>4, IntervalInduction
<1>6. QED
  BY <1>2, <1>5 DEF T, N


LEMMA Beginnings ==
  ASSUME NEW X, NEW s \in Seq(X)
  PROVE  /\ SubSeq(s, 1, 0) = <<>> /\ SubSeq(s, 1, Len(s)) = s
         /\ \A n \in 0 .. Len(s) : SubSeq(s, 1, n) \in Seq(X) /\ Len(SubSeq(s, 1, n)) = n
<1>1. Len(s) \in Nat /\ 0 \in Nat /\ 0 + Len(s) <= Len(s)
  OBVIOUS
<1>2. SubSeq(s, 1, 0) = <<>>
  OBVIOUS
<1> DEFINE t == SubSeq(s, 0 + 1, 0 + Len(s))
<1>3. t \in Seq(X) /\ Len(t) = Len(s) /\ \A i \in 1 .. Len(s) : t[i] = s[0 + i]
  BY <1>1, Stretch
<1>4. t = SubSeq(s, 1, Len(s)) /\ \A i \in 1 .. Len(s) : 0 + i = i
  BY <1>1
<1> HIDE DEF t
<1>5. \A i \in 1 .. Len(s) : t[i] = s[i]
  BY <1>3, <1>4
<1>6. t = s
  BY <1>3, <1>5, SeqEqual
<1>7. ASSUME NEW n \in 0 .. Len(s)
      PROVE  SubSeq(s, 1, n) \in Seq(X) /\ Len(SubSeq(s, 1, n)) = n
  <2>1. n \in Nat /\ 0 + n <= Len(s) /\ 0 + n = n /\ 0 + 1 = 1
    BY <1>1
  <2>2. SubSeq(s, 0 + 1, 0 + n) \in Seq(X) /\ Len(SubSeq(s, 0 + 1, 0 + n)) = n
    BY <1>1, <2>1, Stretch
  <2>3. QED
    BY <2>1, <2>2
<1>8. QED
  BY <1>2, <1>4, <1>6, <1>7

LEMMA StretchJoins ==
  ASSUME NEW X, NEW s \in Seq(X), NEW a \in Nat, NEW c \in Nat, a + c <= Len(s)
  PROVE  SubSeq(s, 1, a) \o SubSeq(s, a + 1, a + c) = SubSeq(s, 1, a + c)
<1> DEFINE u == SubSeq(s, 1, a)
           v == SubSeq(s, a + 1, a + c)
           w == SubSeq(s, 1, a + c)
<1>1. /\ a \in Nat /\ 0 \in Nat /\ 0 + a <= Len(s) /\ 0 + 1 = 1 /\ 0 + a = a
      /\ a + c \in Nat /\ 0 + (a + c) <= Len(s) /\ 0 + (a + c) = a + c
      /\ \A i \in Nat : 0 + i = i
  OBVIOUS
<1>2. u \in Seq(X) /\ Len(u) = a /\ \A i \in 1 .. a : u[i] = s[i]
  <2>1. /\ SubSeq(s, 0 + 1, 0 + a) \in Seq(X) /\ Len(SubSeq(s, 0 + 1, 0 + a)) = a
        /\ \A i \in 1 .. a : SubSeq(s, 0 + 1, 0 + a)[i] = s[0 + i]
    BY <1>1, Stretch
  <2>2. QED
    BY <1>1, <2>1
<1>3. v \in Seq(X) /\ Len(v) = c /\ \A i \in 1 .. c : v[i] = s[a + i]
  BY Stretch
<1>4. w \in Seq(X) /\ Len(w) = a + c /\ \A i \in 1 .. a + c : w[i] = s[i]
  <2> DEFINE d == a + c
  <2>1. d \in Nat /\ 0 + d <= Len(s) /\ 0 + d = d
    BY <1>1
  <2> HIDE DEF d
  <2>2. /\ SubSeq(s, 0 + 1, 0 + d) \in Seq(X) /\ Len(SubSeq(s, 0 + 1, 0 + d)) = d
        /\ \A i \in 1 .. d : SubSeq(s, 0 + 1, 0 + d)[i] = s[0 + i]
    BY <1>1, <2>1, Stretch
  <2>3. /\ SubSeq(s, 1, d) \in Seq(X) /\ Len(SubSeq(s, 1, d)) = d
        /\ \A i \in 1 .. d : SubSeq(s, 1, d)[i] = s[i]
    BY <1>1, <2>1, <2>2
  <2>4. QED
    BY <2>3 DEF d
<1> HIDE DEF u, v, w
<1>5. /\ u \o v \in Seq(X) /\ Len(u \o v) = a + c
      /\ \A i \in 1 .. a : (u \o v)[i] = u[i]
      /\ \A i \in 1 .. c : (u \o v)[a + i] = v[i]
  <2>1. u \in Seq(X) /\ v \in Seq(X) /\ Len(u) = a /\ Len(v) = c
    BY <1>2, <1>3
  <2>2. /\ u \o v \in Seq(X) /\ Len(u \o v) = Len(u) + Len(v)
        /\ \A i \in 1 .. Len(u) : (u \o v)[i] = u[i]
        /\ \A i \in 1 .. Len(v) : (u \o v)[Len(u) + i] = v[i]
    BY <2>1
  <2>3. QED
    BY <2>1, <2>2
<1>6. \A i \in 1 .. a + c : (u \o v)[i] = w[i]
  <2>1. ASSUME NEW i \in 1 .. a + c PROVE (u \o v)[i] = w[i]
    <3>1. CASE i \in 1 .. a
      BY <1>2, <1>4, <1>5, <3>1
    <3>2. CASE i \notin 1 .. a
      <4>1. i - a \in 1 .. c /\ a + (i - a) = i
        BY <3>2
      <4>2. (u \o v)[i] = v[i - a] /\ v[i - a] = s[i]
        BY <1>3, <1>5, <4>1
      <4>3. QED
        BY <1>4, <4>2
    <3>3. QED
      BY <3>1, <3>2
  <2>2. QED
    BY <2>1
<1>7. u \o v = w
  BY <1>4, <1>5, <1>6, SeqEqual
<1>8. QED
  BY <1>7 DEF u, v, w


(* A sequence that begins a beginning of s begins s.                         *)
LEMMA BeginsIsPrefix ==
  ASSUME NEW X, NEW s \in Seq(X), NEW n \in 0 .. Len(s),
         NEW r \in Seq(X), NEW rest \in Seq(X), SubSeq(s, 1, n) = r \o rest
  PROVE  IsPrefix(r, s)
<1> DEFINE t == SubSeq(s, 1, n)
           m == Len(r)
<1>1. /\ Len(s) \in Nat /\ n \in Nat /\ 0 + n = n /\ 0 + 1 = 1 /\ 0 + n <= Len(s)
      /\ \A i \in Nat : 0 + i = i
  OBVIOUS
<1>2. Len(t) = n /\ \A i \in 1 .. n : t[i] = s[i]
  <2>1. /\ Len(SubSeq(s, 0 + 1, 0 + n)) = n
        /\ \A i \in 1 .. n : SubSeq(s, 0 + 1, 0 + n)[i] = s[0 + i]
    BY <1>1, Stretch
  <2>2. QED
    BY <1>1, <2>1
<1>3. /\ m \in Nat /\ Len(r \o rest) = m + Len(rest) /\ Len(rest) \in Nat
      /\ \A i \in 1 .. m : (r \o rest)[i] = r[i]
  OBVIOUS
<1>4. t = r \o rest
  OBVIOUS
<1> HIDE DEF t, m
<1>5. m <= n /\ \A i \in 1 .. m : s[i] = r[i]
  <2>1. m <= n
    BY <1>1, <1>2, <1>3, <1>4
  <2>2. ASSUME NEW i \in 1 .. m PROVE s[i] = r[i]
    <3>1. i \in 1 .. n
      BY <1>1, <1>3, <2>1
    <3>2. t[i] = s[i] /\ (r \o rest)[i] = r[i]
      BY <1>2, <1>3, <3>1
    <3>3. QED
      BY <1>4, <3>2
  <2>3. QED
    BY <2>1, <2>2
<1>6. m \in 0 .. Len(s) /\ 0 + m <= Len(s) /\ 0 + m = m
  BY <1>1, <1>3, <1>5
<1> DEFINE u == SubSeq(s, 1, m)
<1>7. u \in Seq(X) /\ Len(u) = m /\ \A i \in 1 .. m : u[i] = s[i]
  <2>1. /\ SubSeq(s, 0 + 1, 0 + m) \in Seq(X) /\ Len(SubSeq(s, 0 + 1, 0 + m)) = m
        /\ \A i \in 1 .. m : SubSeq(s, 0 + 1, 0 + m)[i] = s[0 + i]
    BY <1>1, <1>3, <1>6, Stretch
  <2>2. QED
    BY <1>1, <1>3, <1>6, <2>1
<1> HIDE DEF u
<1>8. u = r
  BY <1>5, <1>7, SeqEqual DEF m
<1>9. SubSeq(r, 1, Len(r)) = r
  BY Beginnings
<1>10. QED
  BY <1>1, <1>5, <1>6, <1>8, <1>9 DEF u, m, IsPrefix


(* A recursive function on a .. b: there is one, with values in V.           *)
StepsOn(step, a, b, V) == \A p \in a + 1 .. b, v \in V : step[p][v] \in V

RunsOn(g, step, v0, a, b, V) ==
  /\ g \in [a .. b -> V] /\ g[a] = v0
  /\ \A p \in a + 1 .. b : g[p] = step[p][g[p - 1]]

LEMMA IntervalRecursion ==
  ASSUME NEW a \in Nat, NEW b \in Nat, a <= b, NEW V, NEW v0 \in V, NEW step,
         StepsOn(step, a, b, V)
  PROVE  \E g : RunsOn(g, step, v0, a, b, V)
<1> DEFINE next(n) == [v \in V |-> IF a + n + 1 \in a + 1 .. b THEN step[a + n + 1][v] ELSE v]
           steps == [n \in Nat |-> next(n)]
<1>1. ASSUME NEW n \in Nat, NEW v \in V
      PROVE  /\ steps[n][v] \in V
             /\ a + n + 1 \in a + 1 .. b => steps[n][v] = step[a + n + 1][v]
  BY DEF StepsOn
<1> HIDE DEF next, steps
<1>2. PICK f : Follows(f, steps, v0, V)
  BY <1>1, Recursion DEF StepsIn
<1> DEFINE g == [p \in a .. b |-> f[p - a]]
<1>3. ASSUME NEW p \in a .. b PROVE g[p] = f[p - a] /\ g[p] \in V /\ p - a \in Nat
  BY <1>2 DEF Follows
<1>4. g[a] = v0
  <2>1. a \in a .. b /\ a - a = 0
    OBVIOUS
  <2>2. g[a] = f[0]
    BY <2>1
  <2>3. QED
    BY <1>2, <2>2 DEF Follows
<1>5. ASSUME NEW p \in a + 1 .. b PROVE g[p] = step[p][g[p - 1]]
  <2> DEFINE n == p - 1 - a
  <2>1. n \in Nat /\ p - a = n + 1 /\ p - 1 \in a .. b /\ p \in a .. b /\ a + n + 1 = p
    OBVIOUS
  <2>2. g[p - 1] = f[n] /\ f[n] \in V /\ g[p] = f[n + 1]
    BY <1>3, <2>1
  <2> HIDE DEF n, g
  <2>3. f[n + 1] = steps[n][f[n]]
    BY <1>2, <2>1 DEF Follows
  <2>4. steps[n][f[n]] = step[p][f[n]]
    BY <1>1, <2>1, <2>2
  <2>5. QED
    BY <2>2, <2>3, <2>4
<1>6. g \in [a .. b -> V]
  BY <1>3
<1>7. QED
  BY <1>4, <1>5, <1>6 DEF RunsOn


(* A typing of what is kept. *)
LEMMA SelectTyped ==
  ASSUME NEW X, NEW s \in Seq(X), NEW S
  PROVE  Select(s, S) \in Seq(X \cap S)
<1> DEFINE r == Select(s, S)
<1>1. r \in Seq(X) /\ ToSet(r) = ToSet(s) \cap S
  BY SelectFacts
<1> HIDE DEF r
<1>2. \A i \in 1 .. Len(r) : r[i] \in X \cap S
  BY <1>1 DEF ToSet
<1>3. Len(r) \in Nat /\ r = [i \in 1 .. Len(r) |-> r[i]]
  BY <1>1
<1>4. IsList(r, Len(r), X \cap S)
  BY <1>2, <1>3 DEF IsList
<1>5. QED
  BY <1>3, <1>4, ListIsSeq DEF r


-----------------------------------------------------------------------------
(* Sums.                                                                     *)

(* The numbers the loop of SumOf goes through. *)
SumsBy(f, s) == /\ f \in [0 .. Len(s) -> Nat] /\ f[0] = 0
                /\ \A i \in 1 .. Len(s) : f[i] = f[i - 1] + s[i]

LEMMA SumSteps ==
  ASSUME NEW s \in Seq(Nat)
  PROVE  \E f : SumsBy(f, s) /\ f[Len(s)] = SumOf(s)
<1> DEFINE N == Len(s)
           V == Nat
           step == [p \in 1 .. N |-> [v \in V |-> v + s[p]]]
           Concrete(F) == F = [n \in 0 .. N |-> IF n = 0 THEN 0 ELSE F[n - 1] + s[n]]
           I == CHOOSE F : Concrete(F)
<1>1. N \in Nat /\ \A p \in 1 .. N : s[p] \in Nat
  OBVIOUS
<1>2. SumOf(s) = I[N]
  BY DEF SumOf
<1>3. \A p \in 1 .. N, v \in V : step[p][v] = v + s[p] /\ v + s[p] \in V
  BY <1>1
<1>4. StepsOn(step, 0, N, V)
  <2>1. 0 + 1 = 1
    OBVIOUS
  <2> HIDE DEF step, N, V
  <2>2. QED
    BY <1>3, <2>1 DEF StepsOn
<1>5. PICK g : RunsOn(g, step, 0, 0, N, V)
  <2>1. 0 \in V
    OBVIOUS
  <2> HIDE DEF step, N, V
  <2>2. QED
    BY <1>1, <1>4, <2>1, IntervalRecursion
<1> HIDE DEF step, N
<1>6. g \in [0 .. N -> V] /\ g[0] = 0 /\ \A p \in 1 .. N : g[p] = step[p][g[p - 1]]
  BY <1>5 DEF RunsOn
<1>7. \A p \in 1 .. N : g[p] = g[p - 1] + s[p]
  <2> TAKE p \in 1 .. N
  <2>1. p - 1 \in 0 .. N
    BY <1>1
  <2>2. QED
    BY <1>3, <1>6, <2>1
<1>8. Concrete(g)
  <2>1. \A n \in 0 .. N : n # 0 => n \in 1 .. N
    BY <1>1
  <2>2. QED
    BY <1>6, <1>7, <2>1
<1>9. Concrete(I)
  <2> HIDE DEF Concrete
  <2>1. QED
    BY <1>8
<1> HIDE DEF I
<1> DEFINE T == {n \in Nat : n \in 0 .. N => I[n] = g[n]}
<1>10. 0 \in 0 .. N /\ I[0] = 0 /\ \A n \in 1 .. N : n \in 0 .. N /\ I[n] = I[n - 1] + s[n]
  BY <1>1, <1>9
<1>11. 0 \in T
  BY <1>6, <1>10
<1>12. ASSUME NEW n \in 0 .. N - 1, n \in T PROVE n + 1 \in T
  <2>1. n + 1 \in 1 .. N /\ (n + 1) - 1 = n /\ n \in 0 .. N /\ n + 1 \in Nat
    BY <1>1
  <2>2. I[n + 1] = I[n] + s[n + 1] /\ g[n + 1] = g[n] + s[n + 1]
    BY <1>7, <1>10, <2>1
  <2>3. QED
    BY <1>12, <2>1, <2>2
<1> HIDE DEF T
<1>13. \A n \in 0 .. N : n \in T
  BY <1>1, <1>11, <1>12, IntervalInduction
<1>14. N \in T /\ N \in 0 .. N
  BY <1>1, <1>13
<1>15. I[N] = g[N]
  BY <1>14 DEF T
<1>16. SumsBy(g, s)
  BY <1>6, <1>7 DEF SumsBy, N
<1>17. QED
  BY <1>2, <1>15, <1>16 DEF N

(* Whatever adds up the elements of s one by one ends at their sum. *)
LEMMA SumIs ==
  ASSUME NEW s \in Seq(Nat), NEW g, SumsBy(g, s)
  PROVE  SumOf(s) = g[Len(s)] /\ SumOf(s) \in Nat
<1> DEFINE N == Len(s)
<1>1. PICK f : SumsBy(f, s) /\ f[N] = SumOf(s)
  BY SumSteps
<1>2. N \in Nat /\ f[0] = 0 /\ g[0] = 0 /\ f[N] \in Nat
  BY <1>1 DEF SumsBy
<1>3. \A i \in 1 .. N : f[i] = f[i - 1] + s[i] /\ g[i] = g[i - 1] + s[i]
  BY <1>1 DEF SumsBy
<1> HIDE DEF N
<1> DEFINE T == {n \in Nat : f[n] = g[n]}
<1>4. 0 \in T
  BY <1>2
<1>5. ASSUME NEW n \in 0 .. N - 1, n \in T PROVE n + 1 \in T
  <2>1. n + 1 \in 1 .. N /\ (n + 1) - 1 = n /\ n + 1 \in Nat
    BY <1>2
  <2>2. f[n + 1] = f[n] + s[n + 1] /\ g[n + 1] = g[n] + s[n + 1]
    BY <1>3, <2>1
  <2>3. QED
    BY <1>5, <2>1, <2>2
<1> HIDE DEF T
<1>6. \A n \in 0 .. N : n \in T
  BY <1>2, <1>4, <1>5, IntervalInduction
<1>7. N \in T
  BY <1>2, <1>6
<1>8. QED
  BY <1>1, <1>2, <1>7 DEF T, N

(* A sum of the first numbers is at most that of more of them. *)
LEMMA SumsGrow ==
  ASSUME NEW s \in Seq(Nat), NEW f, SumsBy(f, s), NEW i \in 0 .. Len(s)
  PROVE  f[i] \in Nat /\ f[i] <= f[Len(s)]
<1> DEFINE N == Len(s)
<1>1. N \in Nat /\ f \in [0 .. N -> Nat] /\ \A n \in 1 .. N : f[n] = f[n - 1] + s[n] /\ s[n] \in Nat
  BY DEF SumsBy
<1> HIDE DEF N
<1> DEFINE T == {n \in Nat : n \in i .. N => f[i] <= f[n]}
<1>2. i \in 0 .. N
  BY DEF N
<1>3. 0 \in T
  BY <1>1, <1>2
<1>4. ASSUME NEW n \in 0 .. N - 1, n \in T PROVE n + 1 \in T
  <2>1. CASE n + 1 \notin i .. N \/ n + 1 = i
    BY <1>1, <1>2, <2>1
  <2>2. CASE n + 1 \in i .. N /\ n + 1 # i
    <3>1. n \in i .. N /\ n + 1 \in 1 .. N /\ (n + 1) - 1 = n /\ n \in 0 .. N
      BY <1>1, <1>2, <2>2
    <3>2. f[i] <= f[n] /\ f[n] \in Nat /\ f[i] \in Nat /\ f[n + 1] = f[n] + s[n + 1] /\ s[n + 1] \in Nat
      BY <1>1, <1>2, <1>4, <3>1
    <3>3. QED
      BY <3>1, <3>2
  <2>3. QED
    BY <2>1, <2>2
<1> HIDE DEF T
<1>5. \A n \in 0 .. N : n \in T
  BY <1>1, <1>3, <1>4, IntervalInduction
<1>6. N \in T /\ N \in i .. N
  BY <1>1, <1>2, <1>5
<1>7. QED
  BY <1>1, <1>2, <1>6 DEF T, N


-----------------------------------------------------------------------------
(* More about Select.                                                        *)

LEMMA SelectNothing ==
  ASSUME NEW X, NEW s \in Seq(X), NEW S, \A i \in 1 .. Len(s) : s[i] \notin S
  PROVE  Select(s, S) = <<>>
<1> DEFINE r == Select(s, S)
<1>1. r \in Seq(X) /\ ToSet(r) = ToSet(s) \cap S
  BY SelectFacts
<1>2. ToSet(s) \cap S = {}
  BY DEF ToSet
<1> HIDE DEF r
<1>3. Len(r) \in Nat /\ DOMAIN r = 1 .. Len(r) /\ \A i \in DOMAIN r : r[i] \in ToSet(r)
  BY <1>1 DEF ToSet
<1>4. Len(r) = 0
  BY <1>1, <1>2, <1>3
<1>5. QED
  BY <1>1, <1>4 DEF r

LEMMA SelectAllLength ==
  ASSUME NEW X, NEW s \in Seq(X), NEW S, \A i \in 1 .. Len(s) : s[i] \in S
  PROVE  Len(Select(s, S)) = Len(s)
<1> DEFINE N == Len(s)
<1>1. PICK f : SelectsBy(f, s, S)
  BY SelectSteps
<1>2. /\ N \in Nat /\ f[0] = <<>> /\ f[N] = Select(s, S)
      /\ \A i \in 1 .. N : f[i] = Append(f[i - 1], s[i]) /\ s[i] \in X
  <2>1. N \in Nat /\ \A i \in 1 .. N : s[i] \in X
    OBVIOUS
  <2>2. f[0] = <<>> /\ f[N] = Select(s, S)
    BY <1>1 DEF SelectsBy
  <2>3. \A i \in 1 .. N : f[i] = Append(f[i - 1], s[i])
    BY <1>1 DEF SelectsBy
  <2>4. QED
    BY <2>1, <2>2, <2>3
<1> HIDE DEF N
<1> DEFINE T == {n \in Nat : f[n] \in Seq(X) /\ Len(f[n]) = n}
<1>3. 0 \in T
  <2>1. <<>> \in Seq(X) /\ Len(<<>>) = 0
    OBVIOUS
  <2>2. QED
    BY <1>2, <2>1
<1>4. ASSUME NEW n \in 0 .. N - 1, n \in T PROVE n + 1 \in T
  <2>1. n + 1 \in 1 .. N /\ (n + 1) - 1 = n /\ n + 1 \in Nat
    BY <1>2
  <2>2. f[n + 1] = Append(f[n], s[n + 1]) /\ s[n + 1] \in X /\ f[n] \in Seq(X) /\ Len(f[n]) = n
    BY <1>2, <1>4, <2>1
  <2> DEFINE q == f[n]
             x == s[n + 1]
  <2> HIDE DEF q, x
  <2>3. q \in Seq(X) /\ x \in X => Append(q, x) \in Seq(X) /\ Len(Append(q, x)) = Len(q) + 1
    OBVIOUS
  <2>4. QED
    BY <2>1, <2>2, <2>3 DEF q, x
<1> HIDE DEF T
<1>5. \A n \in 0 .. N : n \in T
  BY <1>2, <1>3, <1>4, IntervalInduction
<1>6. N \in T
  BY <1>2, <1>5
<1>7. QED
  BY <1>2, <1>6 DEF T, N

(* A loop that appends something for the elements of S and nothing for the   *)
(* others.                                                                   *)
Singles(s, S) == [i \in 1 .. Len(s) |-> IF s[i] \in S THEN <<s[i]>> ELSE <<>>]

LEMMA FlattenSingles ==
  ASSUME NEW X, NEW s \in Seq(X), NEW S
  PROVE  FlattenSeq(Singles(s, S)) = Select(s, S)
<1> DEFINE N == Len(s)
           ss == Singles(s, S)
<1>1. N \in Nat /\ \A i \in 1 .. N : /\ s[i] \in X
                                     /\ ss[i] = (IF s[i] \in S THEN <<s[i]>> ELSE <<>>)
  BY DEF Singles
<1>2. ss \in Seq(Seq(X)) /\ Len(ss) = N
  <2> DEFINE Y == Seq(X)
  <2>1. \A i \in 1 .. N : ss[i] \in Y
    <3> TAKE i \in 1 .. N
    <3>1. s[i] \in X /\ ss[i] = (IF s[i] \in S THEN <<s[i]>> ELSE <<>>)
      BY <1>1
    <3>2. <<>> \in Seq(X) /\ <<s[i]>> \in Seq(X)
      BY <3>1
    <3> HIDE DEF ss
    <3>3. QED
      BY <3>1, <3>2
  <2>2. ss = [i \in 1 .. N |-> ss[i]]
    BY DEF Singles
  <2> HIDE DEF Y, ss, N
  <2>3. IsList(ss, N, Y)
    BY <2>1, <2>2 DEF IsList
  <2>4. ss \in Seq(Y) /\ Len(ss) = N
    BY <1>1, <2>3, ListIsSeq
  <2>5. QED
    BY <2>4 DEF Y
<1> HIDE DEF ss
<1>3. PICK f : JoinsBy(f, ss, X)
  BY <1>2, FlattenSteps
<1>4. PICK g : SelectsBy(g, s, S)
  BY SelectSteps
<1>5. /\ f[0] = <<>> /\ f[N] = FlattenSeq(ss) /\ \A i \in 0 .. N : f[i] \in Seq(X)
      /\ \A i \in 1 .. N : f[i] = f[i - 1] \o ss[i]
  BY <1>2, <1>3 DEF JoinsBy
<1>6. /\ g[0] = <<>> /\ g[N] = Select(s, S)
      /\ \A i \in 1 .. N : g[i] = IF s[i] \in S THEN Append(g[i - 1], s[i]) ELSE g[i - 1]
  BY <1>4 DEF SelectsBy
<1> HIDE DEF N
<1> DEFINE T == {n \in Nat : f[n] = g[n]}
<1>7. 0 \in T
  BY <1>5, <1>6
<1>8. ASSUME NEW n \in 0 .. N - 1, n \in T PROVE n + 1 \in T
  <2>1. n + 1 \in 1 .. N /\ (n + 1) - 1 = n /\ n + 1 \in Nat /\ n \in 0 .. N
    BY <1>1
  <2> DEFINE q == f[n]
             x == s[n + 1]
  <2>2. /\ f[n + 1] = q \o (IF x \in S THEN <<x>> ELSE <<>>)
        /\ g[n + 1] = (IF x \in S THEN Append(q, x) ELSE q)
        /\ q \in Seq(X) /\ x \in X
    BY <1>1, <1>5, <1>6, <1>8, <2>1
  <2> HIDE DEF q, x
  <2>3. q \in Seq(X) /\ x \in X => q \o <<x>> = Append(q, x) /\ q \o <<>> = q
    OBVIOUS
  <2>4. f[n + 1] = g[n + 1]
    BY <2>2, <2>3
  <2>5. QED
    BY <2>1, <2>4
<1> HIDE DEF T
<1>9. \A n \in 0 .. N : n \in T
  BY <1>1, <1>7, <1>8, IntervalInduction
<1>10. N \in T
  BY <1>1, <1>9
<1>11. QED
  BY <1>5, <1>6, <1>10 DEF T, ss

=============================================================================
