----------------------------- MODULE Induction -----------------------------
(***************************************************************************)
(* Induction for proofs about recursive functions and folds.  The theorems *)
(* of the library take a predicate; these take a set, so that a proof can  *)
(* name what it shows of every number as a set comprehension.              *)
(***************************************************************************)
EXTENDS Integers, FiniteSets, FiniteSetsExt, FiniteSetTheorems, WellFoundedInduction, TLAPS

(* What holds of 0, and of n + 1 with n, holds of every natural number: a  *)
(* smallest exception n would make 1..n a minimal one among finite sets.   *)
LEMMA InductionOnNat ==
  ASSUME NEW T, 0 \in T, \A n \in Nat : n \in T => n + 1 \in T
  PROVE  Nat \subseteq T
<1> DEFINE B == {n \in Nat : n \notin T}
           Q == {1..n : n \in B}
           R == StrictSubsetOrdering(Nat)
<1> SUFFICES ASSUME NEW b \in B PROVE FALSE
  OBVIOUS
<1>1. Q \subseteq FiniteSubsetsOf(Nat) /\ Q # {}
  <2>1. \A n \in Nat : 1..n \in SUBSET Nat /\ IsFiniteSet(1..n)
    BY FS_Interval
  <2> QED
    BY <2>1 DEF FiniteSubsetsOf
<1>2. IsWellFoundedOn(R, FiniteSubsetsOf(Nat))
  BY FS_StrictSubsetOrderingWellFounded
<1>3. \E q \in Q : \A p \in Q : ~ (<<p, q>> \in R)
  <2> HIDE DEF Q, R
  <2> QED
    BY <1>1, <1>2, WFMin
<1>4. PICK n \in B : \A p \in Q : ~ (<<p, 1..n>> \in R)
  BY <1>3
<1>5. n # 0 /\ n \in Nat /\ n - 1 \in Nat /\ (n - 1) + 1 = n
  BY <1>4
<1>6. 1..(n - 1) \in Q
  BY <1>4, <1>5
<1>7. <<1..(n - 1), 1..n>> \in R
  <2>1. 1..(n-1) \subseteq 1..n /\ n \in 1..n /\ n \notin 1..(n-1)
    BY <1>5
  <2>2. 1..(n-1) \in SUBSET Nat /\ 1..n \in SUBSET Nat
    BY <1>5
  <2> QED
    BY <2>1, <2>2 DEF StrictSubsetOrdering
<1> QED
  BY <1>4, <1>6, <1>7

(* The same up to a bound.                                                 *)
LEMMA InductionUpTo ==
  ASSUME NEW N \in Nat, NEW T, 0 \in T, \A n \in 0..(N - 1) : n \in T => n + 1 \in T
  PROVE  0..N \subseteq T
<1> DEFINE U == {n \in Nat : n <= N => n \in T}
<1>1. 0 \in U /\ \A n \in Nat : n \in U => n + 1 \in U
  OBVIOUS
<1>2. Nat \subseteq U
  <2> HIDE DEF U
  <2> QED
    BY <1>1, InductionOnNat
<1> QED
  BY <1>2

(* A nonempty set of numbers has a smallest one, and if bounded a largest. *)
LEMMA MinOfNat ==
  ASSUME NEW S \in SUBSET Nat, S # {}
  PROVE  Min(S) \in S /\ \A n \in S : Min(S) <= n
<1> DEFINE T == {n \in Nat : \A m \in 0..n : m \notin S}
<1>1. ~ (Nat \subseteq T)
  <2>1. PICK n \in S : TRUE
    OBVIOUS
  <2>2. n \in Nat /\ n \in 0..n
    BY <2>1
  <2> QED
    BY <2>2
<1>2. ~ (0 \in T /\ \A n \in Nat : n \in T => n + 1 \in T)
  <2> HIDE DEF T
  <2> QED
    BY <1>1, InductionOnNat
<1>3. \E x \in S : \A n \in S : x <= n
  <2>1. CASE 0 \notin T
    BY <2>1
  <2>2. ASSUME NEW n \in Nat, n \in T, n + 1 \notin T
        PROVE  \E x \in S : \A k \in S : x <= k
    <3>1. n + 1 \in S
      BY <2>2
    <3>2. \A k \in S : n + 1 <= k
      BY <2>2
    <3> QED
      BY <3>1, <3>2
  <2> QED
    BY <1>2, <2>1, <2>2
<1> QED
  BY <1>3 DEF Min

LEMMA MaxUpTo ==
  ASSUME NEW N \in Nat, NEW S \in SUBSET (0..N), S # {}
  PROVE  Max(S) \in S /\ \A n \in S : n <= Max(S)
<1> DEFINE U == {N - n : n \in S}
<1>1. U \in SUBSET Nat /\ U # {}
  <2>1. \A n \in S : N - n \in Nat
    OBVIOUS
  <2> QED
    BY <2>1
<1>2. PICK u \in U : \A v \in U : u <= v
  <2> HIDE DEF U
  <2> QED
    BY <1>1, MinOfNat
<1>3. PICK x \in S : u = N - x
  BY <1>2
<1>4. \A n \in S : x >= n
  <2> TAKE n \in S
  <2>1. N - x <= N - n
    BY <1>2, <1>3
  <2>2. N \in Int /\ x \in Int /\ n \in Int
    OBVIOUS
  <2> QED
    BY <2>1, <2>2
<1>5. \E y \in S : \A n \in S : y >= n
  BY <1>4
<1>6. Max(S) \in S /\ \A n \in S : Max(S) >= n
  BY <1>5 DEF Max
<1> QED
  BY <1>6

-----------------------------------------------------------------------------
(* Folds over 1..N: MapThenFoldSet chooses a function on all subsets.      *)

LEMMA IntervalsGrow ==
  \A n \in Nat : /\ 1..0 = {} /\ 1..(n + 1) # {} /\ Max(1..(n + 1)) = n + 1
                 /\ 1..(n + 1) \ {n + 1} = 1..n
<1> TAKE n \in Nat
<1>1. /\ 1..(n + 1) \in SUBSET (0..(n + 1)) /\ n + 1 \in 1..(n + 1)
      /\ n + 1 \in Nat /\ 1..(n + 1) # {}
  OBVIOUS
<1>2. Max(1..(n + 1)) \in 1..(n + 1) /\ n + 1 <= Max(1..(n + 1))
  BY <1>1, MaxUpTo
<1>3. Max(1..(n + 1)) = n + 1
  BY <1>2
<1> QED
  BY <1>3

(* Such a function exists, whatever F does with a value that it is given.  *)
FoldsTo(iter, N, a, F) ==
  \A s \in SUBSET (1..N) :
    iter[s] = IF s = {} THEN a ELSE F[<<Max(s), iter[s \ {Max(s)}]>>]

HasFold(n, V, a, F) == \E iter \in [SUBSET (1..n) -> V] : FoldsTo(iter, n, a, F)

LEMMA FoldExists ==
  ASSUME NEW N \in Nat, NEW V, NEW a \in V, NEW F \in [(1..N) \X V -> V]
  PROVE  HasFold(N, V, a, F)
<1> DEFINE T == {n \in Nat : n <= N => HasFold(n, V, a, F)}
<1>1. 0 \in T
  <2> DEFINE iter == [s \in SUBSET (1..0) |-> a]
  <2>1. 1..0 = {}
    OBVIOUS
  <2>2. \A s \in SUBSET (1..0) : s = {} /\ iter[s] = a
    <3> HIDE <2>1
    <3>1. \A s \in SUBSET (1..0) : s = {}
      BY <2>1, Zenon
    <3> QED
      BY <3>1
  <2>3. iter \in [SUBSET (1..0) -> V]
    OBVIOUS
  <2> HIDE DEF iter
  <2>4. FoldsTo(iter, 0, a, F)
    BY <2>2 DEF FoldsTo
  <2> QED
    BY <2>3, <2>4 DEF HasFold
<1>2. ASSUME NEW n \in Nat, n \in T
      PROVE  n + 1 \in T
  <2> SUFFICES ASSUME n + 1 <= N
               PROVE  HasFold(n + 1, V, a, F)
    OBVIOUS
  <2>0. HasFold(n, V, a, F)
    BY <1>2
  <2>1. PICK old \in [SUBSET (1..n) -> V] : FoldsTo(old, n, a, F)
    BY <2>0 DEF HasFold
  <2> DEFINE without(s) == s \ {n + 1}
             new == [s \in SUBSET (1..(n + 1)) |->
                       IF n + 1 \in s THEN F[<<n + 1, old[without(s)]>>] ELSE old[s]]
  <2>2. \A s \in SUBSET (1..(n + 1)) :
          without(s) \in SUBSET (1..n) /\ (n + 1 \notin s => without(s) = s)
    OBVIOUS
  <2>3. new \in [SUBSET (1..(n + 1)) -> V]
    BY <2>1, <2>2
  <2>4. ASSUME NEW s \in SUBSET (1..(n + 1)), n + 1 \in s
        PROVE  Max(s) = n + 1
    <3>1. s \in SUBSET (0..(n + 1)) /\ s # {} /\ n + 1 \in Nat
      BY <2>4
    <3>2. Max(s) \in s /\ n + 1 <= Max(s)
      BY <2>4, <3>1, MaxUpTo
    <3>3. Max(s) \in 1..(n + 1)
      BY <3>2
    <3> HIDE DEF new
    <3> QED
      BY <3>2, <3>3
  <2>5. ASSUME NEW s \in SUBSET (1..(n + 1))
        PROVE  new[s] = IF s = {} THEN a ELSE F[<<Max(s), new[s \ {Max(s)}]>>]
    <3>1. CASE n + 1 \in s
      <4>1. Max(s) = n + 1 /\ new[s] = F[<<n + 1, old[without(s)]>>]
        BY <2>4, <3>1
      <4>2. without(s) \in SUBSET (1..(n + 1)) /\ n + 1 \notin without(s)
        BY <2>2
      <4>3. new[without(s)] = old[without(s)]
        BY <4>2
      <4> QED
        BY <3>1, <4>1, <4>3
    <3>2. CASE n + 1 \notin s
      <4>1. s \in SUBSET (1..n) /\ new[s] = old[s]
        BY <2>2, <3>2
      <4>2. s \ {Max(s)} \in SUBSET (1..(n + 1)) /\ n + 1 \notin s \ {Max(s)}
        BY <3>2
      <4>3. new[s \ {Max(s)}] = old[s \ {Max(s)}]
        BY <4>2
      <4>4. old[s] = IF s = {} THEN a ELSE F[<<Max(s), old[s \ {Max(s)}]>>]
        BY <2>1, <4>1 DEF FoldsTo
      <4> QED
        BY <4>1, <4>3, <4>4
    <3> QED
      BY <3>1, <3>2
  <2> HIDE DEF new
  <2>6. FoldsTo(new, n + 1, a, F)
    BY <2>5 DEF FoldsTo
  <2> QED
    BY <2>3, <2>6 DEF HasFold
<1>3. Nat \subseteq T
  <2> HIDE DEF T
  <2> QED
    BY <1>1, <1>2, InductionOnNat
<1> QED
  BY <1>3

(* The function a fold chooses is known to be the fold of F only where F   *)
(* is defined.  That is enough to pass through one value per prefix 1..k.  *)
FoldsWithin(iter, N, V, a, F) ==
  \A s \in SUBSET (1..N) :
    /\ s = {} => iter[s] = a
    /\ s # {} /\ iter[s \ {Max(s)}] \in V => iter[s] = F[<<Max(s), iter[s \ {Max(s)}]>>]

Runs(g, N, V, a, F) ==
  /\ g[0] = a /\ \A k \in 0..N : g[k] \in V
  /\ \A k \in 0..(N - 1) : g[k + 1] = F[<<k + 1, g[k]>>]

HasRun(iter, N, V, a, F) == \E g : Runs(g, N, V, a, F) /\ g[N] = iter[1..N]

LEMMA FoldRuns ==
  ASSUME NEW N \in Nat, NEW V, NEW a \in V, NEW F \in [(1..N) \X V -> V],
         NEW iter, FoldsWithin(iter, N, V, a, F)
  PROVE  HasRun(iter, N, V, a, F)
<1> DEFINE g == [k \in 0..N |-> iter[1..k]]
<1>1. g[0] = a
  <2>1. 1..0 \in SUBSET (1..N) /\ 1..0 = {} /\ g[0] = iter[1..0]
    OBVIOUS
  <2> HIDE DEF g
  <2> QED
    BY <2>1, Zenon DEF FoldsWithin
<1>2. ASSUME NEW k \in 0..(N - 1), g[k] \in V
      PROVE  g[k + 1] = F[<<k + 1, g[k]>>]
  <2>1. /\ 1..(k + 1) \in SUBSET (1..N) /\ k \in Nat
        /\ g[k] = iter[1..k] /\ g[k + 1] = iter[1..(k + 1)]
    OBVIOUS
  <2>2. /\ 1..(k + 1) # {} /\ Max(1..(k + 1)) = k + 1
        /\ 1..(k + 1) \ {k + 1} = 1..k
    BY <2>1, IntervalsGrow
  <2> HIDE DEF g
  <2>3. iter[1..(k + 1) \ {Max(1..(k + 1))}] \in V
    BY <1>2, <2>1, <2>2, Zenon
  <2>4. iter[1..(k + 1)] = F[<<Max(1..(k + 1)), iter[1..(k + 1) \ {Max(1..(k + 1))}]>>]
    BY <2>1, <2>2, <2>3, Zenon DEF FoldsWithin
  <2> QED
    BY <2>1, <2>2, <2>4, Zenon
<1>3. \A k \in 0..N : g[k] \in V
  <2> DEFINE T == {k \in 0..N : g[k] \in V}
  <2> HIDE DEF g
  <2>1. 0 \in T
    BY <1>1
  <2>2. ASSUME NEW k \in 0..(N - 1), k \in T
        PROVE  k + 1 \in T
    <3>1. k + 1 \in 1..N /\ k + 1 \in 0..N /\ g[k] \in V
      BY <2>2
    <3>2. g[k + 1] = F[<<k + 1, g[k]>>]
      BY <1>2, <3>1
    <3> QED
      BY <3>1, <3>2
  <2>3. 0..N \subseteq T
    <3> HIDE DEF T
    <3> QED
      BY <2>1, <2>2, InductionUpTo
  <2> QED
    BY <2>3
<1>4. g[N] = iter[1..N]
  OBVIOUS
<1>5. \A k \in 0..(N - 1) : g[k] \in V
  BY <1>3
<1>6. Runs(g, N, V, a, F)
  <2> HIDE DEF g
  <2> QED
    BY <1>1, <1>2, <1>3, <1>5 DEF Runs
<1> QED
  BY <1>4, <1>6 DEF HasRun
=============================================================================
