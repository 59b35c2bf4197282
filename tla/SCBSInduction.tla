---------------------------- MODULE SCBSInduction ----------------------------
(***************************************************************************)
(* Induction over the natural numbers, stated for a set instead of a       *)
(* predicate: the proofs about recursive functions (Printable, lengths of  *)
(* sums) cite it with the set of the numbers for which the claim holds.    *)
(* Also the arithmetic several proofs need: least numbers, intervals and   *)
(* division.                                                               *)
(***************************************************************************)
EXTENDS Integers, FiniteSetTheorems, TLAPS

\* A set that has 0 and the successor of each of its numbers has them all.  Were
\* there an n outside, {1 .. n : n outside} would have a least element for the
\* strict subset order, which is well-founded on finite sets; but with n, n - 1 is
\* outside too.
LEMMA NatSetInduction ==
  ASSUME NEW S, 0 \in S, \A n \in Nat : n \in S => n + 1 \in S
  PROVE  Nat \subseteq S
<1> DEFINE Outside == {1 .. n : n \in Nat \ S}
           Order   == StrictSubsetOrdering(Nat)
           Finite  == FiniteSubsetsOf(Nat)
<1>. SUFFICES ASSUME Nat \ S # {} PROVE FALSE
  OBVIOUS
<1>1. \A n \in Nat : 1 .. n \in Finite
  BY FS_Interval DEF FiniteSubsetsOf
<1>2. Outside \subseteq Finite /\ Outside # {}
  BY <1>1
<1>3. IsWellFoundedOn(Order, Finite)
  BY FS_StrictSubsetOrderingWellFounded
<1>4. \E x \in Outside : \A y \in Outside : ~ (<<y, x>> \in Order)
  <2>. HIDE DEF Outside, Order, Finite
  <2>. QED
    BY <1>2, <1>3, WFMin
<1>5. PICK n \in Nat \ S : \A y \in Outside : ~ (<<y, 1 .. n>> \in Order)
  BY <1>4
<1>6. n \in Nat /\ n # 0 /\ n - 1 \in Nat /\ n - 1 \in Nat \ S
  OBVIOUS
<1>7. 1 .. n - 1 \in Outside
  BY <1>6
<1>8. <<1 .. n - 1, 1 .. n>> \in Order
  <2>1. 1 .. n - 1 \subseteq 1 .. n /\ 1 .. n - 1 # 1 .. n
    BY <1>6
  <2>. QED
    BY <1>1, <1>6, <2>1 DEF StrictSubsetOrdering, FiniteSubsetsOf
<1>. QED
  BY <1>5, <1>7, <1>8

\* The same up to a bound.
LEMMA UptoInduction ==
  ASSUME NEW n \in Nat, NEW T, 0 \in T, \A k \in 1 .. n : k - 1 \in T => k \in T
  PROVE  0 .. n \subseteq T
<1> DEFINE S == {k \in Nat : k <= n => k \in T}
<1>1. 0 \in S
  OBVIOUS
<1>2. ASSUME NEW k \in Nat, k \in S
      PROVE  k + 1 \in S
  <2>. SUFFICES ASSUME k + 1 <= n
                PROVE  k + 1 \in T
    OBVIOUS
  <2>1. k \in T /\ k + 1 \in 1 .. n /\ (k + 1) - 1 = k
    BY <1>2
  <2>. QED
    BY <2>1
<1>3. Nat \subseteq S
  <2>. HIDE DEF S
  <2>. QED
    BY <1>1, <1>2, NatSetInduction
<1>. QED
  BY <1>3

\* A recursion over 0 .. n in a set S: step[k] takes the value at k - 1 to that at k.
StepsIn(S, n, step) == step \in [1 .. n -> [S -> S]]
Solves(f, S, n, a, step) ==
  /\ f \in [0 .. n -> S] /\ f[0] = a
  /\ \A k \in 1 .. n : f[k] = step[k][f[k-1]]

\* It has a solution.
LEMMA Recursion ==
  ASSUME NEW n \in Nat, NEW S, NEW a \in S, NEW step, StepsIn(S, n, step)
  PROVE  \E f : Solves(f, S, n, a, step)
<1> DEFINE Follows(f, m) == /\ f \in [0 .. m -> S] /\ f[0] = a
                            /\ \A k \in 1 .. m : f[k] = step[k][f[k-1]]
           T == {m \in 0 .. n : \E f : Follows(f, m)}
<1>. step \in [1 .. n -> [S -> S]]
  BY DEF StepsIn
<1>1. 0 \in T
  <2>1. Follows([k \in 0 .. 0 |-> a], 0)
    OBVIOUS
  <2>. HIDE DEF Follows
  <2>. QED
    BY <2>1
<1>2. ASSUME NEW m \in 1 .. n, m - 1 \in T
      PROVE  m \in T
  <2>1. PICK f : Follows(f, m - 1)
    <3>. HIDE DEF Follows
    <3>. QED
      BY <1>2
  <2> DEFINE last == step[m][f[m-1]]
             g == [k \in 0 .. m |-> IF k < m THEN f[k] ELSE last]
  <2>2. /\ m - 1 \in 0 .. m - 1 /\ f \in [0 .. m - 1 -> S] /\ f[0] = a
        /\ \A k \in 1 .. m - 1 : f[k] = step[k][f[k-1]]
    BY <2>1
  <2>3. last \in S
    BY <2>2
  <2>. HIDE DEF last, Follows
  <2>4. g \in [0 .. m -> S] /\ g[0] = a
    BY <2>2, <2>3
  <2>5. ASSUME NEW k \in 1 .. m
        PROVE  g[k] = step[k][g[k-1]]
    <3>1. g[k-1] = f[k-1]
      OBVIOUS
    <3>2. CASE k = m
      BY <3>1, <3>2 DEF last
    <3>3. CASE k # m
      <4>1. k \in 1 .. m - 1 /\ g[k] = f[k]
        BY <3>3
      <4>. HIDE DEF g
      <4>. QED
        BY <2>2, <3>1, <4>1
    <3>. QED
      BY <3>2, <3>3
  <2>6. Follows(g, m)
    <3>. HIDE DEF g
    <3>. QED
      BY <2>4, <2>5 DEF Follows
  <2>. HIDE DEF g
  <2>. QED
    BY <2>6
<1>3. PICK f : Follows(f, n)
  <2>1. n \in 0 .. n
    OBVIOUS
  <2>2. 0 .. n \subseteq T
    <3>. HIDE DEF T
    <3>. QED
      BY <1>1, <1>2, UptoInduction
  <2>. HIDE DEF Follows
  <2>. QED
    BY <2>1, <2>2
<1>. QED
  BY <1>3 DEF Solves

\* A non-empty set of natural numbers has a least element.
LEMMA LeastNat ==
  ASSUME NEW T \in SUBSET Nat, T # {}
  PROVE  \E k \in T : \A j \in T : k <= j
<1> DEFINE S == {n \in Nat : \A j \in T : n <= j}
<1>. SUFFICES ASSUME \A k \in T : \E j \in T : ~ (k <= j)
              PROVE  FALSE
  OBVIOUS
<1>1. 0 \in S
  OBVIOUS
<1>2. \A n \in Nat : n \in S => n + 1 \in S
  <2>. SUFFICES ASSUME NEW n \in Nat, n \in S, NEW j \in T
                PROVE  n + 1 <= j
    OBVIOUS
  <2>1. n <= j /\ n # j
    OBVIOUS
  <2>. QED
    BY <2>1
<1>3. Nat \subseteq S
  <2>. HIDE DEF S
  <2>. QED
    BY <1>1, <1>2, NatSetInduction
<1>4. PICK j \in T : TRUE
  OBVIOUS
<1>5. j + 1 \in S
  BY <1>3
<1>. QED
  BY <1>5

\* A set of the numbers below m that has with a number all smaller ones is an
\* interval from 0 on.
LEMMA DownClosed ==
  ASSUME NEW m \in Nat, NEW S \in SUBSET (0 .. m - 1),
         \A j \in S : \A i \in 0 .. j : i \in S
  PROVE  Cardinality(S) \in 0 .. m /\ S = 0 .. Cardinality(S) - 1
<1>1. PICK k \in Nat : k \notin S /\ \A j \in Nat : j < k => j \in S
  <2> DEFINE T == Nat \ S
  <2>1. m \in T /\ T \in SUBSET Nat
    OBVIOUS
  <2>2. PICK k \in T : \A j \in T : k <= j
    <3>. HIDE DEF T
    <3>. QED
      BY <2>1, LeastNat
  <2>. QED
    BY <2>2
<1>2. S = 0 .. k - 1
  <2>1. ASSUME NEW j \in S
        PROVE  j \in 0 .. k - 1
    <3>1. j \in Nat /\ (k <= j => k \in 0 .. j)
      OBVIOUS
    <3>2. ~ (k <= j)
      BY <1>1, <3>1
    <3>. QED
      BY <3>1, <3>2
  <2>2. \A j \in 0 .. k - 1 : j \in S
    BY <1>1
  <2>. QED
    BY <2>1, <2>2
<1>3. k <= m
  <2>. SUFFICES ASSUME m < k
                PROVE  FALSE
    OBVIOUS
  <2>1. m \in S
    BY <1>1
  <2>. QED
    BY <2>1
<1>4. Cardinality(0 .. k - 1) = k
  <2>1. 0 \in Int /\ k - 1 \in Int
    OBVIOUS
  <2>2. Cardinality(0 .. k - 1) = IF 0 > k - 1 THEN 0 ELSE (k - 1) - 0 + 1
    BY <2>1, FS_Interval, Zenon
  <2>. QED
    BY <2>2
<1>. QED
  BY <1>2, <1>3, <1>4

\* The quotient and the remainder of a division.
LEMMA Division ==
  ASSUME NEW S \in Nat \ {0}, NEW q \in Int, NEW r \in Nat, r < S,
         NEW x, x = q * S + r
  PROVE  x \div S = q /\ x % S = r
  OBVIOUS

LEMMA Divided ==
  ASSUME NEW S \in Nat \ {0}, NEW x \in Int
  PROVE  /\ x \div S \in Int /\ x = (x \div S) * S + (x % S)
         /\ x % S \in Int /\ 0 <= x % S /\ x % S < S
  OBVIOUS

=============================================================================
