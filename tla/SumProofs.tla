----------------------------- MODULE SumProofs -----------------------------
(***************************************************************************)
(* Least and greatest numbers, what Totals adds up to, what a loop does    *)
(* pass by pass, and what FlattenSeq puts together.                        *)
(*                                                                         *)
(* Sums are recursive functions, about which nothing can be shown without  *)
(* induction; Induct is induction on a set of numbers, from the            *)
(* well-foundedness of strict inclusion of finite sets.                    *)
(***************************************************************************)
EXTENDS Sums, SequencesExt, FiniteSetTheorems, WellFoundedInduction, TLAPS

LEMMA LeastOf ==
    ASSUME NEW c \in SUBSET Nat, c # {}
    PROVE  \E x \in c : \A y \in c : x <= y
<1> DEFINE upTo(n) == {k \in c : k <= n}
<1>1. PICK top \in c : TRUE
  OBVIOUS
<1> DEFINE T == {upTo(n) : n \in upTo(top)}
<1>0. \A k \in c : k \in Nat
  OBVIOUS
<1>2. IsFiniteSet(upTo(top))
  <2>1. upTo(top) \subseteq 0..top
    <3>1. \A k \in c : k <= top => k \in 0..top
      BY <1>0
    <3> QED
      BY <3>1
  <2>2. top \in Int /\ 0 \in Int
    OBVIOUS
  <2> HIDE DEF upTo
  <2> QED
    BY <2>1, <2>2, FS_Interval, FS_Subset
<1>3. IsWellFoundedOn(StrictSubsetOrdering(upTo(top)), SUBSET upTo(top))
  <2> HIDE DEF upTo
  <2> QED
    BY <1>2, FS_StrictSubsetOrderingWellFounded, FS_FiniteSubsetsOfFinite
<1>4. T \subseteq SUBSET upTo(top) /\ T # {}
  <2>1. ASSUME NEW n \in upTo(top) PROVE upTo(n) \subseteq upTo(top)
    <3>1. \A k \in c : k <= n => k <= top
      BY <1>0
    <3> QED
      BY <3>1
  <2>2. top \in upTo(top)
    BY <1>0
  <2> HIDE DEF upTo
  <2> QED
    BY <2>1, <2>2
<1>5. PICK u \in T :
          \A v \in T : ~(<<v, u>> \in StrictSubsetOrdering(upTo(top)))
  <2> HIDE DEF upTo, T
  <2> QED
    BY <1>3, <1>4, WFMin
<1>6. PICK x \in upTo(top) : u = upTo(x)
  OBVIOUS
<1>7. ASSUME NEW y \in c, ~(x <= y) PROVE FALSE
  <2>1. x \in Nat /\ y \in Nat /\ top \in Nat /\ y < x /\ x <= top
    BY <1>7
  <2>2. \A k \in c : k <= y => k <= x
    BY <2>1
  <2>3. upTo(y) \subseteq upTo(x) /\ x \in upTo(x) /\ x \notin upTo(y)
    <3>1. upTo(y) \subseteq upTo(x)
      BY <2>2
    <3>2. x \in upTo(x)
      BY <2>1
    <3>3. x \notin upTo(y)
      BY <1>7
    <3> QED
      BY <3>1, <3>2, <3>3
  <2>4. y \in upTo(top)
    BY <2>1
  <2>5. upTo(y) \in T /\ upTo(y) # u /\ upTo(y) \subseteq u
    BY <1>6, <2>3, <2>4
  <2>6. upTo(y) \in SUBSET upTo(top) /\ u \in SUBSET upTo(top)
    BY <1>4, <2>5
  <2> HIDE DEF upTo, T
  <2>7. <<upTo(y), u>> \in StrictSubsetOrdering(upTo(top))
    BY <2>5, <2>6 DEF StrictSubsetOrdering
  <2> QED
    BY <1>5, <2>5, <2>7
<1> QED
  BY <1>7

LEMMA Induct ==
    ASSUME NEW S \in SUBSET Nat, 0 \in S, \A n \in S : n + 1 \in S
    PROVE  \A n \in Nat : n \in S
<1> SUFFICES ASSUME Nat \ S # {} PROVE FALSE
  OBVIOUS
<1>1. PICK m \in Nat \ S : \A n \in Nat \ S : m <= n
  <2> DEFINE c == Nat \ S
  <2>1. c \in SUBSET Nat /\ c # {}
    OBVIOUS
  <2> HIDE DEF c
  <2>2. \E x \in c : \A y \in c : x <= y
    BY <2>1, LeastOf
  <2> QED
    BY <2>2 DEF c
<1>2. m # 0 /\ m - 1 \in Nat
  BY <1>1
<1>3. m - 1 \in S
  BY <1>1, <1>2
<1> QED
  BY <1>1, <1>2, <1>3

LEMMA GreatestOf ==
    ASSUME NEW n \in Nat, NEW c \in SUBSET (0..n), c # {}
    PROVE  \E x \in c : \A y \in c : y <= x
<1> DEFINE b == {n - k : k \in c}
<1>1. b \in SUBSET Nat /\ b # {}
  <2>1. \A k \in c : n - k \in Nat
    OBVIOUS
  <2>2. \A x \in b : x \in Nat
    BY <2>1
  <2>3. b # {}
    OBVIOUS
  <2> HIDE DEF b
  <2> QED
    BY <2>2, <2>3
<1> HIDE DEF b
<1>2. PICK x \in b : \A y \in b : x <= y
  BY <1>1, LeastOf
<1>3. PICK k \in c : x = n - k
  BY DEF b
<1>4. \A y \in c : n - k <= n - y
  BY <1>2, <1>3 DEF b
<1>5. \A y \in c : y \in Nat
  OBVIOUS
<1> QED
  BY <1>3, <1>4, <1>5

(* Totals is what its name says.                                           *)
LEMMA TotalsAre ==
    ASSUME NEW n \in Nat, NEW w, \A k \in 1..n : w[k] \in Int
    PROVE  /\ Totals(w, n)[0] = 0
           /\ \A k \in 1..n : Totals(w, n)[k] = Totals(w, n)[k - 1] + w[k]
           /\ \A k \in 0..n : Totals(w, n)[k] \in Int
<1> DEFINE S == {m \in Nat : m <= n => \E f \in [0..m -> Int] :
                    f[0] = 0 /\ \A k \in 1..m : f[k] = f[k - 1] + w[k]}
<1>1. 0 \in S
  <2> DEFINE f == [k \in 0..0 |-> 0]
  <2>1. f \in [0..0 -> Int] /\ f[0] = 0 /\ \A k \in 1..0 : f[k] = f[k-1] + w[k]
    OBVIOUS
  <2> QED
    BY <2>1
<1>2. ASSUME NEW m \in S PROVE m + 1 \in S
  <2> SUFFICES ASSUME m + 1 <= n
               PROVE \E f \in [0..(m + 1) -> Int] :
                 f[0] = 0 /\ \A k \in 1..(m + 1) : f[k] = f[k - 1] + w[k]
    BY SMTT(30)
  <2>1. PICK g \in [0..m -> Int] :
            g[0] = 0 /\ \A k \in 1..m : g[k] = g[k - 1] + w[k]
    OBVIOUS
  <2> DEFINE f == [k \in 0..(m + 1) |-> IF k = m + 1 THEN g[m] + w[m + 1]
                                        ELSE g[k]]
  <2>2. w[m + 1] \in Int /\ g[m] \in Int
    OBVIOUS
  <2>3. f \in [0..(m + 1) -> Int]
    BY <2>2
  <2>4. f[0] = 0
    BY <2>1
  <2>5. ASSUME NEW k \in 1..(m + 1) PROVE f[k] = f[k - 1] + w[k]
    <3>1. CASE k = m + 1
      BY <3>1
    <3>2. CASE k \in 1..m
      BY <3>2, <2>1
    <3> QED
      BY <3>1, <3>2
  <2> HIDE DEF f
  <2> QED
    BY <2>3, <2>4, <2>5
<1>3. n \in S
  <2> HIDE DEF S
  <2>1. S \in SUBSET Nat
    BY DEF S
  <2> QED
    BY <1>1, <1>2, <2>1, Induct
<1> DEFINE t == Totals(w, n)
           sum(f) == [k \in 0..n |-> IF k = 0 THEN 0 ELSE f[k - 1] + w[k]]
<1>4. \E f : f = sum(f)
  <2>1. PICK f \in [0..n -> Int] :
            f[0] = 0 /\ \A k \in 1..n : f[k] = f[k - 1] + w[k]
    <3>1. n <= n
      OBVIOUS
    <3> QED
      BY <1>3, <3>1
  <2>2. f = sum(f)
    BY <2>1
  <2> QED
    BY <2>2
<1>5. t = sum(t)
  BY <1>4 DEF Totals
<1>6. t[0] = 0 /\ \A k \in 1..n : t[k] = t[k - 1] + w[k]
  <2> HIDE DEF t
  <2> QED
    BY <1>5
<1>7. \A k \in 0..n : t[k] \in Int
  <2> HIDE DEF t
  <2> DEFINE U == {m \in Nat : m <= n => t[m] \in Int}
  <2>1. 0 \in U
    BY <1>6
  <2>2. \A m \in U : m + 1 \in U
    BY <1>6
  <2> HIDE DEF U
  <2>3. \A m \in Nat : m \in U
    <3>1. U \in SUBSET Nat
      BY DEF U
    <3> QED
      BY <2>1, <2>2, <3>1, Induct
  <2> QED
    BY <2>3 DEF U
<1> QED
  BY <1>6, <1>7

LEMMA TotalsNat ==
    ASSUME NEW n \in Nat, NEW w, \A k \in 1..n : w[k] \in Nat
    PROVE  \A k \in 0..n : Totals(w, n)[k] \in Nat
<1> DEFINE t == Totals(w, n)
<1>1. t[0] = 0 /\ \A k \in 1..n : t[k] = t[k - 1] + w[k]
  BY TotalsAre
<1> HIDE DEF t
<1> DEFINE U == {m \in Nat : m <= n => t[m] \in Nat}
<1>2. 0 \in U
  BY <1>1
<1>3. \A m \in U : m + 1 \in U
  BY <1>1
<1> HIDE DEF U
<1>4. \A m \in Nat : m \in U
  <2>1. U \in SUBSET Nat
    BY DEF U
  <2> QED
    BY <1>2, <1>3, <2>1, Induct
<1> QED
  BY <1>4 DEF t, U

(* Adding up again from a on.                                              *)
LEMMA TotalsFrom ==
    ASSUME NEW n \in Nat, NEW w, \A k \in 1..n : w[k] \in Int,
           NEW m \in Nat, NEW v, NEW a \in Nat, a + m <= n,
           \A k \in 1..m : v[k] = w[a + k]
    PROVE  \A k \in 0..m :
               Totals(w, n)[a + k] = Totals(w, n)[a] + Totals(v, m)[k]
<1> DEFINE t == Totals(w, n)
           u == Totals(v, m)
<1>1. /\ t[0] = 0
      /\ \A k \in 1..n : t[k] = t[k - 1] + w[k]
      /\ \A k \in 0..n : t[k] \in Int
  BY TotalsAre
<1>2. \A k \in 1..m : v[k] \in Int
  OBVIOUS
<1>3. /\ u[0] = 0
      /\ \A k \in 1..m : u[k] = u[k - 1] + v[k]
      /\ \A k \in 0..m : u[k] \in Int
  BY <1>2, TotalsAre
<1> HIDE DEF t, u
<1> DEFINE S == {k \in Nat : k <= m => t[a + k] = t[a] + u[k]}
<1>4. 0 \in S
  BY <1>1, <1>3
<1>5. ASSUME NEW k \in S PROVE k + 1 \in S
  <2> SUFFICES ASSUME k + 1 <= m PROVE t[a + (k + 1)] = t[a] + u[k + 1]
    OBVIOUS
  <2>1. t[a + k] = t[a] + u[k]
    OBVIOUS
  <2>2. t[a + (k + 1)] = t[a + k] + w[a + (k + 1)]
    <3>1. a + (k + 1) \in 1..n /\ (a + (k + 1)) - 1 = a + k
      OBVIOUS
    <3> QED
      BY <1>1, <3>1
  <2>3. u[k + 1] = u[k] + v[k + 1]
    <3>1. k + 1 \in 1..m /\ (k + 1) - 1 = k
      OBVIOUS
    <3> QED
      BY <1>3, <3>1
  <2>4. v[k + 1] = w[a + (k + 1)]
    OBVIOUS
  <2>5. t[a] \in Int /\ u[k] \in Int /\ v[k + 1] \in Int
    BY <1>1, <1>2, <1>3
  <2> QED
    BY <2>1, <2>2, <2>3, <2>4, <2>5
<1>6. \A k \in Nat : k \in S
  <2> HIDE DEF S
  <2>1. S \in SUBSET Nat
    BY DEF S
  <2> QED
    BY <1>4, <1>5, <2>1, Induct
<1> QED
  BY <1>6 DEF t, u

LEMMA TotalsGrow ==
    ASSUME NEW n \in Nat, NEW w, \A k \in 1..n : w[k] \in Nat,
           NEW a \in 0..n, NEW b \in 0..n, a <= b
    PROVE  Totals(w, n)[a] <= Totals(w, n)[b]
<1> DEFINE t == Totals(w, n)
<1>1. /\ \A k \in 1..n : t[k] = t[k - 1] + w[k]
      /\ \A k \in 0..n : t[k] \in Nat
  BY TotalsAre, TotalsNat
<1> HIDE DEF t
<1> DEFINE S == {k \in Nat : a + k <= n => t[a] <= t[a + k]}
<1>2. 0 \in S
  BY <1>1
<1>3. ASSUME NEW k \in S PROVE k + 1 \in S
  <2> SUFFICES ASSUME a + (k + 1) <= n PROVE t[a] <= t[a + (k + 1)]
    OBVIOUS
  <2>1. a + (k + 1) \in 1..n /\ (a + (k + 1)) - 1 = a + k /\ a + k \in 0..n
    OBVIOUS
  <2>2. t[a + (k + 1)] = t[a + k] + w[a + (k + 1)]
    BY <1>1, <2>1
  <2>3. t[a] <= t[a + k]
    OBVIOUS
  <2>4. t[a] \in Nat /\ t[a + k] \in Nat /\ w[a + (k + 1)] \in Nat
    BY <1>1, <2>1
  <2> QED
    BY <2>2, <2>3, <2>4
<1>4. \A k \in Nat : k \in S
  <2> HIDE DEF S
  <2>1. S \in SUBSET Nat
    BY DEF S
  <2> QED
    BY <1>2, <1>3, <2>1, Induct
<1>5. b - a \in Nat /\ a + (b - a) = b
  OBVIOUS
<1> QED
  BY <1>4, <1>5 DEF t

(* Multiples of n.                                                         *)
LEMMA Products ==
    ASSUME NEW n \in Nat, n >= 1, NEW f \in Int, NEW g \in Int
    PROVE  /\ f <= g => f * n <= g * n
           /\ f < g => f * n + n <= g * n
           /\ f * n = g * n => f = g
           /\ (f + 1) * n = f * n + n
           /\ f * n \in Int
<1>1. \A a \in Int, b \in Int : (a + b) * n = a * n + b * n
  OBVIOUS
<1>2. g * n = f * n + (g - f) * n
  BY <1>1
<1>3. \A a \in Nat : a * n >= 0 /\ (a >= 1 => a * n >= n)
  OBVIOUS
<1>4. f <= g => (g - f) * n >= 0
  BY <1>3
<1>5. f < g => (g - f) * n >= n
  BY <1>3
<1>6. f > g => (f - g) * n >= n
  BY <1>3
<1>7. f * n = g * n + (f - g) * n
  BY <1>1
<1>8. f * n \in Int /\ g * n \in Int /\ (g - f) * n \in Int
      /\ (f - g) * n \in Int /\ 1 * n = n /\ (f + 1) * n = f * n + 1 * n
  BY <1>1
<1> QED
  BY <1>2, <1>4, <1>5, <1>6, <1>7, <1>8

LEMMA Division ==
    ASSUME NEW n \in Nat, n >= 1, NEW f \in Nat, NEW j \in 0..(n - 1)
    PROVE  (f * n + j) \div n = f /\ (f * n + j) % n = j
OBVIOUS

-----------------------------------------------------------------------------
(***************************************************************************)
(* Loops, and sequences put together part by part.                         *)
(***************************************************************************)

(* A loop of N passes: base is the state before it, g the passes, f the    *)
(* successive states.                                                      *)
Passes(N, S, base, g) ==
    base \in S /\ \A k \in 1..N : \A x \in S : g[k][x] \in S

Successive(f, N, S, base, g) ==
    /\ f \in [0..N -> S]
    /\ f[0] = base
    /\ \A k \in 1..N : f[k] = g[k][f[k - 1]]

(* A loop that computes its state from the one before has a result.        *)
LEMMA Iterates ==
    ASSUME NEW N \in Nat, NEW S, NEW base, NEW g, Passes(N, S, base, g)
    PROVE  \E f : Successive(f, N, S, base, g)
<1> DEFINE upTo(m, f) == /\ f[0] = base
                         /\ \A n \in 1..m : f[n] = g[n][f[n - 1]]
           U == {m \in Nat : m <= N => \E f \in [0..m -> S] : upTo(m, f)}
<1>0. base \in S /\ \A k \in 1..N : \A x \in S : g[k][x] \in S
  BY DEF Passes
<1>1. 0 \in U
  <2> DEFINE f == [n \in 0..0 |-> base]
  <2>1. f \in [0..0 -> S] /\ upTo(0, f)
    BY <1>0
  <2> QED
    BY <2>1
<1>2. ASSUME NEW m \in U PROVE m + 1 \in U
  <2> SUFFICES ASSUME m + 1 <= N
               PROVE  \E f \in [0..(m + 1) -> S] : upTo(m + 1, f)
    <3>1. m + 1 \in Nat
      OBVIOUS
    <3> HIDE DEF upTo
    <3> QED
      BY <3>1
  <2>1. PICK h \in [0..m -> S] : upTo(m, h)
    OBVIOUS
  <2> DEFINE f == [n \in 0..(m + 1) |-> IF n = m + 1 THEN g[m + 1][h[m]]
                                        ELSE h[n]]
  <2>2. h[m] \in S /\ m + 1 \in 1..N
    OBVIOUS
  <2>3. g[m + 1][h[m]] \in S
    BY <1>0, <2>2
  <2>4. f \in [0..(m + 1) -> S]
    BY <2>3
  <2>5. f[0] = base
    BY <2>1
  <2>6. ASSUME NEW n \in 1..(m + 1) PROVE f[n] = g[n][f[n - 1]]
    <3>1. CASE n = m + 1
      BY <3>1
    <3>2. CASE n \in 1..m
      BY <3>2, <2>1
    <3> QED
      BY <3>1, <3>2
  <2> HIDE DEF f
  <2> QED
    BY <2>4, <2>5, <2>6
<1>3. N \in U
  <2> HIDE DEF U
  <2>1. U \in SUBSET Nat
    BY DEF U
  <2> QED
    BY <1>1, <1>2, <2>1, Induct
<1>4. PICK f \in [0..N -> S] : upTo(N, f)
  BY <1>3
<1>5. Successive(f, N, S, base, g)
  BY <1>4 DEF Successive
<1> QED
  BY <1>5

(* FlattenSeq appends one part after the other.                            *)
LEMMA Flattened ==
    ASSUME NEW T, NEW n \in Nat, NEW ss \in [1..n -> Seq(T)]
    PROVE  \E f \in [0..n -> Seq(T)] :
               /\ f[0] = <<>>
               /\ \A k \in 1..n : f[k] = f[k - 1] \o ss[k]
               /\ FlattenSeq(ss) = f[n]
<1> DEFINE g == [k \in 1..n |-> [x \in Seq(T) |-> x \o ss[k]]]
<1>0. \A s \in Seq(T), t \in Seq(T) : s \o t \in Seq(T)
  OBVIOUS
<1>1. \A k \in 1..n : \A x \in Seq(T) :
          g[k][x] = x \o ss[k] /\ g[k][x] \in Seq(T)
  BY <1>0
<1>2. <<>> \in Seq(T)
  OBVIOUS
<1>3. PICK f : Successive(f, n, Seq(T), <<>>, g)
  <2>1. Passes(n, Seq(T), <<>>, g)
    BY <1>1, <1>2 DEF Passes
  <2> HIDE DEF g
  <2> QED
    BY <2>1, Iterates
<1> HIDE DEF g
<1>9. /\ f \in [0..n -> Seq(T)]
      /\ f[0] = <<>>
      /\ \A k \in 1..n : f[k] = g[k][f[k - 1]]
  BY <1>3 DEF Successive
<1>4. \A k \in 1..n : f[k] = f[k - 1] \o ss[k]
  <2> SUFFICES ASSUME NEW k \in 1..n PROVE f[k] = f[k - 1] \o ss[k]
    OBVIOUS
  <2>1. f[k - 1] \in Seq(T)
    BY <1>9
  <2> QED
    BY <2>1, <1>1, <1>9
<1>5. ss \in Seq(Seq(T)) /\ Len(ss) = n
  OBVIOUS
<1>6. CASE n = 0
  <2>1. FlattenSeq(ss) = ss /\ ss = <<>>
    BY <1>5, <1>6 DEF FlattenSeq
  <2> QED
    BY <1>9, <1>4, <1>6, <2>1
<1>7. CASE n > 0
  <2> DEFINE it(e) == [i \in 1..Len(ss) |->
                         IF i = 1 THEN ss[i] ELSE e[i - 1] \o ss[i]]
             flat == CHOOSE e : e = it(e)
             r == [i \in 1..n |-> f[i]]
  <2>1. r = it(r)
    <3>1. ASSUME NEW i \in 1..n
          PROVE  r[i] = IF i = 1 THEN ss[i] ELSE r[i - 1] \o ss[i]
      <4>1. CASE i = 1
        <5>1. f[1] = f[0] \o ss[1] /\ ss[1] \in Seq(T)
          <6>1. 1 \in 1..n /\ 1 - 1 = 0
            BY <1>7
          <6>2. f[1] = f[1 - 1] \o ss[1]
            BY <1>4, <6>1
          <6> QED
            BY <6>1, <6>2
        <5>2. <<>> \o ss[1] = ss[1]
          BY <5>1
        <5> QED
          BY <4>1, <5>1, <5>2, <1>9
      <4>2. CASE i # 1
        <5>1. i - 1 \in 1..n
          BY <4>2
        <5>2. f[i] = f[i - 1] \o ss[i]
          BY <1>4
        <5> QED
          BY <4>2, <5>1, <5>2
      <4> QED
        BY <4>1, <4>2
    <3> QED
      BY <3>1, <1>5
  <2>2. flat = it(flat)
    <3> HIDE DEF it
    <3> QED
      BY <2>1
  <2>3. \A i \in 1..n : flat[i] = IF i = 1 THEN ss[i]
                                  ELSE flat[i - 1] \o ss[i]
    <3> HIDE DEF flat
    <3> QED
      BY <2>2, <1>5
  <2>4. FlattenSeq(ss) = flat[n]
    BY <1>5, <1>7 DEF FlattenSeq
  <2> HIDE DEF flat, r
  <2> DEFINE V == {m \in Nat : m \in 1..n => flat[m] = f[m]}
  <2>5. 0 \in V
    OBVIOUS
  <2>6. ASSUME NEW m \in V PROVE m + 1 \in V
    <3> SUFFICES ASSUME m + 1 \in 1..n PROVE flat[m + 1] = f[m + 1]
      OBVIOUS
    <3>1. CASE m = 0
      <4>1. f[1] = f[0] \o ss[1] /\ ss[1] \in Seq(T)
        <6>1. 1 \in 1..n /\ 1 - 1 = 0
          BY <1>7
        <6>2. f[1] = f[1 - 1] \o ss[1]
          BY <1>4, <6>1
        <6> QED
          BY <6>1, <6>2
      <4>2. <<>> \o ss[1] = ss[1]
        BY <4>1
      <4> QED
        BY <3>1, <4>1, <4>2, <1>9, <2>3
    <3>2. CASE m # 0
      <4>1. m \in 1..n /\ flat[m] = f[m]
        BY <3>2
      <4>2. flat[m + 1] = flat[(m + 1) - 1] \o ss[m + 1]
        <5>1. m + 1 \in 1..n /\ m + 1 # 1
          BY <3>2
        <5> QED
          BY <2>3, <5>1
      <4>3. f[m + 1] = f[(m + 1) - 1] \o ss[m + 1]
        BY <1>4
      <4>4. (m + 1) - 1 = m
        OBVIOUS
      <4> QED
        BY <4>1, <4>2, <4>3, <4>4
    <3> QED
      BY <3>1, <3>2
  <2> HIDE DEF V
  <2>7. \A m \in Nat : m \in V
    <3>1. V \in SUBSET Nat
      BY DEF V
    <3> QED
      BY <2>5, <2>6, <3>1, Induct
  <2>8. flat[n] = f[n]
    BY <1>7, <2>7 DEF V
  <2>9. f[0] = <<>> /\ (\A k \in 1..n : f[k] = f[k - 1] \o ss[k])
        /\ FlattenSeq(ss) = f[n] /\ f \in [0..n -> Seq(T)]
    BY <1>9, <1>4, <2>4, <2>8
  <2> QED
    BY <2>9
<1>8. n = 0 \/ n > 0
  OBVIOUS
<1> QED
  BY <1>6, <1>7, <1>8

LEMMA Concatenated ==
    ASSUME NEW T, NEW a \in Seq(T), NEW b \in Seq(T)
    PROVE  /\ Len(a \o b) = Len(a) + Len(b)
           /\ \A i \in 1..Len(a) : (a \o b)[i] = a[i]
           /\ \A i \in 1..Len(b) : (a \o b)[Len(a) + i] = b[i]
OBVIOUS

(* n parts, all of length m, and what they make together.                  *)
EvenParts(ss, T, n, m) ==
    /\ n \in Nat /\ m \in Nat /\ m >= 1
    /\ ss \in [1..n -> Seq(T)]
    /\ \A k \in 1..n : Len(ss[k]) = m

PutTogether(whole, ss, T, n, m) ==
    /\ whole \in Seq(T)
    /\ Len(whole) = n * m
    /\ \A k \in 0..(n - 1) : \A j \in 1..m : whole[k * m + j] = ss[k + 1][j]

(* Parts of the same length are found at multiples of it.                  *)
LEMMA EqualParts ==
    ASSUME NEW T, NEW n, NEW m, NEW ss, EvenParts(ss, T, n, m)
    PROVE  PutTogether(FlattenSeq(ss), ss, T, n, m)
<1>0. /\ n \in Nat /\ m \in Nat /\ m >= 1
      /\ ss \in [1..n -> Seq(T)]
      /\ \A k \in 1..n : Len(ss[k]) = m
  BY DEF EvenParts
<1> USE <1>0
<1>1. PICK f \in [0..n -> Seq(T)] :
          /\ f[0] = <<>>
          /\ \A k \in 1..n : f[k] = f[k - 1] \o ss[k]
          /\ FlattenSeq(ss) = f[n]
  BY Flattened
<1> DEFINE Right(x) == /\ Len(f[x]) = x * m
                       /\ \A k \in 0..(x - 1) : \A j \in 1..m :
                             f[x][k * m + j] = ss[k + 1][j]
           U == {x \in Nat : x <= n => Right(x)}
<1>2. 0 \in U
  <2>1. 0 * m = 0
    OBVIOUS
  <2>2. Len(f[0]) = 0
    BY <1>1
  <2> QED
    BY <2>1, <2>2
<1>3. ASSUME NEW x \in U PROVE x + 1 \in U
  <2> SUFFICES ASSUME x + 1 <= n PROVE Right(x + 1)
    <3>1. x + 1 \in Nat
      OBVIOUS
    <3> HIDE DEF Right
    <3> QED
      BY <3>1
  <2>1. x \in Nat /\ x <= n /\ x + 1 \in 1..n /\ x \in 0..n
    OBVIOUS
  <2>2. Right(x)
    <3> HIDE DEF Right
    <3> QED
      BY <2>1
  <2> DEFINE a == f[x]
             b == ss[x + 1]
  <2>3. a \in Seq(T) /\ b \in Seq(T) /\ Len(b) = m
    BY <1>1, <2>1
  <2>4. f[x + 1] = a \o b
    <3>1. f[x + 1] = f[(x + 1) - 1] \o ss[x + 1]
      BY <1>1, <2>1
    <3>2. (x + 1) - 1 = x
      BY <2>1
    <3> QED
      BY <3>1, <3>2
  <2>5. /\ Len(a) = x * m
        /\ \A k \in 0..(x - 1) : \A j \in 1..m : a[k * m + j] = ss[k + 1][j]
    BY <2>2
  <2>6. x * m \in Nat /\ (x + 1) * m = x * m + m
    BY <2>1, <2>3, <2>5, Products
  <2> HIDE DEF a, U
  <2>7. Len(f[x + 1]) = (x + 1) * m
    <3> HIDE DEF b
    <3>1. Len(f[x + 1]) = Len(a) + Len(b)
      BY <2>3, <2>4, Concatenated
    <3> QED
      BY <2>3, <2>5, <2>6, <3>1
  <2> DEFINE joined == f[x + 1]
  <2>8. /\ \A i \in 1..Len(a) : joined[i] = a[i]
        /\ \A i \in 1..Len(b) : joined[Len(a) + i] = b[i]
    BY <2>3, <2>4, Concatenated
  <2>9. ASSUME NEW k \in 0..x, NEW j \in 1..m
        PROVE  f[x + 1][k * m + j] = ss[k + 1][j]
    <3>1. CASE k = x
      <4>1. f[x + 1][Len(a) + j] = b[j]
        <5>1. j \in 1..Len(b)
          BY <2>3
        <5> HIDE DEF b
        <5> QED
          BY <2>8, <5>1
      <4> QED
        BY <2>5, <3>1, <4>1
    <3>2. CASE k # x
      <4>1. k \in 0..(x - 1) /\ k < x /\ k \in Int /\ x \in Int
        BY <2>1, <3>2
      <4>2. k * m + m <= x * m /\ k * m \in Nat
        <5>1. k * m \in Int /\ k * m + m <= x * m
          BY <4>1, Products
        <5>2. 0 * m <= k * m /\ 0 * m = 0
          BY <2>1, Products
        <5> QED
          BY <5>1, <5>2
      <4> DEFINE i == k * m
      <4>3. i + j \in 1..Len(a)
        <5>1. i \in Nat /\ i + m <= Len(a) /\ Len(a) \in Nat
          BY <2>5, <2>6, <4>2
        <5> HIDE DEF i
        <5> QED
          BY <5>1
      <4>4. f[x + 1][i + j] = a[i + j]
        BY <2>8, <4>3
      <4> QED
        BY <2>5, <4>1, <4>4
    <3> QED
      BY <3>1, <3>2
  <2>10. (x + 1) - 1 = x
    BY <2>1
  <2> QED
    BY <2>7, <2>9, <2>10
<1>4. n \in U
  <2> HIDE DEF U
  <2>1. U \in SUBSET Nat
    BY DEF U
  <2> QED
    BY <1>2, <1>3, <2>1, Induct
<1>5. Right(n)
  <2> HIDE DEF Right
  <2> QED
    BY <1>4
<1> QED
  BY <1>1, <1>5 DEF PutTogether
=============================================================================
