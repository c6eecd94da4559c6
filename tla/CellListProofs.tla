--------------------------- MODULE CellListProofs ---------------------------
(***************************************************************************)
(* The linked-cell lists for any positions, cut-off radius, regions, and   *)
(* number of particles, ghosts and iterations.                             *)
(***************************************************************************)
EXTENDS CellLists, SumProofs, SequenceTheorems

-----------------------------------------------------------------------------
(***************************************************************************)
(* FlattenSeq: what it contains, and when nothing occurs in it twice.      *)
(***************************************************************************)
LEMMA ContainsIn ==
    ASSUME NEW T, NEW s \in Seq(T), NEW x
    PROVE  Contains(s, x) <=> \E j \in DOMAIN s : s[j] = x
BY DEF Contains

LEMMA ContainsConcat ==
    ASSUME NEW T, NEW s \in Seq(T), NEW t \in Seq(T), NEW x
    PROVE  Contains(s \o t, x) <=> Contains(s, x) \/ Contains(t, x)
<1> DEFINE u == s \o t
<1>1. /\ u \in Seq(T) /\ Len(u) = Len(s) + Len(t)
      /\ Len(s) \in Nat /\ Len(t) \in Nat
      /\ \A i \in 1..Len(u) : u[i] = IF i <= Len(s) THEN s[i]
                                    ELSE t[i - Len(s)]
  BY ConcatProperties
<1> HIDE DEF u
<1>2. ASSUME Contains(u, x) PROVE Contains(s, x) \/ Contains(t, x)
  <2>1. PICK i \in 1..Len(u) : u[i] = x
    BY <1>2 DEF Contains
  <2>2. CASE i <= Len(s)
    <3>1. i \in 1..Len(s) /\ s[i] = x
      BY <1>1, <2>1, <2>2
    <3> QED
      BY <3>1 DEF Contains
  <2>3. CASE ~(i <= Len(s))
    <3>1. i - Len(s) \in 1..Len(t) /\ t[i - Len(s)] = x
      BY <1>1, <2>1, <2>3
    <3> QED
      BY <3>1 DEF Contains
  <2> QED
    BY <2>2, <2>3
<1>3. ASSUME Contains(s, x) PROVE Contains(u, x)
  <2>1. PICK i \in 1..Len(s) : s[i] = x
    BY <1>3 DEF Contains
  <2>2. i \in 1..Len(u) /\ u[i] = x
    BY <1>1, <2>1
  <2> QED
    BY <2>2 DEF Contains
<1>4. ASSUME Contains(t, x) PROVE Contains(u, x)
  <2>1. PICK i \in 1..Len(t) : t[i] = x
    BY <1>4 DEF Contains
  <2>2. i + Len(s) \in 1..Len(u) /\ ~(i + Len(s) <= Len(s))
        /\ (i + Len(s)) - Len(s) = i
    BY <1>1, <2>1
  <2>3. u[i + Len(s)] = x
    BY <1>1, <2>1, <2>2
  <2> QED
    BY <2>2, <2>3 DEF Contains
<1> QED
  BY <1>2, <1>3, <1>4 DEF u

(* It contains what its parts do, and nothing else.                        *)
LEMMA FlatContains ==
    ASSUME NEW T, NEW n \in Nat, NEW ss \in [1..n -> Seq(T)]
    PROVE  /\ FlattenSeq(ss) \in Seq(T)
           /\ \A x : Contains(FlattenSeq(ss), x) <=>
                        \E a \in 1..n : Contains(ss[a], x)
<1>1. PICK f \in [0..n -> Seq(T)] :
          /\ f[0] = <<>>
          /\ \A k \in 1..n : f[k] = f[k - 1] \o ss[k]
          /\ FlattenSeq(ss) = f[n]
  BY Flattened
<1>2. FlattenSeq(ss) \in Seq(T)
  BY <1>1
<1> SUFFICES ASSUME NEW x
             PROVE  Contains(f[n], x) <=> \E a \in 1..n : Contains(ss[a], x)
  BY <1>1, <1>2
<1> DEFINE U == {m \in Nat : m <= n =>
                    (Contains(f[m], x) <=> \E a \in 1..m : Contains(ss[a], x))}
<1>3. 0 \in U
  <2>1. ~Contains(f[0], x)
    BY <1>1 DEF Contains
  <2> QED
    BY <2>1
<1>4. ASSUME NEW m \in U PROVE m + 1 \in U
  <2> SUFFICES ASSUME m + 1 <= n
               PROVE  Contains(f[m + 1], x) <=>
                          \E a \in 1..(m + 1) : Contains(ss[a], x)
    OBVIOUS
  <2>1. m \in Nat /\ m <= n
        /\ (Contains(f[m], x) <=> \E a \in 1..m : Contains(ss[a], x))
    OBVIOUS
  <2>2. m + 1 \in 1..n /\ (m + 1) - 1 = m /\ m \in 0..n
    BY <2>1
  <2>3. f[m + 1] = f[m] \o ss[m + 1]
    BY <1>1, <2>2
  <2>4. f[m] \in Seq(T) /\ ss[m + 1] \in Seq(T)
    BY <2>2
  <2>5. Contains(f[m + 1], x) <=> Contains(f[m], x) \/ Contains(ss[m + 1], x)
    BY <2>3, <2>4, ContainsConcat
  <2>6. \A a \in 1..(m + 1) : a \in 1..m \/ a = m + 1
    BY <2>1
  <2>7. 1..m \subseteq 1..(m + 1) /\ m + 1 \in 1..(m + 1)
    BY <2>1
  <2> QED
    BY <2>1, <2>5, <2>6, <2>7
<1> HIDE DEF U
<1>5. \A m \in Nat : m \in U
  <2>1. U \in SUBSET Nat
    BY DEF U
  <2> QED
    BY <1>3, <1>4, <2>1, Induct
<1> QED
  BY <1>5 DEF U

LEMMA InjectiveConcat ==
    ASSUME NEW T, NEW s \in Seq(T), NEW t \in Seq(T),
           IsInjective(s), IsInjective(t),
           \A x : ~(Contains(s, x) /\ Contains(t, x))
    PROVE  IsInjective(s \o t)
<1> DEFINE u == s \o t
<1>1. /\ u \in Seq(T) /\ Len(u) = Len(s) + Len(t)
      /\ Len(s) \in Nat /\ Len(t) \in Nat
      /\ \A i \in 1..Len(u) : u[i] = IF i <= Len(s) THEN s[i]
                                    ELSE t[i - Len(s)]
  BY ConcatProperties
<1>2. DOMAIN u = 1..Len(u) /\ DOMAIN s = 1..Len(s) /\ DOMAIN t = 1..Len(t)
  BY <1>1
<1> HIDE DEF u
<1> SUFFICES ASSUME NEW a \in 1..Len(u), NEW b \in 1..Len(u), u[a] = u[b]
             PROVE  a = b
  BY <1>2 DEF IsInjective, u
<1>3. CASE a <= Len(s) /\ b <= Len(s)
  <2>1. a \in DOMAIN s /\ b \in DOMAIN s /\ s[a] = s[b]
    BY <1>1, <1>2, <1>3
  <2> QED
    BY <2>1 DEF IsInjective
<1>4. CASE ~(a <= Len(s)) /\ ~(b <= Len(s))
  <2>1. a - Len(s) \in DOMAIN t /\ b - Len(s) \in DOMAIN t
        /\ t[a - Len(s)] = t[b - Len(s)]
    BY <1>1, <1>2, <1>4
  <2>2. a - Len(s) = b - Len(s)
    BY <2>1 DEF IsInjective
  <2> QED
    BY <1>1, <2>2
<1>5. ASSUME NEW i \in 1..Len(u), NEW j \in 1..Len(u),
             i <= Len(s), ~(j <= Len(s)), u[i] = u[j]
      PROVE  FALSE
  <2>1. i \in 1..Len(s) /\ s[i] = u[i]
    BY <1>1, <1>5
  <2>2. j - Len(s) \in 1..Len(t) /\ t[j - Len(s)] = u[i]
    BY <1>1, <1>5
  <2>3. Contains(s, u[i]) /\ Contains(t, u[i])
    BY <2>1, <2>2 DEF Contains
  <2> QED
    BY <2>3
<1> QED
  BY <1>3, <1>4, <1>5

(* Nothing occurs in it twice if nothing does in a part, or in two.        *)
LEMMA FlatInjective ==
    ASSUME NEW T, NEW n \in Nat, NEW ss \in [1..n -> Seq(T)],
           \A a \in 1..n : IsInjective(ss[a]),
           \A a \in 1..n : \A b \in 1..n : \A x :
               Contains(ss[a], x) /\ Contains(ss[b], x) => a = b
    PROVE  IsInjective(FlattenSeq(ss))
<1>1. PICK f \in [0..n -> Seq(T)] :
          /\ f[0] = <<>>
          /\ \A k \in 1..n : f[k] = f[k - 1] \o ss[k]
          /\ FlattenSeq(ss) = f[n]
  BY Flattened
<1> DEFINE U == {m \in Nat : m <= n =>
                    /\ IsInjective(f[m])
                    /\ \A x : Contains(f[m], x) =>
                                  \E a \in 1..m : Contains(ss[a], x)}
<1>2. 0 \in U
  BY <1>1 DEF Contains, IsInjective
<1>3. ASSUME NEW m \in U PROVE m + 1 \in U
  <2> SUFFICES ASSUME m + 1 <= n
               PROVE  /\ IsInjective(f[m + 1])
                      /\ \A x : Contains(f[m + 1], x) =>
                             \E a \in 1..(m + 1) : Contains(ss[a], x)
    OBVIOUS
  <2>1. m \in Nat /\ m <= n /\ IsInjective(f[m])
        /\ \A x : Contains(f[m], x) => \E a \in 1..m : Contains(ss[a], x)
    OBVIOUS
  <2>2. m + 1 \in 1..n /\ (m + 1) - 1 = m /\ m \in 0..n
    BY <2>1
  <2>3. f[m + 1] = f[m] \o ss[m + 1]
    BY <1>1, <2>2
  <2>4. f[m] \in Seq(T) /\ ss[m + 1] \in Seq(T)
    BY <2>2
  <2>5. \A a \in 1..m : a \in 1..n /\ a # m + 1 /\ a \in 1..(m + 1)
    BY <2>1, <2>2
  <2>6. \A x : ~(Contains(f[m], x) /\ Contains(ss[m + 1], x))
    BY <2>1, <2>2, <2>5
  <2>7. IsInjective(ss[m + 1])
    BY <2>2
  <2>8. IsInjective(f[m + 1])
    BY <2>1, <2>3, <2>4, <2>6, <2>7, InjectiveConcat
  <2>9. ASSUME NEW x, Contains(f[m + 1], x)
        PROVE  \E a \in 1..(m + 1) : Contains(ss[a], x)
    <3>1. Contains(f[m], x) \/ Contains(ss[m + 1], x)
      BY <2>3, <2>4, <2>9, ContainsConcat
    <3>2. m + 1 \in 1..(m + 1)
      BY <2>1
    <3> QED
      BY <2>1, <2>5, <3>1, <3>2
  <2> QED
    BY <2>8, <2>9
<1> HIDE DEF U
<1>4. \A m \in Nat : m \in U
  <2>1. U \in SUBSET Nat
    BY DEF U
  <2> QED
    BY <1>2, <1>3, <2>1, Induct
<1> QED
  BY <1>1, <1>4 DEF U

-----------------------------------------------------------------------------
(***************************************************************************)
(* The lists.  v is where the list of cell k goes on before index n: the   *)
(* last index below n in that cell, or EMPTY.  c is the cell of an index.  *)
(***************************************************************************)
Prior(v, c, k, n) ==
    /\ v \in -1..(n - 1)
    /\ v # EMPTY => c[v] = k
    /\ \A j \in 0..(n - 1) : v < j => c[j] # k

(* The lists of N cells, of n indices.                                     *)
Linked(h, l, c, n, N) ==
    /\ \A k \in 0..(N - 1) : Prior(h[k], c, k, n)
    /\ \A i \in 0..(n - 1) : c[i] < N => Prior(l[i], c, c[i], i)

(* What a list has been followed to: indices of cell k, in descending      *)
(* order, all of them down to the last.                                    *)
Chain(q, c, k, n) ==
    /\ q # <<>>
    /\ \A i \in 1..Len(q), j \in 1..Len(q) : i < j => q[j] < q[i]
    /\ \A i \in 1..Len(q) : q[i] # EMPTY => c[q[i]] = k
    /\ \A j \in 0..(n - 1) : c[j] = k /\ Last(q) <= j => Contains(q, j)

LEMMA LinkIsInt ==
    ASSUME NEW n \in Nat, NEW x \in -1..(n - 1) PROVE x \in Int
OBVIOUS

LEMMA FollowChain ==
    ASSUME NEW ln \in Nat, lscl \in [0..(ln - 1) -> Int],
           NEW n \in Nat, n <= ln, NEW N \in Nat, NEW k \in 0..(N - 1),
           NEW c, Linked(head, lscl, c, n, N),
           NEW q \in Seq(-1..(n - 1)), Chain(q, c, k, n)
    PROVE  /\ Follow(q) \in Seq(-1..(n - 1))
           /\ Chain(Follow(q), c, k, n)
           /\ Last(q) # EMPTY => Len(Follow(q)) = Len(q) + 1
           /\ Last(q) = EMPTY => Follow(q) = q
<1> DEFINE last == Last(q)
<1>0. /\ Len(q) \in Nat /\ Len(q) >= 1 /\ last = q[Len(q)]
      /\ last \in -1..(n - 1)
      /\ \A i \in 1..Len(q) : q[i] \in -1..(n - 1)
  <2>1. q # <<>>
    BY DEF Chain
  <2>2. Len(q) \in Nat /\ Len(q) >= 1
    BY <2>1
  <2> QED
    BY <2>2 DEF Last
<1>1. CASE last = EMPTY
  BY <1>1 DEF Follow
<1>2. CASE last # EMPTY
  <2> DEFINE v == lscl[last]
             r == Append(q, v)
  <2>1. last \in 0..(n - 1) /\ last # -1
    BY <1>0, <1>2 DEF EMPTY
  <2>2. c[last] = k
    BY <1>0, <1>2 DEF Chain
  <2>3. Prior(v, c, k, last)
    BY <2>1, <2>2 DEF Linked
  <2>4. /\ v \in -1..(last - 1)
        /\ v # EMPTY => c[v] = k
        /\ \A j \in 0..(last - 1) : v < j => c[j] # k
    BY <2>3 DEF Prior
  <2>5. v \in -1..(n - 1) /\ v < last
    BY <2>1, <2>4
  <2> HIDE DEF v, last
  <2>6. Follow(q) = r
    BY <1>2 DEF Follow, v, last
  <2>7. /\ r \in Seq(-1..(n - 1)) /\ Len(r) = Len(q) + 1
        /\ \A i \in 1..Len(q) : r[i] = q[i]
        /\ r[Len(q) + 1] = v
    BY <2>5, AppendProperties
  <2> HIDE DEF r
  <2>8. Last(r) = v
    BY <2>7 DEF Last
  <2>9. Chain(r, c, k, n)
    <3>1. r # <<>>
      BY <1>0, <2>7
    <3>2. ASSUME NEW i \in 1..Len(r), NEW j \in 1..Len(r), i < j
          PROVE  r[j] < r[i]
      <4>1. i \in 1..Len(q) /\ r[i] = q[i]
        <5>1. j <= Len(q) + 1 /\ i <= Len(q) + 1
          BY <2>7
        <5>2. i \in 1..Len(q)
          BY <1>0, <3>2, <5>1
        <5> QED
          BY <2>7, <5>2
      <4>2. CASE j \in 1..Len(q)
        BY <2>7, <3>2, <4>1, <4>2 DEF Chain
      <4>3. CASE j = Len(q) + 1
        <5>1. last <= q[i]
          <6>1. i = Len(q) \/ i < Len(q)
            BY <1>0, <4>1
          <6>2. Len(q) \in 1..Len(q)
            BY <1>0
          <6>3. i < Len(q) => q[Len(q)] < q[i]
            BY <4>1, <6>2 DEF Chain
          <6> QED
            BY <1>0, <4>1, <6>1, <6>3
        <5>2. r[j] = v
          BY <2>7, <4>3
        <5>3. v \in Int /\ last \in Int /\ q[i] \in Int /\ v < last
          <6>1. q[i] \in -1..(n - 1)
            BY <1>0, <4>1
          <6>2. q[i] \in Int /\ last \in Int /\ v \in Int
            BY <1>0, <2>5, <6>1, LinkIsInt
          <6> QED
            BY <2>5, <6>2
        <5>4. v < q[i]
          BY <5>1, <5>3
        <5> QED
          BY <4>1, <5>2, <5>4, Zenon
      <4>4. j \in 1..Len(q) \/ j = Len(q) + 1
        <5>1. Len(q) \in Nat /\ Len(r) = Len(q) + 1
          BY <1>0, <2>7
        <5>2. j \in Nat /\ 1 <= j /\ j <= Len(q) + 1
          BY <5>1
        <5> HIDE DEF r
        <5> QED
          BY <5>1, <5>2
      <4> QED
        BY <4>2, <4>3, <4>4, Zenon
    <3>3. ASSUME NEW i \in 1..Len(r), r[i] # EMPTY PROVE c[r[i]] = k
      <4>1. CASE i \in 1..Len(q)
        BY <2>7, <3>3, <4>1 DEF Chain
      <4>2. CASE i = Len(q) + 1
        <5>1. r[i] = v
          BY <2>7, <4>2
        <5> QED
          BY <2>4, <3>3, <5>1
      <4> QED
        BY <1>0, <2>7, <4>1, <4>2
    <3>4. ASSUME NEW j \in 0..(n - 1), c[j] = k, v <= j
          PROVE  Contains(r, j)
      <4>1. CASE last <= j
        <5>1. PICK i \in 1..Len(q) : q[i] = j
          BY <3>4, <4>1 DEF Chain, last, Contains
        <5>2. r[i] = j
          BY <2>7, <5>1
        <5>3. i \in 1..Len(r)
          BY <1>0, <2>7
        <5> QED
          BY <5>2, <5>3 DEF Contains
      <4>2. CASE ~(last <= j)
        <5>1. j \in 0..(last - 1) /\ ~(v < j)
          BY <2>1, <2>4, <3>4, <4>2
        <5>2. v = j
          BY <2>5, <3>4, <5>1
        <5>3. Len(q) + 1 \in 1..Len(r) /\ r[Len(q) + 1] = j
          BY <1>0, <2>7, <5>2
        <5> QED
          BY <5>3 DEF Contains
      <4> QED
        BY <4>1, <4>2
    <3> QED
      BY <2>8, <3>1, <3>2, <3>3, <3>4 DEF Chain
  <2> QED
    BY <1>2, <2>6, <2>7, <2>9 DEF last
<1> QED
  BY <1>1, <1>2

(* Following a chain to its end gives the indices of the cell, each once.  *)
Held(ln, c, n, N) == /\ lscl \in [0..(ln - 1) -> Int] /\ n <= ln
                     /\ Linked(head, lscl, c, n, N)

LEMMA ListIs ==
    ASSUME NEW ln \in Nat, NEW n \in Nat, NEW N \in Nat, NEW c,
           Held(ln, c, n, N), NEW k \in 0..(N - 1)
    PROVE  /\ ListOf(k) \in Seq(0..(n - 1))
           /\ IsInjective(ListOf(k))
           /\ \A i : Contains(ListOf(k), i) <=> i \in 0..(n - 1) /\ c[i] = k
<1> DEFINE S == {q \in Seq(-1..(n - 1)) : Chain(q, c, k, n)}
           g == [m \in 1..Links |-> [q \in S |-> Follow(q)]]
           base == <<head[k]>>
<1>0. /\ lscl \in [0..(ln - 1) -> Int] /\ n <= ln
      /\ Linked(head, lscl, c, n, N)
  BY DEF Held
<1>1. Links = ln + 1
  <2>1. DOMAIN lscl = 0..(ln - 1)
    BY <1>0
  <2>2. Cardinality(0..(ln - 1)) = ln
    <3>1. 0 \in Int /\ ln - 1 \in Int
      OBVIOUS
    <3>2. Cardinality(0..(ln - 1)) =
              IF 0 > ln - 1 THEN 0 ELSE (ln - 1) - 0 + 1
      BY <3>1, FS_Interval
    <3> QED
      BY <3>2
  <2> QED
    BY <2>1, <2>2 DEF Links
<1>2. base \in S
  <2>1. Prior(head[k], c, k, n)
    BY <1>0 DEF Linked
  <2>2. /\ head[k] \in -1..(n - 1)
        /\ head[k] # EMPTY => c[head[k]] = k
        /\ \A j \in 0..(n - 1) : head[k] < j => c[j] # k
    BY <2>1 DEF Prior
  <2>3. base \in Seq(-1..(n - 1)) /\ Len(base) = 1 /\ base[1] = head[k]
        /\ base # <<>>
    BY <2>2
  <2>4. Chain(base, c, k, n)
    <3>1. ASSUME NEW j \in 0..(n - 1), c[j] = k, head[k] <= j
          PROVE  Contains(base, j)
      <4>1. j = head[k]
        BY <2>2, <3>1
      <4>2. 1 \in 1..Len(base) /\ base[1] = j
        BY <2>3, <4>1
      <4> HIDE DEF base
      <4> QED
        BY <4>2 DEF Contains
    <3>2. Last(base) = head[k]
      BY <2>3 DEF Last
    <3> HIDE DEF base
    <3> QED
      BY <2>2, <2>3, <3>1, <3>2 DEF Chain
  <2> QED
    BY <2>3, <2>4
<1>3. ASSUME NEW q \in S
      PROVE  /\ Follow(q) \in S
             /\ Last(q) # EMPTY => Len(Follow(q)) = Len(q) + 1
             /\ Last(q) = EMPTY => Follow(q) = q
  <2>1. q \in Seq(-1..(n - 1)) /\ Chain(q, c, k, n)
    OBVIOUS
  <2>2. /\ Follow(q) \in Seq(-1..(n - 1))
        /\ Chain(Follow(q), c, k, n)
        /\ Last(q) # EMPTY => Len(Follow(q)) = Len(q) + 1
        /\ Last(q) = EMPTY => Follow(q) = q
    BY <1>0, <2>1, FollowChain
  <2> QED
    BY <2>2
<1>4. PICK f : Successive(f, Links, S, base, g)
  <2>1. Links \in Nat
    BY <1>1
  <2>2. Passes(Links, S, base, g)
    <3>1. \A m \in 1..Links : \A q \in S : g[m][q] \in S
      <4> HIDE DEF S
      <4> QED
        BY <1>3
    <3> HIDE DEF S, g
    <3> QED
      BY <1>2, <3>1 DEF Passes
  <2> HIDE DEF S, g, base
  <2> QED
    BY <2>1, <2>2, Iterates
<1>5. /\ f \in [0..Links -> S] /\ f[0] = base
      /\ \A m \in 1..Links : f[m] = Follow(f[m - 1])
  <2>1. /\ f \in [0..Links -> S] /\ f[0] = base
        /\ \A m \in 1..Links : f[m] = g[m][f[m - 1]]
    <3> HIDE DEF S, g, base
    <3> QED
      BY <1>4 DEF Successive
  <2>2. ASSUME NEW m \in 1..Links PROVE f[m] = Follow(f[m - 1])
    <3>1. m - 1 \in 0..Links
      BY <1>1
    <3>2. f[m - 1] \in S
      BY <2>1, <3>1
    <3>3. f[m] = g[m][f[m - 1]]
      BY <2>1
    <3> HIDE DEF S
    <3> QED
      BY <3>2, <3>3
  <2> QED
    BY <2>1, <2>2
<1> DEFINE it(e) == [m \in 0..Links |-> IF m = 0 THEN <<head[k]>>
                                        ELSE Follow(e[m - 1])]
           walk == CHOOSE e : e = it(e)
           last == walk[Links]
<1>6. walk = it(walk)
  <2>1. f = it(f)
    <3> HIDE DEF S, g
    <3>1. ASSUME NEW m \in 0..Links
          PROVE  f[m] = IF m = 0 THEN <<head[k]>> ELSE Follow(f[m - 1])
      <4>1. CASE m = 0
        BY <1>5, <4>1
      <4>2. CASE m # 0
        <5>1. m \in 1..Links
          BY <4>2, <1>1
        <5> QED
          BY <1>5, <4>2, <5>1
      <4> QED
        BY <4>1, <4>2
    <3> QED
      BY <1>5, <3>1
  <2> HIDE DEF it
  <2> QED
    BY <2>1
<1>7. ListOf(k) = IF Last(last) = EMPTY THEN Front(last) ELSE last
  BY DEF ListOf
<1> HIDE DEF walk, it, S, g
<1>8. /\ walk[0] = base
      /\ \A m \in 1..Links : walk[m] = Follow(walk[m - 1])
  <2>1. Links \in Nat
    BY <1>1
  <2>2. ASSUME NEW m \in 0..Links
        PROVE  walk[m] = IF m = 0 THEN <<head[k]>> ELSE Follow(walk[m - 1])
    BY <1>6 DEF it
  <2>3. 0 \in 0..Links /\ \A m \in 1..Links : m \in 0..Links /\ m # 0
    BY <2>1
  <2> QED
    BY <2>2, <2>3
<1> DEFINE U == {m \in Nat : m <= Links =>
                    /\ walk[m] \in S
                    /\ Last(walk[m]) # EMPTY => Len(walk[m]) = m + 1}
<1>9. 0 \in U
  BY <1>2, <1>8
<1>10. ASSUME NEW m \in U PROVE m + 1 \in U
  <2> SUFFICES ASSUME m + 1 <= Links
               PROVE  /\ walk[m + 1] \in S
                      /\ Last(walk[m + 1]) # EMPTY =>
                             Len(walk[m + 1]) = (m + 1) + 1
    OBVIOUS
  <2>1. m \in Nat /\ m + 1 \in 1..Links /\ (m + 1) - 1 = m /\ walk[m] \in S
        /\ (Last(walk[m]) # EMPTY => Len(walk[m]) = m + 1)
    BY <1>1
  <2>2. walk[m + 1] = Follow(walk[m])
    BY <1>8, <2>1
  <2> QED
    BY <1>3, <2>1, <2>2
<1> HIDE DEF U
<1>11. \A m \in Nat : m \in U
  <2>1. U \in SUBSET Nat
    BY DEF U
  <2> QED
    BY <1>9, <1>10, <2>1, Induct
<1>12. last \in S /\ (Last(last) # EMPTY => Len(last) = ln + 2)
  <2>1. Links \in Nat /\ Links <= Links /\ Links + 1 = ln + 2
    BY <1>1
  <2> QED
    BY <1>11, <2>1 DEF U
<1> HIDE DEF last
<1>13. last \in Seq(-1..(n - 1)) /\ Chain(last, c, k, n)
  BY <1>12 DEF S
<1>14. /\ Len(last) \in Nat /\ Len(last) >= 1 /\ Last(last) = last[Len(last)]
       /\ \A i \in 1..Len(last) : last[i] \in -1..(n - 1)
       /\ \A i \in 1..Len(last), j \in 1..Len(last) :
              i < j => last[j] < last[i]
       /\ \A i \in 1..Len(last) : last[i] # EMPTY => c[last[i]] = k
       /\ \A j \in 0..(n - 1) : c[j] = k /\ Last(last) <= j =>
              Contains(last, j)
  <2>1. last # <<>>
    BY <1>13 DEF Chain
  <2>2. Len(last) \in Nat /\ Len(last) >= 1
    BY <1>13, <2>1
  <2>3. \A i \in 1..Len(last) : last[i] \in -1..(n - 1)
    BY <1>13
  <2> QED
    BY <1>13, <2>2, <2>3 DEF Chain, Last
<1> DEFINE V == {m \in Nat : m + 1 <= Len(last) => last[m + 1] <= n - (m + 1)}
<1>15. 0 \in V
  BY <1>14
<1>16. ASSUME NEW m \in V PROVE m + 1 \in V
  <2> SUFFICES ASSUME (m + 1) + 1 <= Len(last)
               PROVE  last[(m + 1) + 1] <= n - ((m + 1) + 1)
    OBVIOUS
  <2>1. m + 1 \in 1..Len(last) /\ (m + 1) + 1 \in 1..Len(last)
        /\ m + 1 < (m + 1) + 1 /\ last[m + 1] <= n - (m + 1)
    BY <1>14
  <2>2. last[(m + 1) + 1] < last[m + 1]
    BY <1>14, <2>1
  <2>3. last[(m + 1) + 1] \in Int /\ last[m + 1] \in Int
    BY <1>14, <2>1
  <2> QED
    BY <2>1, <2>2, <2>3
<1> HIDE DEF V
<1>17. \A m \in Nat : m \in V
  <2>1. V \in SUBSET Nat
    BY DEF V
  <2> QED
    BY <1>15, <1>16, <2>1, Induct
<1>18. Last(last) = EMPTY
  <2> SUFFICES ASSUME Last(last) # EMPTY PROVE FALSE
    OBVIOUS
  <2>1. Len(last) = ln + 2
    BY <1>12
  <2>2. Len(last) - 1 \in V
    BY <1>14, <1>17
  <2>3. last[Len(last)] <= n - Len(last)
    BY <1>14, <2>2 DEF V
  <2>4. last[Len(last)] \in -1..(n - 1)
    BY <1>14
  <2> QED
    BY <1>0, <2>1, <2>3, <2>4
<1> DEFINE list == Front(last)
<1>19. ListOf(k) = list
  BY <1>7, <1>18
<1>20. /\ list \in Seq(-1..(n - 1)) /\ Len(list) = Len(last) - 1
       /\ \A i \in 1..(Len(last) - 1) : list[i] = last[i]
  <2>1. /\ 1 \in 1..(Len(last) + 1) /\ Len(last) - 1 \in 0..Len(last)
        /\ list = SubSeq(last, 1, Len(last) - 1)
    BY <1>14 DEF Front
  <2>2. 1 \in Int /\ Len(last) - 1 \in Int
        /\ \A i \in 1..(Len(last) - 1) : last[i] \in -1..(n - 1)
    BY <1>14
  <2>3. /\ list \in Seq(-1..(n - 1))
        /\ Len(list) =
              IF 1 <= Len(last) - 1 THEN (Len(last) - 1) - 1 + 1 ELSE 0
        /\ \A i \in 1..((Len(last) - 1) - 1 + 1) : list[i] = last[1 + i - 1]
    <3> DEFINE m == Len(last) - 1
    <3> HIDE DEF m, list
    <3>1. m \in Int /\ \A i \in 1..m : last[i] \in -1..(n - 1)
      BY <2>2 DEF m
    <3>2. /\ SubSeq(last, 1, m) \in Seq(-1..(n - 1))
          /\ Len(SubSeq(last, 1, m)) = IF 1 <= m THEN m - 1 + 1 ELSE 0
          /\ \A i \in 1..(m - 1 + 1) : SubSeq(last, 1, m)[i] = last[1 + i - 1]
      BY <3>1, SubSeqProperties
    <3>3. list = SubSeq(last, 1, m)
      BY <2>1 DEF m
    <3> QED
      BY <3>2, <3>3 DEF m
  <2> HIDE DEF list
  <2>6. Len(list) = Len(last) - 1
    <3> DEFINE m == Len(last)
    <3>1. m \in Nat /\ m >= 1
          /\ Len(list) = IF 1 <= m - 1 THEN (m - 1) - 1 + 1 ELSE 0
      BY <1>14, <2>3
    <3> HIDE DEF m
    <3>2. Len(list) = m - 1
      BY <3>1
    <3> QED
      BY <3>2 DEF m
  <2>7. ASSUME NEW i \in 1..(Len(last) - 1) PROVE list[i] = last[i]
    <3>1. i \in 1..((Len(last) - 1) - 1 + 1) /\ 1 + i - 1 = i
      BY <1>14
    <3>2. list[i] = last[1 + i - 1]
      BY <2>3, <3>1
    <3> QED
      BY <3>1, <3>2
  <2> QED
    BY <2>3, <2>6, <2>7
<1>26. /\ DOMAIN list = 1..Len(list)
       /\ \A i \in 1..Len(list) :
             i \in 1..Len(last) /\ i < Len(last) /\ list[i] = last[i]
  BY <1>14, <1>20
<1> HIDE DEF list
<1>21. \A i \in 1..Len(list) : list[i] \in 0..(n - 1) /\ c[list[i]] = k
  <2> SUFFICES ASSUME NEW i \in 1..Len(list)
               PROVE  list[i] \in 0..(n - 1) /\ c[list[i]] = k
    OBVIOUS
  <2>1. /\ i \in 1..Len(last) /\ Len(last) \in 1..Len(last) /\ i < Len(last)
        /\ list[i] = last[i]
    BY <1>14, <1>20
  <2>2. last[Len(last)] < last[i] /\ last[Len(last)] = -1
    BY <1>14, <1>18, <2>1 DEF EMPTY
  <2>3. last[i] \in -1..(n - 1) /\ last[i] # EMPTY
    BY <1>14, <2>1, <2>2 DEF EMPTY
  <2>4. last[i] \in 0..(n - 1)
    BY <2>2, <2>3
  <2> QED
    BY <1>14, <2>1, <2>3, <2>4
<1>22. list \in Seq(0..(n - 1))
  <2>1. list = [i \in 1..Len(list) |-> list[i]] /\ Len(list) \in Nat
    BY <1>14, <1>20
  <2> QED
    BY <1>21, <2>1
<1>23. IsInjective(list)
  <2> SUFFICES ASSUME NEW a \in 1..Len(list), NEW b \in 1..Len(list),
                      list[a] = list[b]
               PROVE  a = b
    BY <1>26 DEF IsInjective
  <2>1. /\ a \in 1..Len(last) /\ b \in 1..Len(last)
        /\ list[a] = last[a] /\ list[b] = last[b]
    BY <1>26
  <2>2. ~(a < b) /\ ~(b < a)
    <3>1. last[a] = last[b]
      BY <2>1
    <3>2. last[a] \in -1..(n - 1)
      BY <1>14, <2>1
    <3>3. \A x \in -1..(n - 1) : ~(x < x)
      OBVIOUS
    <3>4. ~(last[a] < last[b]) /\ ~(last[b] < last[a])
      BY <3>1, <3>2, <3>3
    <3>5. (a < b => last[b] < last[a]) /\ (b < a => last[a] < last[b])
      BY <1>14, <2>1
    <3> QED
      BY <3>4, <3>5
  <2> QED
    BY <2>1, <2>2
<1>24. ASSUME NEW i, Contains(list, i) PROVE i \in 0..(n - 1) /\ c[i] = k
  BY <1>21, <1>24 DEF Contains
<1>25. ASSUME NEW i \in 0..(n - 1), c[i] = k PROVE Contains(list, i)
  <2>1. Last(last) <= i
    BY <1>18 DEF EMPTY
  <2>2. PICK j \in 1..Len(last) : last[j] = i
    BY <1>14, <1>25, <2>1 DEF Contains
  <2>3. j # Len(last)
    <3>1. last[Len(last)] = -1
      BY <1>14, <1>18 DEF EMPTY
    <3>2. i # -1
      OBVIOUS
    <3> QED
      BY <2>2, <3>1, <3>2
  <2>4. j \in 1..Len(list)
    BY <1>14, <1>20, <2>3
  <2>5. list[j] = i
    BY <1>26, <2>2, <2>4
  <2> QED
    BY <2>4, <2>5 DEF Contains
<1> QED
  BY <1>19, <1>22, <1>23, <1>24, <1>25

(* CLL_init is about to file the elements at the positions q: c is the     *)
(* cell of each, and has a head.                                           *)
Filing(hn, h, ln, l, b, q, c) ==
    /\ h \in [0..(hn - 1) -> Int] /\ l \in [0..(ln - 1) -> Int]
    /\ NCells(b) \in Nat /\ NCells(b) <= hn
    /\ q \in Seq(Pos) /\ Len(q) <= ln
    /\ c \in [0..(Len(q) - 1) -> 0..(hn - 1)]
    /\ \A i \in 1..Len(q) : CellOf(b, q[i]) = c[i - 1]

(* It links the cells of the grid, whatever head and lscl held.            *)
LEMMA ListsLinked ==
    ASSUME NEW hn \in Nat, NEW h, NEW ln \in Nat, NEW l, NEW b, NEW q,
           NEW c, Filing(hn, h, ln, l, b, q, c)
    PROVE  /\ Lists(h, l, b, q).head \in [0..(hn - 1) -> Int]
           /\ Lists(h, l, b, q).lscl \in [0..(ln - 1) -> Int]
           /\ Linked(Lists(h, l, b, q).head, Lists(h, l, b, q).lscl, c,
                     Len(q), NCells(b))
<1> DEFINE N == NCells(b)
           n == Len(q)
           S == [head: [0..(hn - 1) -> Int], lscl: [0..(ln - 1) -> Int]]
           base == [head |-> Emptied(h, b), lscl |-> l]
           put(m, s) == PutInFront(s, m - 1, c[m - 1])
           g == [m \in 1..n |-> [s \in S |-> put(m, s)]]
<1>a. /\ h \in [0..(hn - 1) -> Int] /\ l \in [0..(ln - 1) -> Int]
      /\ N \in Nat /\ N <= hn /\ q \in Seq(Pos) /\ n <= ln
      /\ c \in [0..(n - 1) -> 0..(hn - 1)]
      /\ \A i \in 1..n : CellOf(b, q[i]) = c[i - 1]
  BY DEF Filing
<1>0. n \in Nat /\ N \in Nat /\ N <= hn /\ n <= ln
  BY <1>a
<1>1. /\ base \in S
      /\ \A k \in 0..(N - 1) : base.head[k] = EMPTY
  <2>1. DOMAIN h = 0..(hn - 1) /\ EMPTY \in Int
    BY <1>a DEF EMPTY
  <2>2. Emptied(h, b) \in [0..(hn - 1) -> Int]
    BY <1>a, <2>1 DEF Emptied
  <2>3. \A k \in 0..(N - 1) : k \in 0..(hn - 1) /\ k < N
    BY <1>0
  <2>4. \A k \in 0..(N - 1) : Emptied(h, b)[k] = EMPTY
    BY <2>1, <2>3 DEF Emptied
  <2> QED
    BY <1>a, <2>2, <2>4
<1>2. ASSUME NEW m \in 1..n, NEW s \in S
      PROVE  /\ put(m, s) \in S
             /\ m - 1 \in 0..(ln - 1) /\ c[m - 1] \in 0..(hn - 1)
             /\ put(m, s).head = [s.head EXCEPT ![c[m - 1]] = m - 1]
             /\ put(m, s).lscl = [s.lscl EXCEPT ![m - 1] = s.head[c[m - 1]]]
  <2>1. m - 1 \in 0..(n - 1) /\ m - 1 \in 0..(ln - 1) /\ m - 1 \in Int
    BY <1>0
  <2>2. c[m - 1] \in 0..(hn - 1)
    BY <1>a, <2>1
  <2>3. s.head \in [0..(hn - 1) -> Int] /\ s.lscl \in [0..(ln - 1) -> Int]
    OBVIOUS
  <2>4. /\ [s.head EXCEPT ![c[m - 1]] = m - 1] \in [0..(hn - 1) -> Int]
        /\ s.head[c[m - 1]] \in Int
    BY <2>1, <2>2, <2>3
  <2>5. [s.lscl EXCEPT ![m - 1] = s.head[c[m - 1]]] \in [0..(ln - 1) -> Int]
    BY <2>1, <2>3, <2>4
  <2> QED
    BY <2>1, <2>2, <2>4, <2>5 DEF PutInFront
<1> DEFINE it(e) == [m \in 0..n |->
                       IF m = 0 THEN base
                       ELSE PutInFront(e[m - 1], m - 1, CellOf(b, q[m]))]
           made == CHOOSE e : e = it(e)
<1>3. Lists(h, l, b, q) = made[n]
  BY DEF Lists
<1>4. \E e : e = it(e)
  <2>1. Passes(n, S, base, g)
    <3>1. \A m \in 1..n : \A s \in S : g[m][s] \in S
      <4> HIDE DEF S, put
      <4> QED
        BY <1>2
    <3> HIDE DEF S, g, base, n
    <3> QED
      BY <1>1, <3>1 DEF Passes
  <2>2. PICK f : Successive(f, n, S, base, g)
    <3> HIDE DEF S, g, base, n
    <3> QED
      BY <1>0, <2>1, Iterates
  <2>3. /\ f \in [0..n -> S] /\ f[0] = base
        /\ \A m \in 1..n : f[m] = g[m][f[m - 1]]
    <3> HIDE DEF S, g, base, n
    <3> QED
      BY <2>2 DEF Successive
  <2>4. ASSUME NEW m \in 1..n
        PROVE  f[m] = PutInFront(f[m - 1], m - 1, CellOf(b, q[m]))
    <3>0. m - 1 \in 0..n
      BY <1>0
    <3>1. m - 1 \in 0..n /\ f[m] = g[m][f[m - 1]]
      BY <2>3, <3>0
    <3>2. f[m - 1] \in S
      BY <2>3, <3>1
    <3>3. g[m][f[m - 1]] = put(m, f[m - 1])
      <4> HIDE DEF S, put
      <4> QED
        BY <3>2
    <3>4. CellOf(b, q[m]) = c[m - 1]
      BY <1>a
    <3> QED
      BY <3>1, <3>3, <3>4
  <2>5. f = it(f)
    <3> HIDE DEF S, g, base
    <3>1. ASSUME NEW m \in 0..n
          PROVE  f[m] = IF m = 0 THEN base
                        ELSE PutInFront(f[m - 1], m - 1, CellOf(b, q[m]))
      <4>1. CASE m = 0
        BY <2>3, <4>1
      <4>2. CASE m # 0
        <5>1. m \in 1..n
          BY <1>0, <4>2
        <5> QED
          BY <2>4, <4>2, <5>1
      <4> QED
        BY <4>1, <4>2
    <3> HIDE DEF n
    <3> QED
      BY <2>3, <3>1
  <2> QED
    BY <2>5
<1>5. made = it(made)
  <2> HIDE DEF it
  <2> QED
    BY <1>4
<1> HIDE DEF made, it, g, S, base
<1>6. /\ made[0] = base
      /\ \A m \in 1..n : made[m] = put(m, made[m - 1])
  <2>1. ASSUME NEW m \in 0..n
        PROVE  made[m] = IF m = 0 THEN base
                         ELSE PutInFront(made[m - 1], m - 1, CellOf(b, q[m]))
    BY <1>5 DEF it
  <2>2. 0 \in 0..n /\ \A m \in 1..n : m \in 0..n /\ m # 0
    BY <1>0
  <2>3. \A m \in 1..n : CellOf(b, q[m]) = c[m - 1]
    BY <1>a
  <2> QED
    BY <2>1, <2>2, <2>3
<1> HIDE DEF put, n, N
<1> DEFINE U == {m \in Nat : m <= n =>
                    /\ made[m] \in S
                    /\ Linked(made[m].head, made[m].lscl, c, m, N)}
<1>7. 0 \in U
  <2>1. \A k \in 0..(N - 1) : Prior(base.head[k], c, k, 0)
    BY <1>1 DEF Prior, EMPTY
  <2>2. Linked(base.head, base.lscl, c, 0, N)
    BY <2>1 DEF Linked
  <2> QED
    BY <1>1, <1>6, <2>2
<1>8. ASSUME NEW m \in U PROVE m + 1 \in U
  <2> SUFFICES ASSUME m + 1 <= n
               PROVE  /\ made[m + 1] \in S
                      /\ Linked(made[m + 1].head, made[m + 1].lscl, c,
                                m + 1, N)
    OBVIOUS
  <2> DEFINE s == made[m]
             t == made[m + 1]
             k0 == c[m]
  <2>1. m \in Nat /\ s \in S /\ Linked(s.head, s.lscl, c, m, N)
    BY <1>0
  <2>2. m + 1 \in 1..n /\ (m + 1) - 1 = m /\ m \in 0..(n - 1)
    BY <1>0, <2>1
  <2>3. t = put(m + 1, s)
    BY <1>6, <2>2
  <2>4. /\ t \in S
        /\ m \in 0..(ln - 1) /\ k0 \in 0..(hn - 1)
        /\ t.head = [s.head EXCEPT ![k0] = m]
        /\ t.lscl = [s.lscl EXCEPT ![m] = s.head[k0]]
    BY <1>2, <2>1, <2>2, <2>3
  <2>5. s.head \in [0..(hn - 1) -> Int] /\ s.lscl \in [0..(ln - 1) -> Int]
    BY <2>1 DEF S
  <2> HIDE DEF s, t
  <2>6. ASSUME NEW k \in 0..(N - 1) PROVE Prior(t.head[k], c, k, m + 1)
    <3>1. Prior(s.head[k], c, k, m)
      BY <2>1, <2>6 DEF Linked
    <3>2. k \in 0..(hn - 1)
      BY <1>0
    <3>3. CASE k = k0
      <4>1. t.head[k] = m
        BY <2>4, <2>5, <3>2, <3>3
      <4> QED
        BY <2>1, <3>3, <4>1 DEF Prior
    <3>4. CASE k # k0
      <4>1. t.head[k] = s.head[k]
        BY <2>4, <2>5, <3>2, <3>4
      <4>2. \A j \in 0..m : j \in 0..(m - 1) \/ j = m
        BY <2>1
      <4> QED
        BY <2>1, <3>1, <3>4, <4>1, <4>2 DEF Prior
    <3> QED
      BY <3>3, <3>4
  <2>7. ASSUME NEW i \in 0..m, c[i] < N PROVE Prior(t.lscl[i], c, c[i], i)
    <3>1. CASE i = m
      <4>1. t.lscl[i] = s.head[k0]
        BY <2>4, <2>5, <3>1
      <4>2. k0 \in 0..(N - 1)
        BY <1>0, <2>4, <2>7, <3>1
      <4> QED
        BY <2>1, <3>1, <4>1, <4>2 DEF Linked
    <3>2. CASE i # m
      <4>1. i \in 0..(m - 1) /\ i \in 0..(ln - 1)
        BY <2>1, <2>4, <3>2
      <4>2. t.lscl[i] = s.lscl[i]
        BY <2>4, <2>5, <3>2, <4>1
      <4> QED
        BY <2>1, <2>7, <4>1, <4>2 DEF Linked
    <3> QED
      BY <3>1, <3>2
  <2>8. (m + 1) - 1 = m
    BY <2>1
  <2>9. Linked(t.head, t.lscl, c, m + 1, N)
    BY <2>6, <2>7, <2>8 DEF Linked
  <2> QED
    BY <2>4, <2>9 DEF t
<1> HIDE DEF U
<1>9. \A m \in Nat : m \in U
  <2>1. U \in SUBSET Nat
    BY DEF U
  <2> QED
    BY <1>7, <1>8, <2>1, Induct
<1>10. made[n] \in S /\ Linked(made[n].head, made[n].lscl, c, n, N)
  BY <1>0, <1>9 DEF U
<1> QED
  BY <1>3, <1>10 DEF S, n, N

-----------------------------------------------------------------------------
(***************************************************************************)
(* The grid.  A bounding box has at least two cells in every dimension and *)
(* its sides are whole numbers of cells; each particle is inside.          *)
(***************************************************************************)
LEMMA Quotient ==
    ASSUME NEW n \in Nat, n >= 1, NEW x \in Nat
    PROVE  /\ x \div n \in Nat /\ x % n \in 0..(n - 1)
           /\ x = (x \div n) * n + (x % n)
OBVIOUS

LEMMA Extremes ==
    ASSUME NEW q \in Seq(Pos), q # <<>>, NEW d \in Dim,
           NEW S, S = {q[i][d] : i \in DOMAIN q}
    PROVE  /\ S \subseteq Nat
           /\ \A i \in 1..Len(q) :
                 /\ q[i][d] \in Nat
                 /\ Least(S) <= q[i][d] /\ q[i][d] <= Greatest(S)
           /\ Least(S) \in Nat /\ Greatest(S) \in Nat
<1>1. Len(q) \in Nat /\ 1 \in 1..Len(q) /\ DOMAIN q = 1..Len(q)
  OBVIOUS
<1>2. \A i \in 1..Len(q) : q[i][d] \in Nat /\ q[i][d] \in S
  <2>1. ASSUME NEW i \in 1..Len(q) PROVE q[i] \in [Dim -> Nat]
    BY <1>1, PosAssumption
  <2> QED
    BY <1>1, <2>1
<1>3. S \subseteq Nat /\ S # {}
  BY <1>1, <1>2
<1>4. \E x \in S : \A y \in S : x <= y
  BY <1>3, LeastOf
<1>5. Least(S) \in S /\ \A y \in S : Least(S) <= y
  BY <1>4 DEF Least
<1> DEFINE U == {m \in Nat : m <= Len(q) =>
                    \E n \in Nat : \A i \in 1..m : q[i][d] <= n}
<1>6. 0 \in U
  OBVIOUS
<1>7. ASSUME NEW m \in U PROVE m + 1 \in U
  <2> SUFFICES ASSUME m + 1 <= Len(q)
               PROVE  \E n \in Nat : \A i \in 1..(m + 1) : q[i][d] <= n
    OBVIOUS
  <2>1. m \in Nat /\ m <= Len(q)
    BY <1>1
  <2>2. PICK n \in Nat : \A i \in 1..m : q[i][d] <= n
    BY <2>1
  <2>3. m + 1 \in 1..Len(q)
    BY <1>1, <2>1
  <2>4. q[m + 1][d] \in Nat
    BY <1>2, <2>3
  <2>5. n + q[m + 1][d] \in Nat
    BY <2>4
  <2>6. ASSUME NEW i \in 1..(m + 1) PROVE q[i][d] <= n + q[m + 1][d]
    <3>1. CASE i = m + 1
      BY <2>4, <3>1
    <3>2. CASE i # m + 1
      <4>1. i \in 1..m /\ i \in 1..Len(q)
        BY <1>1, <2>1, <3>2
      <4>2. q[i][d] <= n /\ q[i][d] \in Nat
        BY <1>2, <2>2, <4>1
      <4> QED
        BY <2>4, <4>2
    <3> QED
      BY <3>1, <3>2
  <2> QED
    BY <2>5, <2>6
<1> HIDE DEF U
<1>8. \A m \in Nat : m \in U
  <2>1. U \in SUBSET Nat
    BY DEF U
  <2> QED
    BY <1>6, <1>7, <2>1, Induct
<1>9. PICK n \in Nat : \A i \in 1..Len(q) : q[i][d] <= n
  <2>1. Len(q) \in U /\ Len(q) <= Len(q)
    BY <1>1, <1>8
  <2> QED
    BY <2>1 DEF U
<1>10. S \in SUBSET (0..n)
  BY <1>1, <1>2, <1>9
<1>11. \E x \in S : \A y \in S : y <= x
  BY <1>3, <1>10, GreatestOf
<1>12. Greatest(S) \in S /\ \A y \in S : y <= Greatest(S)
  <2>1. \E x \in S : \A y \in S : x >= y
    BY <1>3, <1>11
  <2>2. Greatest(S) \in S /\ \A y \in S : Greatest(S) >= y
    BY <2>1 DEF Greatest
  <2> QED
    BY <1>3, <2>2
<1> QED
  BY <1>2, <1>3, <1>5, <1>12

LEMMA Rounding ==
    ASSUME NEW x \in Nat
    PROVE  /\ \E k \in Nat : Floor(x) = k * RC
           /\ Floor(x) \in Nat /\ Floor(x) <= x
           /\ \E k \in Nat : Ceil(x) = k * RC
           /\ Ceil(x) \in Nat /\ x <= Ceil(x)
<1>1. RC \in Nat /\ RC >= 1
  BY RadiusAssumption
<1>2. /\ x \div RC \in Nat /\ x % RC \in 0..(RC - 1)
      /\ x = (x \div RC) * RC + (x % RC)
  BY <1>1, Quotient
<1>3. x + RC - 1 \in Nat
  BY <1>1
<1>4. /\ (x + RC - 1) \div RC \in Nat /\ (x + RC - 1) % RC \in 0..(RC - 1)
      /\ x + RC - 1 = ((x + RC - 1) \div RC) * RC + ((x + RC - 1) % RC)
  BY <1>1, <1>3, Quotient
<1>5. Floor(x) = (x \div RC) * RC /\ Ceil(x) = ((x + RC - 1) \div RC) * RC
  BY DEF Floor, Ceil
<1>6. (x \div RC) * RC \in Nat /\ ((x + RC - 1) \div RC) * RC \in Nat
  BY <1>1, <1>2, <1>4
<1>7. Floor(x) \in Nat /\ Floor(x) <= x
  <2> DEFINE a == (x \div RC) * RC
             r == x % RC
  <2>1. a \in Nat /\ r \in 0..(RC - 1) /\ x = a + r
    BY <1>2, <1>6
  <2> HIDE DEF a, r
  <2>2. a <= x
    BY <1>1, <2>1
  <2> QED
    BY <1>5, <2>1, <2>2 DEF a
<1>8. Ceil(x) \in Nat /\ x <= Ceil(x)
  <2> DEFINE a == ((x + RC - 1) \div RC) * RC
             r == (x + RC - 1) % RC
  <2>1. a \in Nat /\ r \in 0..(RC - 1) /\ x + RC - 1 = a + r
    BY <1>4, <1>6
  <2> HIDE DEF a, r
  <2>2. x <= a
    BY <1>1, <2>1
  <2> QED
    BY <1>5, <2>1, <2>2 DEF a
<1> QED
  BY <1>2, <1>4, <1>5, <1>7, <1>8

(* What the rest needs to know of a box.                                   *)
Regular(b) ==
    /\ b.lo \in [Dim -> Nat]
    /\ \A d \in Dim : Lc(b)[d] \in Nat /\ Lc(b)[d] >= 2

LEMMA BoxRegular ==
    ASSUME NEW q \in Seq(Pos), q # <<>>, NEW b, b = BoundingBox(q)
    PROVE  /\ Regular(b)
           /\ \A i \in 1..Len(q), d \in Dim :
                 (q[i][d] - b.lo[d]) \div RC \in 0..(Lc(b)[d] - 1)
<1> DEFINE S(d) == {q[i][d] : i \in DOMAIN q}
<1>0. RC \in Nat /\ RC >= 1
  BY RadiusAssumption
<1>1. /\ b.lo = [d \in Dim |-> Lower(S(d))]
      /\ b.hi = [d \in Dim |-> Upper(S(d))]
  BY DEF BoundingBox
<1>2. ASSUME NEW d \in Dim
      PROVE  /\ b.lo[d] \in Nat /\ Lc(b)[d] \in Nat /\ Lc(b)[d] >= 2
             /\ \A i \in 1..Len(q) :
                   (q[i][d] - b.lo[d]) \div RC \in 0..(Lc(b)[d] - 1)
  <2> DEFINE lo == b.lo[d]
             hi == b.hi[d]
             min == Least(S(d))
             max == Greatest(S(d))
  <2>1. /\ \A i \in 1..Len(q) :
              q[i][d] \in Nat /\ min <= q[i][d] /\ q[i][d] <= max
        /\ min \in Nat /\ max \in Nat
    BY Extremes
  <2>2. lo = Greatest({0, Floor(min) - 2 * RC}) /\ hi = Ceil(max) + 2 * RC
    BY <1>1 DEF Lower, Upper
  <2> HIDE DEF min, max, lo, hi, S
  <2>3. PICK kf \in Nat : Floor(min) = kf * RC /\ kf * RC \in Nat
                          /\ kf * RC <= min
    BY <2>1, Rounding
  <2>4. PICK kc \in Nat : Ceil(max) = kc * RC /\ kc * RC \in Nat
                          /\ max <= kc * RC
    BY <2>1, Rounding
  <2>5. lo = IF kf * RC - 2 * RC >= 0 THEN kf * RC - 2 * RC ELSE 0
    <3> DEFINE x == kf * RC - 2 * RC
    <3>1. x \in Int /\ lo = Greatest({0, x})
      BY <1>0, <2>2, <2>3
    <3> HIDE DEF x
    <3>2. \E y \in {0, x} : \A z \in {0, x} : y >= z
      BY <3>1
    <3>3. lo \in {0, x} /\ \A z \in {0, x} : lo >= z
      BY <3>1, <3>2 DEF Greatest
    <3>4. lo = IF x >= 0 THEN x ELSE 0
      BY <3>1, <3>3
    <3> QED
      BY <3>4 DEF x
  <2>6. PICK kl \in Nat : lo = kl * RC /\ kl * RC \in Nat
    <3>1. CASE kf * RC - 2 * RC >= 0
      <4>1. kf >= 2
        <5>1. ASSUME kf < 2 PROVE FALSE
          <6>1. kf * RC + RC <= 2 * RC
            BY <1>0, <5>1, Products
          <6> QED
            BY <1>0, <2>3, <3>1, <6>1
        <5> QED
          BY <5>1
      <4>2. kf - 2 \in Nat /\ (kf - 2) * RC = kf * RC - 2 * RC
        BY <1>0, <4>1
      <4> QED
        BY <2>3, <2>5, <3>1, <4>2, <1>0
    <3>2. CASE ~(kf * RC - 2 * RC >= 0)
      <4>1. lo = 0 /\ 0 * RC = 0
        BY <1>0, <2>5, <3>2
      <4> QED
        BY <4>1
    <3> QED
      BY <3>1, <3>2
  <2>7. lo <= min
    BY <1>0, <2>1, <2>3, <2>5
  <2>8. hi = kc * RC + 2 * RC /\ hi = (kc + 2) * RC /\ max + 2 * RC <= hi
    <3>1. hi = kc * RC + 2 * RC
      BY <2>2, <2>4
    <3>2. (kc + 2) * RC = kc * RC + 2 * RC
      BY <1>0
    <3> QED
      BY <1>0, <2>1, <2>4, <3>1, <3>2
  <2> DEFINE lc == kc + 2 - kl
  <2>9. Lc(b)[d] = (hi - lo) \div RC
    BY DEF Lc, hi, lo
  <2>10. hi - lo = lc * RC
    <3>1. (kc + 2) * RC = kl * RC + lc * RC
      BY <1>0
    <3>2. lc * RC \in Int /\ (kc + 2) * RC \in Int
      BY <1>0
    <3> QED
      BY <2>6, <2>8, <3>1, <3>2
  <2>11. min <= max
    <3>1. 1 \in 1..Len(q)
      OBVIOUS
    <3>2. q[1][d] \in Nat /\ min <= q[1][d] /\ q[1][d] <= max
      BY <2>1, <3>1
    <3> QED
      BY <2>1, <3>2
  <2>12. lc >= 2
    <3>1. ASSUME lc < 2 PROVE FALSE
      <4>1. lc \in Int /\ lc * RC + RC <= 2 * RC
        BY <1>0, <3>1, Products
      <4>2. 2 * RC <= hi - lo
        BY <1>0, <2>1, <2>6, <2>7, <2>8, <2>11
      <4> QED
        BY <1>0, <2>10, <4>1, <4>2
    <3> QED
      BY <3>1
  <2>13. lc \in Nat /\ (lc * RC) \div RC = lc
    <3>1. lc \in Nat
      BY <2>12
    <3>2. 0 \in 0..(RC - 1) /\ lc * RC + 0 = lc * RC
      BY <1>0, <3>1
    <3>3. (lc * RC + 0) \div RC = lc
      BY <1>0, <3>1, <3>2, Division
    <3> QED
      BY <3>1, <3>2, <3>3
  <2>14. Lc(b)[d] = lc
    BY <2>9, <2>10, <2>13
  <2> HIDE DEF lc
  <2>15. ASSUME NEW i \in 1..Len(q)
         PROVE  (q[i][d] - lo) \div RC \in 0..(lc - 1)
    <3> DEFINE x == q[i][d] - lo
               k == x \div RC
               r == x % RC
    <3>1. q[i][d] \in Nat /\ min <= q[i][d] /\ q[i][d] <= max
      BY <2>1
    <3>2. x \in Nat
      BY <2>1, <2>6, <2>7, <3>1
    <3>3. x < lc * RC
      BY <1>0, <2>1, <2>4, <2>6, <2>8, <2>10, <3>1
    <3> HIDE DEF x
    <3>4. k \in Nat /\ r \in 0..(RC - 1) /\ x = k * RC + r
      BY <1>0, <3>2, Quotient
    <3> HIDE DEF k, r
    <3>5. ASSUME lc <= k PROVE FALSE
      <4>1. lc * RC <= k * RC /\ lc * RC \in Int /\ k * RC \in Int
        BY <1>0, <2>13, <3>4, <3>5, Products
      <4> QED
        BY <1>0, <3>3, <3>4, <4>1
    <3>6. k \in 0..(lc - 1)
      BY <2>13, <3>4, <3>5
    <3> QED
      BY <3>6 DEF k, x
  <2> QED
    BY <2>6, <2>12, <2>13, <2>14, <2>15 DEF lo
<1>3. b.lo \in [Dim -> Nat]
  BY <1>1, <1>2
<1> QED
  BY <1>2, <1>3 DEF Regular

LEMMA Rearranged ==
    ASSUME NEW lx \in Nat, NEW ly \in Nat, NEW x \in Nat, NEW y \in Nat,
           NEW z \in Nat
    PROVE  /\ x + y * lx + z * lx * ly = (y + z * ly) * lx + x
           /\ z * ly \in Nat /\ (y + z * ly) * lx \in Nat
<1>1. \A a \in Nat, b \in Nat, c \in Nat : (a * b) * c = (a * c) * b
  OBVIOUS
<1>2. \A a \in Nat, b \in Nat : (a + b) * lx = a * lx + b * lx
                                /\ a * b \in Nat
  OBVIOUS
<1>3. z * lx * ly = (z * ly) * lx
  BY <1>1
<1>4. z * ly \in Nat /\ y * lx \in Nat
  BY <1>2
<1>5. (y + z * ly) * lx = y * lx + (z * ly) * lx /\ (z * ly) * lx \in Nat
  BY <1>2, <1>4
<1> QED
  BY <1>3, <1>4, <1>5

(* A triple of the grid has a number below the number of cells.            *)
LEMMA NumberBelow ==
    ASSUME NEW lx \in Nat, lx >= 1, NEW ly \in Nat, ly >= 1,
           NEW lz \in Nat,
           NEW x \in 0..(lx - 1), NEW y \in 0..(ly - 1), NEW z \in 0..(lz - 1)
    PROVE  x + y * lx + z * lx * ly \in 0..(lx * ly * lz - 1)
<1> DEFINE u == y + z * ly
           m == lz * ly
<1>1. x + y * lx + z * lx * ly = u * lx + x /\ z * ly \in Nat /\ u * lx \in Nat
  BY Rearranged
<1>2. z * ly + ly <= lz * ly /\ lz * ly \in Int
  BY Products
<1>3. u \in Nat /\ m \in Nat /\ u < m
  BY <1>1, <1>2
<1>4. lx * ly * lz = m * lx
  <2>1. \A a \in Nat, b \in Nat, c \in Nat : (a * b) * c = (c * b) * a
    OBVIOUS
  <2> QED
    BY <2>1
<1> HIDE DEF u, m
<1>5. u * lx + lx <= m * lx /\ m * lx \in Int
  BY <1>3, Products
<1> DEFINE ul == u * lx
           ml == m * lx
<1>6. ul \in Nat /\ ml \in Int /\ ul + lx <= ml
  BY <1>1, <1>5
<1> HIDE DEF ul, ml
<1>7. ul + x \in 0..(ml - 1)
  BY <1>6
<1> QED
  BY <1>1, <1>4, <1>7 DEF ul, ml

Number(lx, ly, x, y, z) == x + y * lx + z * lx * ly

(* No other triple has that number.                                        *)
LEMMA NumberUnique ==
    ASSUME NEW lx \in Nat, lx >= 1, NEW ly \in Nat, ly >= 1,
           NEW x \in 0..(lx - 1), NEW y \in 0..(ly - 1), NEW z \in Nat,
           NEW a \in 0..(lx - 1), NEW b \in 0..(ly - 1), NEW c \in Nat,
           Number(lx, ly, x, y, z) = Number(lx, ly, a, b, c)
    PROVE  x = a /\ y = b /\ z = c
<1>0. x + y * lx + z * lx * ly = a + b * lx + c * lx * ly
  BY DEF Number
<1> DEFINE u == y + z * ly
           v == b + c * ly
<1>1. x + y * lx + z * lx * ly = u * lx + x /\ z * ly \in Nat
  BY Rearranged
<1>2. a + b * lx + c * lx * ly = v * lx + a /\ c * ly \in Nat
  BY Rearranged
<1>3. u \in Nat /\ v \in Nat
  BY <1>1, <1>2
<1> HIDE DEF u, v
<1>4. (u * lx + x) \div lx = u /\ (u * lx + x) % lx = x
  BY <1>3, Division
<1>5. (v * lx + a) \div lx = v /\ (v * lx + a) % lx = a
  BY <1>3, Division
<1>6. u = v /\ x = a
  BY <1>0, <1>1, <1>2, <1>4, <1>5
<1>7. z * ly + y = c * ly + b
  BY <1>1, <1>2, <1>6 DEF u, v
<1>8. (z * ly + y) \div ly = z /\ (z * ly + y) % ly = y
  BY Division
<1>9. (c * ly + b) \div ly = c /\ (c * ly + b) % ly = b
  BY Division
<1> QED
  BY <1>6, <1>7, <1>8, <1>9

(* A triple of numbers that is in the grid.                                *)
OnGrid(b, t) == \A d \in Dim : t[d] \in 0..(Lc(b)[d] - 1)

LEMMA GridIs ==
    ASSUME NEW b, NEW t
    PROVE  t \in Grid(b) => OnGrid(b, t) /\ t = <<t[1], t[2], t[3]>>
<1> SUFFICES ASSUME t \in Grid(b)
             PROVE  OnGrid(b, t) /\ t = <<t[1], t[2], t[3]>>
  OBVIOUS
<1> DEFINE A == 0..(Lc(b)[1] - 1)
           B == 0..(Lc(b)[2] - 1)
           C == 0..(Lc(b)[3] - 1)
<1>1. t \in A \X B \X C
  BY DEF Grid
<1> HIDE DEF A, B, C
<1>2. t[1] \in A /\ t[2] \in B /\ t[3] \in C /\ t = <<t[1], t[2], t[3]>>
  BY <1>1
<1>3. \A d \in Dim : d = 1 \/ d = 2 \/ d = 3
  BY DEF Dim
<1> QED
  BY <1>2, <1>3 DEF OnGrid, A, B, C

LEMMA LinearBelow ==
    ASSUME NEW b, Regular(b), NEW t, OnGrid(b, t)
    PROVE  Linear(b, t) \in 0..(NCells(b) - 1)
<1> DEFINE lc == Lc(b)
<1>1. 1 \in Dim /\ 2 \in Dim /\ 3 \in Dim
  BY DEF Dim
<1>2. /\ lc[1] \in Nat /\ lc[1] >= 1 /\ lc[2] \in Nat /\ lc[2] >= 1
      /\ lc[3] \in Nat
  BY <1>1 DEF Regular
<1>3. t[1] \in 0..(lc[1] - 1) /\ t[2] \in 0..(lc[2] - 1)
      /\ t[3] \in 0..(lc[3] - 1)
  BY <1>1 DEF OnGrid
<1>4. /\ Linear(b, t) = t[1] + t[2] * lc[1] + t[3] * lc[1] * lc[2]
      /\ NCells(b) = lc[1] * lc[2] * lc[3]
  BY DEF Linear, NCells
<1> HIDE DEF lc
<1> QED
  BY <1>2, <1>3, <1>4, NumberBelow

LEMMA LinearUnique ==
    ASSUME NEW b, Regular(b), NEW t, OnGrid(b, t), NEW u, OnGrid(b, u),
           Linear(b, t) = Linear(b, u)
    PROVE  t[1] = u[1] /\ t[2] = u[2] /\ t[3] = u[3]
<1> DEFINE lc == Lc(b)
<1>1. 1 \in Dim /\ 2 \in Dim /\ 3 \in Dim
  BY DEF Dim
<1>2. lc[1] \in Nat /\ lc[1] >= 1 /\ lc[2] \in Nat /\ lc[2] >= 1
  BY <1>1 DEF Regular
<1>3. /\ t[1] \in 0..(lc[1] - 1) /\ t[2] \in 0..(lc[2] - 1) /\ t[3] \in Nat
      /\ u[1] \in 0..(lc[1] - 1) /\ u[2] \in 0..(lc[2] - 1) /\ u[3] \in Nat
  BY <1>1 DEF OnGrid
<1>4. /\ Linear(b, t) = t[1] + t[2] * lc[1] + t[3] * lc[1] * lc[2]
      /\ Linear(b, u) = u[1] + u[2] * lc[1] + u[3] * lc[1] * lc[2]
  BY DEF Linear
<1> DEFINE lx == lc[1]
           ly == lc[2]
           x == t[1]
           y == t[2]
           z == t[3]
           x1 == u[1]
           y1 == u[2]
           z1 == u[3]
<1>5. Number(lx, ly, x, y, z) = Number(lx, ly, x1, y1, z1)
  BY <1>4 DEF Number
<1> HIDE DEF lc, lx, ly, x, y, z, x1, y1, z1
<1>6. lx \in Nat /\ lx >= 1 /\ ly \in Nat /\ ly >= 1
  BY <1>2 DEF lx, ly
<1>7. /\ x \in 0..(lx - 1) /\ y \in 0..(ly - 1) /\ z \in Nat
      /\ x1 \in 0..(lx - 1) /\ y1 \in 0..(ly - 1) /\ z1 \in Nat
  BY <1>3 DEF lx, ly, x, y, z, x1, y1, z1
<1>8. x = x1 /\ y = y1 /\ z = z1
  BY <1>5, <1>6, <1>7, NumberUnique
<1> QED
  BY <1>8 DEF x, y, z, x1, y1, z1

LEMMA CellsNat ==
    ASSUME NEW b, Regular(b)
    PROVE  NCells(b) \in Nat
<1>1. 1 \in Dim /\ 2 \in Dim /\ 3 \in Dim
  BY DEF Dim
<1>2. Lc(b)[1] \in Nat /\ Lc(b)[2] \in Nat /\ Lc(b)[3] \in Nat
  BY <1>1 DEF Regular
<1> DEFINE x == Lc(b)[1]
           y == Lc(b)[2]
           z == Lc(b)[3]
<1>3. NCells(b) = x * y * z
  BY DEF NCells
<1> HIDE DEF x, y, z
<1>4. x * y \in Nat
  BY <1>2 DEF x, y
<1>5. (x * y) * z \in Nat
  BY <1>2, <1>4 DEF z
<1> QED
  BY <1>3, <1>5

(* Every particle is in a cell of the box.                                 *)
LEMMA CellsOfEls ==
    ASSUME NEW q \in Seq(Pos), q # <<>>, NEW b, b = BoundingBox(q),
           NEW i \in 1..Len(q)
    PROVE  CellOf(b, q[i]) \in 0..(NCells(b) - 1)
<1> DEFINE t == [d \in Dim |-> (q[i][d] - b.lo[d]) \div RC]
<1>1. Regular(b) /\ OnGrid(b, t)
  BY BoxRegular DEF OnGrid
<1>2. CellOf(b, q[i]) = Linear(b, t)
  BY DEF CellOf
<1> HIDE DEF t
<1> QED
  BY <1>1, <1>2, LinearBelow

-----------------------------------------------------------------------------
(***************************************************************************)
(* The border cells.                                                       *)
(***************************************************************************)
Dims(b) == /\ Lc(b)[1] \in Nat /\ Lc(b)[1] >= 2
           /\ Lc(b)[2] \in Nat /\ Lc(b)[2] >= 2
           /\ Lc(b)[3] \in Nat /\ Lc(b)[3] >= 2

LEMMA RegularDims == ASSUME NEW b, Regular(b) PROVE Dims(b)
<1>1. 1 \in Dim /\ 2 \in Dim /\ 3 \in Dim
  BY DEF Dim
<1> QED
  BY <1>1 DEF Regular, Dims

(* A row on a face is visited in full, another one at its ends.            *)
LEMMA RowIs ==
    ASSUME NEW b, Regular(b), NEW y \in 0..(Lc(b)[2] - 1),
           NEW z \in 0..(Lc(b)[3] - 1)
    PROVE  /\ Row(b, y, z) \in Seq(Grid(b))
           /\ IsInjective(Row(b, y, z))
           /\ \A t : Contains(Row(b, y, z), t) <=>
                        \E x \in 0..(Lc(b)[1] - 1) :
                            /\ t = <<x, y, z>>
                            /\ OnFace(b, y, z) \/ x \in {0, Lc(b)[1] - 1}
<1> DEFINE lx == Lc(b)[1]
           step == StepX(b, y, z)
           n == (lx - 1) \div step + 1
           row == Row(b, y, z)
<1>1. lx \in Nat /\ lx >= 2
  BY RegularDims DEF Dims
<1>2. row = [k \in 1..n |-> <<(k - 1) * step, y, z>>]
  BY DEF Row
<1>3. step = IF OnFace(b, y, z) THEN 1 ELSE lx - 1
  BY DEF StepX
<1> HIDE DEF lx, step, row
<1>4. /\ n \in Nat /\ step \in Nat /\ step >= 1
      /\ \A k \in 1..n : (k - 1) * step \in 0..(lx - 1)
      /\ \A x \in 0..(lx - 1) :
            (\E k \in 1..n : (k - 1) * step = x) <=>
                OnFace(b, y, z) \/ x \in {0, lx - 1}
  <2>1. CASE OnFace(b, y, z)
    <3>1. step = 1
      BY <1>3, <2>1
    <3>2. (lx - 1) \div 1 = lx - 1
      <4>1. lx - 1 \in Nat /\ 0 \in 0..(1 - 1) /\ (lx - 1) * 1 + 0 = lx - 1
        BY <1>1
      <4>2. ((lx - 1) * 1 + 0) \div 1 = lx - 1
        BY <4>1, Division
      <4> QED
        BY <4>1, <4>2
    <3>3. n = lx
      BY <1>1, <3>1, <3>2
    <3> HIDE DEF n
    <3>4. \A k \in 1..n : (k - 1) * step = k - 1
      BY <1>1, <3>1, <3>3
    <3>5. ASSUME NEW x \in 0..(lx - 1)
          PROVE  \E k \in 1..n : (k - 1) * step = x
      <4>1. x + 1 \in 1..n /\ (x + 1) - 1 = x
        BY <1>1, <3>3
      <4> QED
        BY <3>4, <4>1
    <3>6. \A k \in 1..n : (k - 1) * step \in 0..(lx - 1)
      BY <1>1, <3>3, <3>4
    <3> QED
      BY <1>1, <2>1, <3>1, <3>3, <3>5, <3>6
  <2>2. CASE ~OnFace(b, y, z)
    <3>1. step = lx - 1 /\ step \in Nat /\ step >= 1
      BY <1>1, <1>3, <2>2
    <3>2. (lx - 1) \div step = 1
      <4>1. 1 \in Nat /\ 0 \in 0..(step - 1) /\ 1 * step + 0 = step
        BY <3>1
      <4>2. (1 * step + 0) \div step = 1
        BY <3>1, <4>1, Division
      <4> QED
        BY <3>1, <4>1, <4>2
    <3>3. n = 2
      BY <3>2
    <3> HIDE DEF n
    <3>4. (1 - 1) * step = 0 /\ (2 - 1) * step = lx - 1
      BY <1>1, <3>1
    <3>5. \A k \in 1..n : k = 1 \/ k = 2
      BY <3>3
    <3>6. 1 \in 1..n /\ 2 \in 1..n /\ 0 \in 0..(lx - 1)
          /\ lx - 1 \in 0..(lx - 1)
      BY <1>1, <3>3
    <3>7. \A k \in 1..n : (k - 1) * step \in {0, lx - 1}
      BY <3>4, <3>5
    <3>8. \A x \in {0, lx - 1} : \E k \in 1..n : (k - 1) * step = x
      BY <3>4, <3>6
    <3>9. {0, lx - 1} \subseteq 0..(lx - 1)
      BY <3>6
    <3>10. n \in Nat
      BY <3>3
    <3> QED
      BY <2>2, <3>1, <3>7, <3>8, <3>9, <3>10
  <2> QED
    BY <2>1, <2>2
<1> HIDE DEF n
<1>5. row \in Seq(Grid(b)) /\ Len(row) = n /\ DOMAIN row = 1..n
  <2>1. ASSUME NEW k \in 1..n PROVE <<(k - 1) * step, y, z>> \in Grid(b)
    <3>1. (k - 1) * step \in 0..(lx - 1)
      BY <1>4
    <3> QED
      BY <3>1 DEF Grid, lx
  <2> DEFINE G == Grid(b)
  <2>2. \A k \in 1..n : <<(k - 1) * step, y, z>> \in G
    BY <2>1
  <2> HIDE DEF G
  <2>3. row \in [1..n -> G]
    BY <1>2, <2>2
  <2>4. row \in Seq(G)
    BY <1>4, <2>3
  <2>5. Len(row) = n
    BY <1>4, <2>3, <2>4, LenProperties
  <2>6. DOMAIN row = 1..n
    BY <2>3
  <2> QED
    BY <2>4, <2>5, <2>6 DEF G
<1>6. IsInjective(row)
  <2> SUFFICES ASSUME NEW k \in 1..n, NEW m \in 1..n, row[k] = row[m]
               PROVE  k = m
    BY <1>5 DEF IsInjective
  <2>1. (k - 1) * step = (m - 1) * step
    BY <1>2
  <2>2. k - 1 \in Int /\ m - 1 \in Int
    OBVIOUS
  <2>3. k - 1 = m - 1
    BY <1>4, <2>1, <2>2, Products
  <2> QED
    BY <2>3
<1>7. ASSUME NEW t
      PROVE  Contains(row, t) <=>
                 \E x \in 0..(lx - 1) :
                     /\ t = <<x, y, z>>
                     /\ OnFace(b, y, z) \/ x \in {0, lx - 1}
  <2>1. Contains(row, t) <=> \E k \in 1..n : t = <<(k - 1) * step, y, z>>
    BY <1>2, <1>5 DEF Contains
  <2> QED
    BY <1>4, <2>1
<1> QED
  BY <1>5, <1>6, <1>7 DEF row, lx

(* The rows are numbered with y varying fastest, and each has one number.  *)
LEMMA RowNumbers ==
    ASSUME NEW ly \in Nat, ly >= 1, NEW lz \in Nat
    PROVE  /\ ly * lz \in Nat
           /\ \A k \in 1..(ly * lz) : /\ (k - 1) % ly \in 0..(ly - 1)
                                      /\ (k - 1) \div ly \in 0..(lz - 1)
           /\ \A y \in 0..(ly - 1) : \A z \in 0..(lz - 1) :
                 \E k \in 1..(ly * lz) : /\ (k - 1) % ly = y
                                         /\ (k - 1) \div ly = z
           /\ \A k \in 1..(ly * lz) : \A j \in 1..(ly * lz) :
                 /\ (k - 1) % ly = (j - 1) % ly
                 /\ (k - 1) \div ly = (j - 1) \div ly
                 => k = j
<1> DEFINE m == ly * lz
<1>1. m \in Nat /\ m = lz * ly
  OBVIOUS
<1>2. ASSUME NEW k \in 1..m
      PROVE  /\ (k - 1) % ly \in 0..(ly - 1) /\ (k - 1) \div ly \in 0..(lz - 1)
             /\ k - 1 = ((k - 1) \div ly) * ly + ((k - 1) % ly)
  <2>1. k - 1 \in Nat /\ k - 1 < m
    BY <1>1
  <2> DEFINE z == (k - 1) \div ly
             y == (k - 1) % ly
  <2>2. z \in Nat /\ y \in 0..(ly - 1) /\ k - 1 = z * ly + y
    BY <2>1, Quotient
  <2> HIDE DEF z, y, m
  <2>3. z < lz
    <3>1. SUFFICES ASSUME lz <= z PROVE FALSE
      BY <2>2
    <3>2. lz * ly <= z * ly
      BY <2>2, <3>1, Products
    <3> DEFINE a == z * ly
    <3>3. a \in Nat /\ m <= a /\ k - 1 = a + y
      BY <1>1, <2>2, <3>2
    <3> HIDE DEF a
    <3> QED
      BY <1>1, <2>1, <2>2, <3>3
  <2> QED
    BY <2>2, <2>3 DEF z, y
<1>3. ASSUME NEW y \in 0..(ly - 1), NEW z \in 0..(lz - 1)
      PROVE  \E k \in 1..m : (k - 1) % ly = y /\ (k - 1) \div ly = z
  <2>1. z * ly + ly <= lz * ly /\ z * ly \in Nat
    <3>1. z * ly \in Nat
      OBVIOUS
    <3>2. z * ly + ly <= lz * ly
      BY Products
    <3> QED
      BY <3>1, <3>2
  <2> DEFINE a == z * ly
             k == a + y + 1
  <2>2. a \in Nat /\ a + ly <= m
    BY <1>1, <2>1
  <2>3. (a + y) \div ly = z /\ (a + y) % ly = y
    BY Division
  <2> HIDE DEF a, m
  <2>4. k \in 1..m /\ k - 1 = a + y
    BY <1>1, <2>2
  <2> HIDE DEF k
  <2>5. (k - 1) % ly = y /\ (k - 1) \div ly = z
    BY <2>3, <2>4
  <2> QED
    BY <2>4, <2>5
<1>4. ASSUME NEW k \in 1..m, NEW j \in 1..m,
             (k - 1) % ly = (j - 1) % ly, (k - 1) \div ly = (j - 1) \div ly
      PROVE  k = j
  <2>1. k - 1 = j - 1
    BY <1>2, <1>4
  <2> HIDE DEF m
  <2> QED
    BY <1>1, <2>1
<1> QED
  BY <1>1, <1>2, <1>3, <1>4

LEMMA InShell ==
    ASSUME NEW b, NEW x \in 0..(Lc(b)[1] - 1), NEW y \in 0..(Lc(b)[2] - 1),
           NEW z \in 0..(Lc(b)[3] - 1)
    PROVE  /\ <<x, y, z>> \in Grid(b)
           /\ <<x, y, z>> \in Shell(b) <=>
                  OnFace(b, y, z) \/ x \in {0, Lc(b)[1] - 1}
<1> DEFINE t == <<x, y, z>>
<1>1. t[1] = x /\ t[2] = y /\ t[3] = z
  OBVIOUS
<1>2. t \in Grid(b)
  BY DEF Grid
<1>3. (\E d \in Dim : t[d] \in {0, Lc(b)[d] - 1}) <=>
          \/ t[1] \in {0, Lc(b)[1] - 1}
          \/ t[2] \in {0, Lc(b)[2] - 1}
          \/ t[3] \in {0, Lc(b)[3] - 1}
  <2>1. \A d \in Dim : d = 1 \/ d = 2 \/ d = 3
    BY DEF Dim
  <2>2. 1 \in Dim /\ 2 \in Dim /\ 3 \in Dim
    BY DEF Dim
  <2> HIDE DEF t
  <2> QED
    BY <2>1, <2>2
<1>4. t \in Shell(b) <=>
          t \in Grid(b) /\ \E d \in Dim : t[d] \in {0, Lc(b)[d] - 1}
  BY DEF Shell
<1> HIDE DEF t
<1>5. t \in Shell(b) <=> OnFace(b, y, z) \/ x \in {0, Lc(b)[1] - 1}
  BY <1>1, <1>2, <1>3, <1>4 DEF OnFace
<1> QED
  BY <1>2, <1>5 DEF t

(* get_border_cells_index visits the outer cells, each once.               *)
LEMMA VisitedAre ==
    ASSUME NEW b, Regular(b)
    PROVE  /\ VisitedCells(b) \in Seq(Grid(b))
           /\ IsInjective(VisitedCells(b))
           /\ \A t : Contains(VisitedCells(b), t) <=> t \in Shell(b)
<1> DEFINE lx == Lc(b)[1]
           ly == Lc(b)[2]
           lz == Lc(b)[3]
           m == ly * lz
           y(k) == (k - 1) % ly
           z(k) == (k - 1) \div ly
           rows == [k \in 1..m |-> Row(b, y(k), z(k))]
           G == Grid(b)
<1>1. ly \in Nat /\ ly >= 1 /\ lz \in Nat
  BY RegularDims DEF Dims
<1>2. /\ m \in Nat
      /\ \A k \in 1..m : y(k) \in 0..(ly - 1) /\ z(k) \in 0..(lz - 1)
      /\ \A v \in 0..(ly - 1) : \A w \in 0..(lz - 1) :
            \E k \in 1..m : y(k) = v /\ z(k) = w
      /\ \A k \in 1..m : \A j \in 1..m :
            y(k) = y(j) /\ z(k) = z(j) => k = j
  BY <1>1, RowNumbers
<1>3. VisitedCells(b) = FlattenSeq(rows)
  BY DEF VisitedCells
<1>4. \A k \in 1..m : rows[k] = Row(b, y(k), z(k))
  OBVIOUS
<1> HIDE DEF y, z, m
<1>5. ASSUME NEW k \in 1..m
      PROVE  /\ rows[k] \in Seq(Grid(b))
             /\ IsInjective(rows[k])
             /\ \A t : Contains(rows[k], t) <=>
                          \E x \in 0..(lx - 1) :
                              /\ t = <<x, y(k), z(k)>>
                              /\ OnFace(b, y(k), z(k)) \/ x \in {0, lx - 1}
  <2>1. y(k) \in 0..(Lc(b)[2] - 1) /\ z(k) \in 0..(Lc(b)[3] - 1)
    BY <1>2
  <2> DEFINE v == y(k)
             w == z(k)
  <2> HIDE DEF v, w
  <2>2. v \in 0..(Lc(b)[2] - 1) /\ w \in 0..(Lc(b)[3] - 1)
    BY <2>1 DEF v, w
  <2>3. /\ Row(b, v, w) \in Seq(Grid(b))
        /\ IsInjective(Row(b, v, w))
        /\ \A t : Contains(Row(b, v, w), t) <=>
                     \E x \in 0..(Lc(b)[1] - 1) :
                         /\ t = <<x, v, w>>
                         /\ OnFace(b, v, w) \/ x \in {0, Lc(b)[1] - 1}
    BY <2>2, RowIs
  <2> QED
    BY <1>4, <2>3 DEF v, w
<1>6. rows \in [1..m -> Seq(G)]
  <2>1. \A k \in 1..m : rows[k] \in Seq(G)
    BY <1>5
  <2> HIDE DEF G
  <2> QED
    BY <2>1
<1>7. ASSUME NEW t
      PROVE  (\E k \in 1..m : Contains(rows[k], t)) <=> t \in Shell(b)
  <2>1. ASSUME NEW k \in 1..m, Contains(rows[k], t)
        PROVE  t \in Shell(b)
    <3>1. PICK x \in 0..(lx - 1) :
              /\ t = <<x, y(k), z(k)>>
              /\ OnFace(b, y(k), z(k)) \/ x \in {0, lx - 1}
      BY <1>5, <2>1
    <3>2. y(k) \in 0..(Lc(b)[2] - 1) /\ z(k) \in 0..(Lc(b)[3] - 1)
      BY <1>2
    <3> QED
      BY <3>1, <3>2, InShell
  <2>2. ASSUME t \in Shell(b)
        PROVE  \E k \in 1..m : Contains(rows[k], t)
    <3>1. t \in Grid(b)
      BY <2>2 DEF Shell
    <3>2. OnGrid(b, t) /\ t = <<t[1], t[2], t[3]>>
      BY <3>1, GridIs
    <3>3. 1 \in Dim /\ 2 \in Dim /\ 3 \in Dim
      BY DEF Dim
    <3>4. t[1] \in 0..(Lc(b)[1] - 1) /\ t[2] \in 0..(Lc(b)[2] - 1)
          /\ t[3] \in 0..(Lc(b)[3] - 1)
      BY <3>2, <3>3 DEF OnGrid
    <3>5. OnFace(b, t[2], t[3]) \/ t[1] \in {0, Lc(b)[1] - 1}
      BY <2>2, <3>2, <3>4, InShell
    <3>6. PICK k \in 1..m : y(k) = t[2] /\ z(k) = t[3]
      BY <1>2, <3>4
    <3>7. /\ t = <<t[1], y(k), z(k)>>
          /\ OnFace(b, y(k), z(k)) \/ t[1] \in {0, lx - 1}
      BY <3>2, <3>5, <3>6
    <3> QED
      BY <1>5, <3>4, <3>7
  <2> QED
    BY <2>1, <2>2
<1>8. ASSUME NEW k \in 1..m, NEW j \in 1..m, NEW t,
             Contains(rows[k], t), Contains(rows[j], t)
      PROVE  k = j
  <2>1. PICK x \in 0..(lx - 1) : t = <<x, y(k), z(k)>>
    BY <1>5, <1>8
  <2>2. PICK x1 \in 0..(lx - 1) : t = <<x1, y(j), z(j)>>
    BY <1>5, <1>8
  <2>3. y(k) = y(j) /\ z(k) = z(j)
    <3>1. t[2] = y(k) /\ t[3] = z(k)
      BY <2>1
    <3>2. t[2] = y(j) /\ t[3] = z(j)
      BY <2>2
    <3> QED
      BY <3>1, <3>2
  <2> QED
    BY <1>2, <2>3
<1> HIDE DEF rows
<1>9. FlattenSeq(rows) \in Seq(G)
  BY <1>2, <1>6, FlatContains
<1>10. \A t : Contains(FlattenSeq(rows), t) <=>
                 \E k \in 1..m : Contains(rows[k], t)
  BY <1>2, <1>6, FlatContains
<1>11. IsInjective(FlattenSeq(rows))
  BY <1>2, <1>5, <1>6, <1>8, FlatInjective
<1> QED
  BY <1>3, <1>7, <1>9, <1>10, <1>11

(* Sequences of one element put together.                                  *)
LEMMA FlatSingletons ==
    ASSUME NEW T, NEW n \in Nat, NEW e \in [1..n -> T],
           NEW ss, ss = [k \in 1..n |-> <<e[k]>>]
    PROVE  FlattenSeq(ss) = e /\ e \in Seq(T) /\ Len(e) = n
<1>1. ss \in [1..n -> Seq(T)]
  <2>1. \A k \in 1..n : <<e[k]>> \in Seq(T)
    OBVIOUS
  <2> QED
    BY <2>1
<1>2. PICK f \in [0..n -> Seq(T)] :
          /\ f[0] = <<>>
          /\ \A k \in 1..n : f[k] = f[k - 1] \o ss[k]
          /\ FlattenSeq(ss) = f[n]
  BY <1>1, Flattened
<1> DEFINE part(m) == [k \in 1..m |-> e[k]]
           U == {m \in Nat : m <= n => f[m] = part(m)}
<1>3. 0 \in U
  <2>1. part(0) = <<>>
    OBVIOUS
  <2> QED
    BY <1>2, <2>1
<1>4. ASSUME NEW m \in U PROVE m + 1 \in U
  <2>1. SUFFICES ASSUME m + 1 <= n PROVE f[m + 1] = part(m + 1)
    OBVIOUS
  <2>2. m \in Nat /\ m <= n /\ m + 1 \in 1..n /\ (m + 1) - 1 = m
    BY <2>1
  <2>3. f[m + 1] = part(m) \o <<e[m + 1]>>
    <3>1. f[m] = part(m)
      BY <1>4, <2>2
    <3>2. f[m + 1] = f[m] \o ss[m + 1]
      BY <1>2, <2>2
    <3>3. ss[m + 1] = <<e[m + 1]>>
      BY <2>2
    <3> QED
      BY <3>1, <3>2, <3>3
  <2>4. \A k \in 1..m : k \in 1..n
    BY <2>2
  <2>5. part(m) \in [1..m -> T]
    BY <2>4
  <2> DEFINE u == part(m) \o <<e[m + 1]>>
  <2> DEFINE v == part(m)
  <2>6. v \in Seq(T) /\ Len(v) = m
    <3> HIDE DEF v
    <3>1. v \in [1..m -> T]
      BY <2>5 DEF v
    <3> QED
      BY <2>2, <3>1
  <2>7. \A k \in 1..m : v[k] = e[k]
    OBVIOUS
  <2> DEFINE x == e[m + 1]
             w == part(m + 1)
  <2>8. w \in [1..(m + 1) -> T]
    <3>1. \A k \in 1..(m + 1) : k \in 1..n
      BY <2>2
    <3> QED
      BY <3>1
  <2>9. x \in T /\ w[m + 1] = x
    BY <2>2
  <2>10. \A k \in 1..m : w[k] = e[k]
    BY <2>2
  <2> HIDE DEF v, w, x
  <2>11. /\ v \o <<x>> \in Seq(T) /\ Len(v \o <<x>>) = m + 1
         /\ \A k \in 1..(m + 1) : (v \o <<x>>)[k] =
                IF k <= m THEN v[k] ELSE x
    BY <2>2, <2>6, <2>9
  <2>12. w \in Seq(T) /\ Len(w) = m + 1
    BY <2>2, <2>8
  <2>13. \A k \in 1..(m + 1) : (v \o <<x>>)[k] = w[k]
    <3> TAKE k \in 1..(m + 1)
    <3>1. CASE k <= m
      <4>1. k \in 1..m
        BY <2>2, <3>1
      <4> QED
        BY <2>7, <2>10, <2>11, <3>1, <4>1
    <3>2. CASE ~(k <= m)
      <4>1. k = m + 1
        BY <2>2, <3>2
      <4> QED
        BY <2>9, <2>11, <3>2, <4>1
    <3> QED
      BY <3>1, <3>2
  <2>14. v \o <<x>> = w
    BY <2>11, <2>12, <2>13, SeqEqual
  <2> QED
    BY <2>3, <2>14 DEF v, w, x
<1>5. \A m \in Nat : m \in U
  <2>1. U \subseteq Nat
    OBVIOUS
  <2> HIDE DEF U
  <2> QED
    BY <1>3, <1>4, <2>1, Induct
<1>6. f[n] = part(n)
  BY <1>5 DEF U
<1>7. part(n) = e
  OBVIOUS
<1> QED
  BY <1>2, <1>6, <1>7

LEMMA BoxSize ==
    ASSUME NEW A, IsFiniteSet(A), NEW B, IsFiniteSet(B),
           NEW C, IsFiniteSet(C)
    PROVE  /\ IsFiniteSet(A \X B \X C)
           /\ Cardinality(A \X B \X C) =
                  (Cardinality(A) * Cardinality(B)) * Cardinality(C)
<1> DEFINE P == A \X B
           Q == P \X C
           R == A \X B \X C
           g == [p \in Q |-> <<p[1][1], p[1][2], p[2]>>]
<1>1. IsFiniteSet(P) /\ Cardinality(P) = Cardinality(A) * Cardinality(B)
  BY FS_Product
<1> HIDE DEF P
<1>2. IsFiniteSet(Q) /\ Cardinality(Q) = Cardinality(P) * Cardinality(C)
  BY <1>1, FS_Product
<1>3. \A p \in Q : /\ p[1][1] \in A /\ p[1][2] \in B /\ p[2] \in C
                   /\ p = << <<p[1][1], p[1][2]>>, p[2]>>
  <2> TAKE p \in Q
  <2>1. p[1] \in P /\ p[2] \in C /\ p = <<p[1], p[2]>>
    OBVIOUS
  <2> DEFINE u == p[1]
  <2> HIDE DEF u
  <2>2. u \in A \X B
    BY <2>1 DEF P, u
  <2>3. u[1] \in A /\ u[2] \in B /\ u = <<u[1], u[2]>>
    BY <2>2
  <2> QED
    BY <2>1, <2>3 DEF u
<1>4. g \in [Q -> R]
  BY <1>3
<1>5. ASSUME NEW p \in Q, NEW q \in Q, g[p] = g[q] PROVE p = q
  <2>1. <<p[1][1], p[1][2], p[2]>> = <<q[1][1], q[1][2], q[2]>>
    BY <1>5
  <2>2. p[1][1] = q[1][1] /\ p[1][2] = q[1][2] /\ p[2] = q[2]
    BY <2>1
  <2> QED
    BY <1>3, <2>2
<1>6. ASSUME NEW r \in R PROVE \E p \in Q : g[p] = r
  <2>1. r[1] \in A /\ r[2] \in B /\ r[3] \in C /\ r = <<r[1], r[2], r[3]>>
    OBVIOUS
  <2> DEFINE p == << <<r[1], r[2]>>, r[3]>>
  <2>2. p \in Q
    BY <2>1 DEF P
  <2>3. g[p] = <<r[1], r[2], r[3]>>
    BY <2>2
  <2> QED
    BY <2>1, <2>2, <2>3
<1> HIDE DEF g, Q, R
<1>7. g \in Bijection(Q, R)
  BY <1>4, <1>5, <1>6 DEF Bijection, Injection, Surjection, IsInjective
<1>8. ExistsBijection(Q, R)
  BY <1>7 DEF ExistsBijection
<1>9. IsFiniteSet(R) /\ Cardinality(R) = Cardinality(Q)
  BY <1>2, <1>8, FS_Bijection
<1> QED
  BY <1>1, <1>2, <1>9 DEF R

(* The entries reserved for the border cells are as many as there are.     *)
LEMMA ShellSize ==
    ASSUME NEW b, Regular(b)
    PROVE  IsFiniteSet(Shell(b)) /\ Cardinality(Shell(b)) = Reserved(b)
<1> DEFINE lx == Lc(b)[1]
           ly == Lc(b)[2]
           lz == Lc(b)[3]
           A == 0..(lx - 1)
           B == 0..(ly - 1)
           C == 0..(lz - 1)
           Ai == 1..(lx - 2)
           Bi == 1..(ly - 2)
           Ci == 1..(lz - 2)
           Inner == Ai \X Bi \X Ci
<1>1. /\ lx \in Nat /\ lx >= 2 /\ ly \in Nat /\ ly >= 2
      /\ lz \in Nat /\ lz >= 2
  BY RegularDims DEF Dims
<1>2. Grid(b) = A \X B \X C
  BY DEF Grid
<1>3. NCells(b) = (lx * ly) * lz
      /\ Reserved(b) = NCells(b) - ((lx - 2) * (ly - 2)) * (lz - 2)
  BY DEF NCells, Reserved
<1>4. ASSUME NEW t \in Grid(b)
      PROVE  t \in Shell(b) <=> t \notin Inner
  <2>1. OnGrid(b, t) /\ t = <<t[1], t[2], t[3]>>
    BY GridIs
  <2>2. 1 \in Dim /\ 2 \in Dim /\ 3 \in Dim
        /\ \A d \in Dim : d = 1 \/ d = 2 \/ d = 3
    BY DEF Dim
  <2>3. t[1] \in A /\ t[2] \in B /\ t[3] \in C
    BY <2>1, <2>2 DEF OnGrid
  <2>4. t \in Shell(b) <=> \/ t[1] \in {0, lx - 1}
                           \/ t[2] \in {0, ly - 1}
                           \/ t[3] \in {0, lz - 1}
    BY <2>2 DEF Shell
  <2>5. /\ t[1] \in {0, lx - 1} <=> t[1] \notin Ai
        /\ t[2] \in {0, ly - 1} <=> t[2] \notin Bi
        /\ t[3] \in {0, lz - 1} <=> t[3] \notin Ci
    <3> DEFINE x == t[1]
               y == t[2]
               z == t[3]
    <3> HIDE DEF lx, ly, lz, x, y, z
    <3>1. x \in A /\ y \in B /\ z \in C
      BY <2>3 DEF x, y, z
    <3>2. x \in {0, lx - 1} <=> x \notin Ai
      BY <1>1, <3>1
    <3>3. y \in {0, ly - 1} <=> y \notin Bi
      BY <1>1, <3>1
    <3>4. z \in {0, lz - 1} <=> z \notin Ci
      BY <1>1, <3>1
    <3> QED
      BY <3>2, <3>3, <3>4 DEF x, y, z
  <2> HIDE DEF Ai, Bi, Ci
  <2>6. t \in Inner <=> t[1] \in Ai /\ t[2] \in Bi /\ t[3] \in Ci
    BY <2>1
  <2> HIDE DEF Inner, lx, ly, lz
  <2> QED
    BY <2>4, <2>5, <2>6
<1> HIDE DEF lx, ly, lz
<1>5. /\ IsFiniteSet(A) /\ Cardinality(A) = lx
      /\ IsFiniteSet(B) /\ Cardinality(B) = ly
      /\ IsFiniteSet(C) /\ Cardinality(C) = lz
  <2>1. ASSUME NEW n \in Nat, n >= 2
        PROVE  IsFiniteSet(0..(n - 1)) /\ Cardinality(0..(n - 1)) = n
    <3>1. 0 \in Int /\ n - 1 \in Int /\ ~(0 > n - 1) /\ (n - 1) - 0 + 1 = n
      BY <2>1
    <3> QED
      BY <3>1, FS_Interval
  <2> QED
    BY <1>1, <2>1
<1>6. /\ IsFiniteSet(Ai) /\ Cardinality(Ai) = lx - 2
      /\ IsFiniteSet(Bi) /\ Cardinality(Bi) = ly - 2
      /\ IsFiniteSet(Ci) /\ Cardinality(Ci) = lz - 2
  <2>1. ASSUME NEW n \in Nat, n >= 2
        PROVE  IsFiniteSet(1..(n - 2)) /\ Cardinality(1..(n - 2)) = n - 2
    <3>1. 1 \in Int /\ n - 2 \in Int
      BY <2>1
    <3>2. IsFiniteSet(1..(n - 2)) /\ Cardinality(1..(n - 2)) =
              IF 1 > n - 2 THEN 0 ELSE (n - 2) - 1 + 1
      BY <3>1, FS_Interval
    <3>3. (IF 1 > n - 2 THEN 0 ELSE (n - 2) - 1 + 1) = n - 2
      BY <2>1
    <3> QED
      BY <3>2, <3>3
  <2> QED
    BY <1>1, <2>1
<1>7. Inner \subseteq Grid(b)
  <2>1. Ai \subseteq A /\ Bi \subseteq B /\ Ci \subseteq C
    BY <1>1
  <2> HIDE DEF A, B, C, Ai, Bi, Ci
  <2> QED
    BY <1>2, <2>1
<1> HIDE DEF A, B, C, Ai, Bi, Ci
<1>8. IsFiniteSet(Grid(b)) /\ Cardinality(Grid(b)) = NCells(b)
  BY <1>2, <1>3, <1>5, BoxSize
<1>9. Cardinality(Inner) = ((lx - 2) * (ly - 2)) * (lz - 2)
  BY <1>6, BoxSize
<1> HIDE DEF Inner
<1>10. Shell(b) = Grid(b) \ Inner
  <2>1. Shell(b) \subseteq Grid(b)
    BY DEF Shell
  <2> QED
    BY <1>4, <2>1
<1>11. Grid(b) \cap Inner = Inner
  BY <1>7
<1>12. IsFiniteSet(Shell(b)) /\
          Cardinality(Shell(b)) = Cardinality(Grid(b)) - Cardinality(Inner)
  BY <1>8, <1>10, <1>11, FS_Difference
<1> QED
  BY <1>3, <1>8, <1>9, <1>12

LEMMA InBounded ==
    ASSUME NEW S, NEW n \in Nat, NEW q \in BoundedSeq(S, n)
    PROVE  q \in Seq(S)
<1>1. PICK m \in 0..n : q \in [1..m -> S]
  BY DEF BoundedSeq, SeqOf
<1>2. m \in Nat
  OBVIOUS
<1> QED
  BY <1>1, <1>2

(* One entry for every outer cell, as many as are reserved.                *)
ShellEntries(b, entries) ==
    /\ entries \in Seq([cell: 0..(NCells(b) - 1), pes: SUBSET Rank])
    /\ Len(entries) = Reserved(b)
    /\ \A k \in 1..Len(entries) : \A m \in 1..Len(entries) :
          entries[k].cell = entries[m].cell => k = m
    /\ \A c : (\E k \in 1..Len(entries) : entries[k].cell = c)
              <=> \E t \in Shell(b) : c = Linear(b, t)

(* The bordering cells of the bounding box of any particles.               *)
LEMMA BordersAre ==
    ASSUME ~Alone, NEW q \in BoundedSeq(Pos, MaxEls) \ {<<>>},
           NEW b, b = BoundingBox(q)
    PROVE  ShellEntries(b, BorderCells(b))
<1> DEFINE v == VisitedCells(b)
           n == Len(v)
           T == [cell: 0..(NCells(b) - 1), pes: SUBSET Rank]
           near(t) == RanksNear(CornerOf(b, Linear(b, t)))
           entry(t) == [cell |-> Linear(b, t), pes |-> near(t)]
           e == [k \in 1..n |-> entry(v[k])]
           ss == [k \in DOMAIN v |-> BorderCell(b, Linear(b, v[k]))]
           B == BorderCells(b)
<1>1. Regular(b)
  BY InBounded, BoundAssumption, BoxRegular
<1>2. /\ v \in Seq(Grid(b)) /\ IsInjective(v)
      /\ \A t : Contains(v, t) <=> t \in Shell(b)
  BY <1>1, VisitedAre
<1>3. n \in Nat /\ v \in [1..n -> Grid(b)] /\ DOMAIN v = 1..n
  BY <1>2, LenProperties
<1>4. B = FlattenSeq(ss)
  BY DEF BorderCells
<1> HIDE DEF v, n, B
<1>5. \A t \in Grid(b) : OnGrid(b, t) /\ Linear(b, t) \in 0..(NCells(b) - 1)
  BY <1>1, GridIs, LinearBelow
<1>6. ASSUME NEW t \in Grid(b)
      PROVE  /\ entry(t) \in T
             /\ BorderCell(b, Linear(b, t)) = <<entry(t)>>
  <2>1. Linear(b, t) \in 0..(NCells(b) - 1)
    BY <1>5
  <2>2. near(t) # {}
    BY <2>1, RegionAssumption
  <2>3. near(t) \subseteq Rank
    BY DEF RanksNear, BoxAssign
  <2> DEFINE pes == near(t)
             cell == Linear(b, t)
  <2> HIDE DEF pes, cell
  <2>4. entry(t) = [cell |-> cell, pes |-> pes]
    BY DEF pes, cell
  <2>5. pes # {} /\ pes \subseteq Rank /\ cell \in 0..(NCells(b) - 1)
    BY <2>1, <2>2, <2>3 DEF pes, cell
  <2>6. entry(t) \in T
    BY <2>4, <2>5
  <2>7. BorderCell(b, cell) = <<[cell |-> cell, pes |-> pes]>>
    BY <2>5 DEF BorderCell, pes, cell
  <2> QED
    BY <2>4, <2>6, <2>7 DEF cell
<1> HIDE DEF T, entry
<1>7. e \in [1..n -> T]
  BY <1>3, <1>6
<1>8. ss = [k \in 1..n |-> <<e[k]>>]
  <2>1. \A k \in 1..n : BorderCell(b, Linear(b, v[k])) = <<e[k]>>
    BY <1>3, <1>6
  <2> QED
    BY <1>3, <2>1
<1> HIDE DEF ss, e
<1>9. B = e /\ e \in Seq(T) /\ Len(e) = n
  BY <1>3, <1>4, <1>7, <1>8, FlatSingletons
<1>10. \A k \in 1..n : B[k].cell = Linear(b, v[k]) /\ v[k] \in Grid(b)
  BY <1>3, <1>9 DEF entry, e
<1>11. n = Reserved(b)
  <2>1. IsFiniteSet(Shell(b)) /\ Cardinality(Shell(b)) = Reserved(b)
    BY <1>1, ShellSize
  <2>2. \A t : t \in Shell(b) <=> \E k \in 1..n : v[k] = t
    BY <1>2, <1>3 DEF Contains
  <2>3. v \in [1..n -> Shell(b)]
    BY <1>3, <2>2
  <2>4. v \in Bijection(1..n, Shell(b))
    BY <1>2, <2>2, <2>3 DEF Bijection, Injection, Surjection
  <2>5. ExistsBijection(1..n, Shell(b))
    BY <2>4 DEF ExistsBijection
  <2>6. IsFiniteSet(1..n) /\ Cardinality(1..n) = n
    <3>1. 1 \in Int /\ n \in Int
      BY <1>3
    <3>2. IsFiniteSet(1..n)
          /\ Cardinality(1..n) = IF 1 > n THEN 0 ELSE n - 1 + 1
      BY <3>1, FS_Interval
    <3>3. (IF 1 > n THEN 0 ELSE n - 1 + 1) = n
      BY <1>3
    <3> QED
      BY <3>2, <3>3
  <2>7. Cardinality(Shell(b)) = Cardinality(1..n)
    BY <2>5, <2>6, FS_Bijection
  <2> QED
    BY <2>1, <2>6, <2>7
<1>12. ASSUME NEW k \in 1..n, NEW m \in 1..n, B[k].cell = B[m].cell
       PROVE  k = m
  <2> DEFINE t == v[k]
             u == v[m]
  <2>1. t \in Grid(b) /\ u \in Grid(b) /\ Linear(b, t) = Linear(b, u)
    BY <1>10, <1>12
  <2> HIDE DEF t, u
  <2>2. OnGrid(b, t) /\ OnGrid(b, u)
    BY <1>5, <2>1
  <2>3. t[1] = u[1] /\ t[2] = u[2] /\ t[3] = u[3]
    BY <1>1, <2>1, <2>2, LinearUnique
  <2>4. t = <<t[1], t[2], t[3]>> /\ u = <<u[1], u[2], u[3]>>
    BY <2>1, GridIs
  <2>5. t = u
    BY <2>3, <2>4
  <2> QED
    BY <1>2, <1>3, <2>5 DEF IsInjective, t, u
<1>13. \A c : (\E k \in 1..n : B[k].cell = c)
              <=> \E t \in Shell(b) : c = Linear(b, t)
  <2>1. \A t : t \in Shell(b) <=> \E k \in 1..n : v[k] = t
    BY <1>2, <1>3 DEF Contains
  <2> QED
    BY <1>10, <2>1
<1>14. B \in Seq(T) /\ Len(B) = n
  BY <1>9
<1>15. /\ B \in Seq(T) /\ Len(B) = Reserved(b)
       /\ \A k \in 1..Len(B) : \A m \in 1..Len(B) :
             B[k].cell = B[m].cell => k = m
       /\ \A c : (\E k \in 1..Len(B) : B[k].cell = c)
                 <=> \E t \in Shell(b) : c = Linear(b, t)
  BY <1>11, <1>12, <1>13, <1>14
<1> QED
  BY <1>15 DEF B, T, ShellEntries

-----------------------------------------------------------------------------
(***************************************************************************)
(* What the lists hold from step to step.  A vector of any length; lists   *)
(* in which the elements at the positions q are filed under their cells.   *)
(***************************************************************************)
Vector(v) == \E m \in Nat : v \in [0..(m - 1) -> Int]

CellsOf(b, q) == [i \in 0..(Len(q) - 1) |-> CellOf(b, q[i + 1])]

Filed(h, l, b, q) ==
    \E ln \in Nat : /\ l \in [0..(ln - 1) -> Int]
                    /\ Len(q) <= ln
                    /\ Linked(h, l, CellsOf(b, q), Len(q), NCells(b))

LEMMA ResizedIs ==
    ASSUME NEW v, Vector(v), NEW n \in Nat
    PROVE  \E m \in Nat : m >= n /\ Resized(v, n) \in [0..(m - 1) -> Int]
<1>1. PICK k \in Nat : v \in [0..(k - 1) -> Int]
  BY DEF Vector
<1>2. DOMAIN v = 0..(k - 1)
  BY <1>1
<1>3. ASSUME NEW m \in Nat, (0..(k - 1)) \cup (0..(n - 1)) = 0..(m - 1)
      PROVE  Resized(v, n) \in [0..(m - 1) -> Int]
  <2>1. Resized(v, n) = [i \in 0..(m - 1) |->
                           IF i \in DOMAIN v THEN v[i] ELSE 0]
    BY <1>2, <1>3 DEF Resized
  <2>2. \A i \in 0..(m - 1) : (IF i \in DOMAIN v THEN v[i] ELSE 0) \in Int
    BY <1>1, <1>2
  <2> QED
    BY <2>1, <2>2
<1>4. CASE k <= n
  <2>1. (0..(k - 1)) \cup (0..(n - 1)) = 0..(n - 1)
    BY <1>4
  <2> QED
    BY <1>3, <2>1
<1>5. CASE ~(k <= n)
  <2>1. (0..(k - 1)) \cup (0..(n - 1)) = 0..(k - 1) /\ k >= n
    BY <1>5
  <2> QED
    BY <1>3, <2>1
<1> QED
  BY <1>4, <1>5

(* CLL_init, with its resizing, files the elements or throws.              *)
LEMMA MadeLists ==
    ASSUME NEW q \in Seq(Pos), Vector(head), Vector(lscl), Regular(bbox),
           NEW next, MakeLists(q, next), next # "aborted"
    PROVE  /\ Vector(head') /\ Vector(lscl')
           /\ pc' \in {next, "aborted"}
           /\ pc' # "aborted" => Filed(head', lscl', bbox, q)
           /\ pc' = "aborted" =>
                 \E i \in 1..Len(q) :
                     CellOf(bbox, q[i]) \notin 0..(NCells(bbox) - 1)
<1> DEFINE N == NCells(bbox)
           n == Len(q)
           h == Resized(head, N)
           l == Resized(lscl, n)
           c == CellsOf(bbox, q)
<1>1. N \in Nat /\ n \in Nat /\ DOMAIN q = 1..n
  BY CellsNat, LenProperties
<1>2. PICK hn \in Nat : hn >= N /\ h \in [0..(hn - 1) -> Int]
  BY <1>1, ResizedIs
<1>3. PICK ln \in Nat : ln >= n /\ l \in [0..(ln - 1) -> Int]
  BY <1>1, ResizedIs
<1>4. DOMAIN h = 0..(hn - 1)
  BY <1>2
<1>5. CASE InCells(h, q)
  <2>1. head' = Lists(h, l, bbox, q).head /\ lscl' = Lists(h, l, bbox, q).lscl
        /\ pc' = next
    BY <1>5 DEF MakeLists
  <2>2. \A i \in 1..n : CellOf(bbox, q[i]) \in 0..(hn - 1)
    BY <1>1, <1>4, <1>5 DEF InCells
  <2>3. c \in [0..(n - 1) -> 0..(hn - 1)]
    <3>1. \A i \in 0..(n - 1) : i + 1 \in 1..n
      BY <1>1
    <3>2. \A i \in 0..(n - 1) : CellOf(bbox, q[i + 1]) \in 0..(hn - 1)
      BY <2>2, <3>1
    <3> QED
      BY <3>2 DEF CellsOf
  <2>4. \A i \in 1..n : CellOf(bbox, q[i]) = c[i - 1]
    <3>1. \A i \in 1..n : i - 1 \in 0..(n - 1) /\ (i - 1) + 1 = i
      BY <1>1
    <3> QED
      BY <3>1 DEF CellsOf
  <2>11. \A i \in 1..Len(q) : CellOf(bbox, q[i]) = c[i - 1]
    BY <2>4
  <2>12. c \in [0..(Len(q) - 1) -> 0..(hn - 1)]
    BY <2>3
  <2>13. NCells(bbox) \in Nat /\ NCells(bbox) <= hn /\ Len(q) <= ln
    BY <1>1, <1>2, <1>3
  <2>14. h \in [0..(hn - 1) -> Int] /\ l \in [0..(ln - 1) -> Int]
    BY <1>2, <1>3
  <2> HIDE DEF h, l, c
  <2>15. Filing(hn, h, ln, l, bbox, q, c)
    BY <2>11, <2>12, <2>13, <2>14 DEF Filing
  <2>5. N <= hn /\ n <= ln
    BY <1>1, <1>2, <1>3
  <2>6. /\ Lists(h, l, bbox, q).head \in [0..(hn - 1) -> Int]
        /\ Lists(h, l, bbox, q).lscl \in [0..(ln - 1) -> Int]
        /\ Linked(Lists(h, l, bbox, q).head, Lists(h, l, bbox, q).lscl, c,
                  n, N)
    BY <2>15, ListsLinked
  <2>7. head' \in [0..(hn - 1) -> Int] /\ lscl' \in [0..(ln - 1) -> Int]
        /\ Linked(head', lscl', c, n, N)
    BY <2>1, <2>6
  <2>8. Filed(head', lscl', bbox, q)
    BY <2>5, <2>7 DEF Filed, c
  <2> QED
    BY <2>1, <2>7, <2>8 DEF Vector
<1>6. CASE ~InCells(h, q)
  <2>1. pc' = "aborted" /\ head' = head /\ lscl' = lscl
    BY <1>6 DEF MakeLists
  <2>2. PICK i \in 1..n : CellOf(bbox, q[i]) \notin 0..(hn - 1)
    BY <1>1, <1>4, <1>6 DEF InCells
  <2>3. \A x : x \in 0..(N - 1) => x \in 0..(hn - 1)
    BY <1>1, <1>2
  <2> QED
    BY <2>1, <2>2, <2>3
<1> QED
  BY <1>5, <1>6

(* The lists of the cells hold the elements filed in them, each once.      *)
LEMMA FiledLists ==
    ASSUME NEW q, q \in Seq(Pos), Filed(head, lscl, bbox, q),
           NCells(bbox) \in Nat, NEW k \in 0..(NCells(bbox) - 1)
    PROVE  /\ ListOf(k) \in Seq(0..(Len(q) - 1))
           /\ IsInjective(ListOf(k))
           /\ \A i : Contains(ListOf(k), i) <=>
                        i \in 0..(Len(q) - 1) /\ CellOf(bbox, q[i + 1]) = k
<1> DEFINE n == Len(q)
           N == NCells(bbox)
           c == CellsOf(bbox, q)
<1>1. PICK ln \in Nat : /\ lscl \in [0..(ln - 1) -> Int]
                        /\ n <= ln
                        /\ Linked(head, lscl, c, n, N)
  BY DEF Filed
<1>2. n \in Nat /\ N \in Nat /\ k \in 0..(N - 1)
  OBVIOUS
<1>3. \A i \in 0..(n - 1) : c[i] = CellOf(bbox, q[i + 1])
  BY DEF CellsOf
<1> HIDE DEF n, N, c
<1>4. /\ ListOf(k) \in Seq(0..(n - 1))
      /\ IsInjective(ListOf(k))
      /\ \A i : Contains(ListOf(k), i) <=> i \in 0..(n - 1) /\ c[i] = k
  <2>1. Held(ln, c, n, N)
    BY <1>1 DEF Held
  <2> QED
    BY <1>2, <2>1, ListIs
<1>5. \A i : Contains(ListOf(k), i) <=>
                i \in 0..(n - 1) /\ CellOf(bbox, q[i + 1]) = k
  BY <1>3, <1>4
<1> QED
  BY <1>4, <1>5 DEF n

(* All the lists, one after the other.                                     *)
LEMMA ListedIs ==
    ASSUME NEW q, q \in Seq(Pos), Filed(head, lscl, bbox, q),
           NCells(bbox) \in Nat
    PROVE  /\ Listed \in Seq(0..(Len(q) - 1))
           /\ IsInjective(Listed)
<1> DEFINE N == NCells(bbox)
           T == 0..(Len(q) - 1)
           ss == [c \in 1..N |-> ListOf(c - 1)]
<1>1. N \in Nat
  OBVIOUS
<1>2. ASSUME NEW c \in 1..N
      PROVE  /\ ss[c] \in Seq(T)
             /\ IsInjective(ss[c])
             /\ \A i : Contains(ss[c], i) =>
                          CellOf(bbox, q[i + 1]) = c - 1
  <2>1. c - 1 \in 0..(NCells(bbox) - 1)
    BY <1>1
  <2> DEFINE k == c - 1
  <2> HIDE DEF k
  <2>2. k \in 0..(NCells(bbox) - 1)
    BY <2>1 DEF k
  <2>3. /\ ListOf(k) \in Seq(T)
        /\ IsInjective(ListOf(k))
        /\ \A i : Contains(ListOf(k), i) => CellOf(bbox, q[i + 1]) = k
    BY <2>2, FiledLists
  <2>4. ss[c] = ListOf(k)
    BY DEF k
  <2> QED
    BY <2>3, <2>4 DEF k
<1>3. Listed = FlattenSeq(ss)
  BY DEF Listed
<1>4. ss \in [1..N -> Seq(T)]
  <2>1. \A c \in 1..N : ss[c] \in Seq(T)
    BY <1>2
  <2> HIDE DEF N, T
  <2> QED
    BY <2>1
<1> HIDE DEF N, T, ss
<1>5. \A a \in 1..N : \A b \in 1..N : \A x :
          Contains(ss[a], x) /\ Contains(ss[b], x) => a = b
  <2> TAKE a \in 1..N
  <2> TAKE b \in 1..N
  <2> TAKE x
  <2> HAVE Contains(ss[a], x) /\ Contains(ss[b], x)
  <2>1. CellOf(bbox, q[x + 1]) = a - 1 /\ CellOf(bbox, q[x + 1]) = b - 1
    BY <1>2
  <2>2. a - 1 = b - 1
    BY <2>1
  <2> QED
    BY <1>1, <2>2
<1>6. IsInjective(FlattenSeq(ss))
  BY <1>1, <1>2, <1>4, <1>5, FlatInjective
<1>7. FlattenSeq(ss) \in Seq(T)
  BY <1>1, <1>4, FlatContains
<1> QED
  BY <1>3, <1>6, <1>7 DEF T

-----------------------------------------------------------------------------
(***************************************************************************)
(* The pairs.                                                              *)
(***************************************************************************)
LEMMA EnumIs ==
    ASSUME NEW S, IsFiniteSet(S)
    PROVE  SetToSeq(S) \in Seq(S) /\ IsInjective(SetToSeq(S))
<1> DEFINE n == Cardinality(S)
<1>1. n \in Nat /\ ExistsBijection(1..n, S)
  BY FS_CardinalityType
<1> HIDE DEF n
<1>2. PICK f \in Bijection(1..n, S) : TRUE
  BY <1>1 DEF ExistsBijection
<1>3. f \in [1..n -> S] /\ IsInjective(f)
  BY <1>2 DEF Bijection, Injection
<1>4. SetToSeq(S) \in [1..n -> S] /\ IsInjective(SetToSeq(S))
  <2>1. SetToSeq(S) = CHOOSE g \in [1..n -> S] : IsInjective(g)
    BY DEF SetToSeq, n
  <2> QED
    BY <1>3, <2>1
<1> QED
  BY <1>1, <1>4

LEMMA MeetInOnce ==
    ASSUME NEW n \in Nat, NEW i \in Nat, NEW list \in Seq(0..(n - 1)),
           IsInjective(list)
    PROVE  /\ MeetIn(i, list) \in Seq(Nat \X Nat)
           /\ IsInjective(MeetIn(i, list))
           /\ \A p : Contains(MeetIn(i, list), p) =>
                        p[1] = i /\ i < p[2] /\ Contains(list, p[2])
<1> DEFINE T == Nat \X Nat
           m == Len(list)
           part(j) == IF First(i, j) THEN << <<i, j>> >> ELSE <<>>
           ss == [k \in DOMAIN list |-> part(list[k])]
<1>1. m \in Nat /\ DOMAIN list = 1..m /\ list \in [1..m -> 0..(n - 1)]
  BY LenProperties
<1> HIDE DEF m
<1>2. ASSUME NEW j \in 0..(n - 1)
      PROVE  /\ part(j) \in Seq(T)
             /\ IsInjective(part(j))
             /\ \A p : Contains(part(j), p) => i < j /\ p = <<i, j>>
  <2>0. j \in Nat /\ <<i, j>> \in T
    OBVIOUS
  <2>1. CASE First(i, j)
    <3>1. part(j) = << <<i, j>> >>
      BY <2>1
    <3> DEFINE x == <<i, j>>
    <3> HIDE DEF x, T
    <3>2. << x >> \in Seq(T) /\ DOMAIN << x >> = 1..1 /\ << x >>[1] = x
      BY <2>0 DEF x
    <3>3. IsInjective(<< x >>)
      BY <3>2 DEF IsInjective
    <3>4. \A p : Contains(<< x >>, p) => p = x
      BY <3>2 DEF Contains
    <3>5. i < j
      BY <2>1 DEF First
    <3> QED
      BY <3>1, <3>2, <3>3, <3>4, <3>5 DEF x
  <2>2. CASE ~First(i, j)
    <3>1. part(j) = <<>>
      BY <2>2
    <3>2. <<>> \in Seq(T) /\ DOMAIN <<>> = {}
      OBVIOUS
    <3>3. IsInjective(<<>>)
      BY <3>2 DEF IsInjective
    <3>4. \A p : ~Contains(<<>>, p)
      BY <3>2, ContainsIn
    <3> HIDE DEF part
    <3> QED
      BY <3>1, <3>2, <3>3, <3>4
  <2> QED
    BY <2>1, <2>2
<1>3. MeetIn(i, list) = FlattenSeq(ss)
  BY DEF MeetIn
<1>4. \A k \in 1..m : ss[k] = part(list[k]) /\ list[k] \in 0..(n - 1)
  BY <1>1
<1> HIDE DEF T, part
<1>5. ss \in [1..m -> Seq(T)]
  BY <1>1, <1>2
<1> HIDE DEF ss
<1>6. \A k \in 1..m : IsInjective(ss[k])
  BY <1>2, <1>4
<1>7. \A k \in 1..m : \A p : Contains(ss[k], p) =>
          i < list[k] /\ p = <<i, list[k]>>
  BY <1>2, <1>4
<1>8. \A a \in 1..m : \A b \in 1..m : \A p :
          Contains(ss[a], p) /\ Contains(ss[b], p) => a = b
  <2> TAKE a \in 1..m
  <2> TAKE b \in 1..m
  <2> TAKE p
  <2> HAVE Contains(ss[a], p) /\ Contains(ss[b], p)
  <2>1. p = <<i, list[a]>> /\ p = <<i, list[b]>>
    BY <1>7
  <2>2. list[a] = list[b]
    BY <2>1
  <2> QED
    BY <1>1, <2>2 DEF IsInjective
<1>9. IsInjective(FlattenSeq(ss))
  BY <1>1, <1>5, <1>6, <1>8, FlatInjective
<1>10. /\ FlattenSeq(ss) \in Seq(T)
       /\ \A p : Contains(FlattenSeq(ss), p) <=>
                    \E k \in 1..m : Contains(ss[k], p)
  BY <1>1, <1>5, FlatContains
<1>11. ASSUME NEW p, Contains(FlattenSeq(ss), p)
       PROVE  p[1] = i /\ i < p[2] /\ Contains(list, p[2])
  <2>1. PICK k \in 1..m : Contains(ss[k], p)
    BY <1>10, <1>11
  <2>2. i < list[k] /\ p = <<i, list[k]>>
    BY <1>7, <2>1
  <2>3. p[1] = i /\ p[2] = list[k]
    BY <2>2
  <2> QED
    BY <1>1, <2>2, <2>3, ContainsIn
<1> QED
  BY <1>3, <1>9, <1>10, <1>11 DEF T

(* A particle meets another at most once, and with a higher number.        *)
LEMMA MeetOnce ==
    ASSUME NEW q, q \in Seq(Pos), Filed(head, lscl, bbox, q),
           Regular(bbox), NEW i \in Nat
    PROVE  /\ Meet(i) \in Seq(Nat \X Nat)
           /\ IsInjective(Meet(i))
           /\ \A p : Contains(Meet(i), p) => p[1] = i /\ i < p[2]
<1> DEFINE T == Nat \X Nat
           N == NCells(bbox)
           S == {Linear(bbox, xyz) :
                   xyz \in LookedAt(bbox, CellOf(bbox, At(els, i)))}
           cells == SetToSeq(S)
           ss == [k \in DOMAIN cells |-> MeetIn(i, ListOf(cells[k]))]
           m == Len(cells)
<1>1. N \in Nat
  BY CellsNat
<1>2. S \subseteq 0..(N - 1)
  <2> SUFFICES ASSUME NEW xyz \in
                        LookedAt(bbox, CellOf(bbox, At(els, i)))
               PROVE  Linear(bbox, xyz) \in 0..(N - 1)
    OBVIOUS
  <2>1. xyz \in Grid(bbox)
    BY DEF LookedAt
  <2>2. OnGrid(bbox, xyz)
    BY <2>1, GridIs
  <2> QED
    BY <2>2, LinearBelow
<1>3. Meet(i) = FlattenSeq(ss)
  BY DEF Meet
<1> HIDE DEF N, S
<1>4. IsFiniteSet(S)
  <2>1. 0 \in Int /\ N - 1 \in Int
    BY <1>1
  <2>2. IsFiniteSet(0..(N - 1))
    BY <2>1, FS_Interval
  <2> QED
    BY <1>2, <2>2, FS_Subset
<1>5. cells \in Seq(S) /\ IsInjective(cells)
  BY <1>4, EnumIs
<1>6. m \in Nat /\ DOMAIN cells = 1..m /\ cells \in [1..m -> S]
  BY <1>5, LenProperties
<1> HIDE DEF cells, m
<1>7. ASSUME NEW k \in 1..m
      PROVE  /\ ss[k] \in Seq(T)
             /\ IsInjective(ss[k])
             /\ \A p : Contains(ss[k], p) =>
                          /\ p[1] = i /\ i < p[2]
                          /\ CellOf(bbox, q[p[2] + 1]) = cells[k]
  <2> DEFINE c == cells[k]
             list == ListOf(c)
  <2>1. ss[k] = MeetIn(i, list)
    BY <1>6
  <2>2. c \in 0..(NCells(bbox) - 1) /\ NCells(bbox) \in Nat
    BY <1>1, <1>2, <1>6 DEF N
  <2> HIDE DEF c
  <2>3. /\ list \in Seq(0..(Len(q) - 1))
        /\ IsInjective(list)
        /\ \A j : Contains(list, j) => CellOf(bbox, q[j + 1]) = c
    BY <2>2, FiledLists
  <2>4. Len(q) \in Nat
    OBVIOUS
  <2> HIDE DEF list, ss
  <2>5. /\ MeetIn(i, list) \in Seq(T)
        /\ IsInjective(MeetIn(i, list))
        /\ \A p : Contains(MeetIn(i, list), p) =>
                     p[1] = i /\ i < p[2] /\ Contains(list, p[2])
    BY <2>3, <2>4, MeetInOnce
  <2> QED
    BY <2>1, <2>3, <2>5 DEF c
<1>8. ss \in [1..m -> Seq(T)]
  <2>1. \A k \in 1..m : ss[k] \in Seq(T)
    BY <1>7
  <2>2. DOMAIN ss = 1..m
    BY <1>6
  <2>3. ss = [k \in 1..m |-> ss[k]]
    BY <1>6
  <2> HIDE DEF T, ss
  <2> QED
    BY <2>1, <2>3
<1> HIDE DEF T, ss
<1>9. \A a \in 1..m : \A b \in 1..m : \A p :
          Contains(ss[a], p) /\ Contains(ss[b], p) => a = b
  <2> TAKE a \in 1..m
  <2> TAKE b \in 1..m
  <2> TAKE p
  <2> HAVE Contains(ss[a], p) /\ Contains(ss[b], p)
  <2>1. cells[a] = cells[b]
    BY <1>7
  <2> QED
    BY <1>5, <1>6, <2>1 DEF IsInjective
<1>10. IsInjective(FlattenSeq(ss))
  BY <1>6, <1>7, <1>8, <1>9, FlatInjective
<1>11. /\ FlattenSeq(ss) \in Seq(T)
       /\ \A p : Contains(FlattenSeq(ss), p) <=>
                    \E k \in 1..m : Contains(ss[k], p)
  BY <1>6, <1>8, FlatContains
<1>12. \A p : Contains(FlattenSeq(ss), p) => p[1] = i /\ i < p[2]
  BY <1>7, <1>11
<1> QED
  BY <1>3, <1>10, <1>11, <1>12 DEF T

(* CLL_compute_forces3d meets no pair twice.                               *)
LEMMA ForcesOnce ==
    ASSUME NEW q, q \in Seq(Pos), Filed(head, lscl, bbox, q),
           Regular(bbox), els \in Seq(Pos),
           NEW s, s = FlattenSeq([n \in DOMAIN els |-> Meet(n - 1)])
    PROVE  /\ IsInjective(s)
           /\ \A k \in DOMAIN s : \A m \in DOMAIN s :
                 s[k] # <<s[m][2], s[m][1]>>
<1> DEFINE T == Nat \X Nat
           n == Len(els)
           ss == [k \in DOMAIN els |-> Meet(k - 1)]
<1>1. n \in Nat /\ DOMAIN els = 1..n
  BY LenProperties
<1>2. s = FlattenSeq(ss)
  OBVIOUS
<1>3. ss = [k \in 1..n |-> Meet(k - 1)]
  BY <1>1
<1> HIDE DEF n, ss
<1>4. ASSUME NEW k \in 1..n
      PROVE  /\ ss[k] \in Seq(T)
             /\ IsInjective(ss[k])
             /\ \A p : Contains(ss[k], p) => p[1] = k - 1 /\ k - 1 < p[2]
  <2> DEFINE i == k - 1
  <2>1. i \in Nat
    BY <1>1
  <2>2. ss[k] = Meet(i)
    BY <1>3
  <2> HIDE DEF i
  <2>3. /\ Meet(i) \in Seq(T)
        /\ IsInjective(Meet(i))
        /\ \A p : Contains(Meet(i), p) => p[1] = i /\ i < p[2]
    BY <2>1, MeetOnce
  <2> QED
    BY <2>2, <2>3 DEF i
<1>5. ss \in [1..n -> Seq(T)]
  <2>1. \A k \in 1..n : ss[k] \in Seq(T)
    BY <1>4
  <2>2. ss = [k \in 1..n |-> ss[k]]
    BY <1>3
  <2> HIDE DEF T
  <2> QED
    BY <2>1, <2>2
<1> HIDE DEF T
<1>6. \A a \in 1..n : \A b \in 1..n : \A p :
          Contains(ss[a], p) /\ Contains(ss[b], p) => a = b
  <2> TAKE a \in 1..n
  <2> TAKE b \in 1..n
  <2> TAKE p
  <2> HAVE Contains(ss[a], p) /\ Contains(ss[b], p)
  <2>1. p[1] = a - 1 /\ p[1] = b - 1
    BY <1>4
  <2>2. a - 1 = b - 1
    BY <2>1
  <2> QED
    BY <1>1, <2>2
<1>7. IsInjective(s)
  <2>1. IsInjective(FlattenSeq(ss))
    BY <1>1, <1>4, <1>5, <1>6, FlatInjective
  <2> QED
    BY <1>2, <2>1
<1>8. /\ s \in Seq(T)
      /\ \A p : Contains(s, p) <=> \E k \in 1..n : Contains(ss[k], p)
  <2>1. /\ FlattenSeq(ss) \in Seq(T)
        /\ \A p : Contains(FlattenSeq(ss), p) <=>
                     \E k \in 1..n : Contains(ss[k], p)
    BY <1>1, <1>5, FlatContains
  <2> QED
    BY <1>2, <2>1
<1>9. ASSUME NEW k \in DOMAIN s
      PROVE  s[k][1] < s[k][2] /\ s[k] \in T
  <2>1. Contains(s, s[k])
    BY <1>8, ContainsIn
  <2>2. PICK a \in 1..n : Contains(ss[a], s[k])
    BY <1>8, <2>1
  <2>3. s[k][1] = a - 1 /\ a - 1 < s[k][2]
    BY <1>4, <2>2
  <2>4. s[k] \in T
    BY <1>8, LenProperties
  <2> QED
    BY <2>3, <2>4
<1>10. ASSUME NEW k \in DOMAIN s, NEW m \in DOMAIN s,
              s[k] = <<s[m][2], s[m][1]>>
       PROVE  FALSE
  <2> DEFINE p == s[k]
             r == s[m]
  <2>1. p[1] < p[2] /\ r[1] < r[2] /\ p \in T /\ r \in T
        /\ p = <<r[2], r[1]>>
    BY <1>9, <1>10
  <2> HIDE DEF p, r
  <2>2. p[1] = r[2] /\ p[2] = r[1]
    BY <2>1
  <2>3. r[1] \in Nat /\ r[2] \in Nat
    BY <2>1 DEF T
  <2> QED
    BY <2>1, <2>2, <2>3
<1> QED
  BY <1>7, <1>10

-----------------------------------------------------------------------------
(***************************************************************************)
(* The copies.                                                             *)
(***************************************************************************)
(* The entries of the border cells and the lists behind them; c is the     *)
(* cell of a particle.                                                     *)
Bordering(n, N, c) ==
    /\ borders \in Seq([cell: 0..(N - 1), pes: SUBSET Rank])
    /\ \A k \in 1..Len(borders) : \A m \in 1..Len(borders) :
          borders[k].cell = borders[m].cell => k = m
    /\ \A k \in 1..Len(borders) :
          /\ ListOf(borders[k].cell) \in Seq(0..(n - 1))
          /\ IsInjective(ListOf(borders[k].cell))
          /\ \A i : Contains(ListOf(borders[k].cell), i) <=>
                       i \in 0..(n - 1) /\ c[i] = borders[k].cell

Selected(r) == FlattenSeq([k \in DOMAIN borders |->
                             IF r \in Receivers(k)
                             THEN ListOf(borders[k].cell) ELSE <<>>])

LEMMA SelectedOnce ==
    ASSUME NEW n \in Nat, NEW N \in Nat, NEW c, Bordering(n, N, c),
           NEW r, NEW s, s = Selected(r)
    PROVE  /\ IsInjective(s)
           /\ \A x : (\E k \in DOMAIN s : s[k] = x) <=>
                        /\ x \in 0..(n - 1) /\ r # Me
                        /\ \E k \in DOMAIN borders :
                              r \in borders[k].pes /\ c[x] = borders[k].cell
<1> DEFINE T == 0..(n - 1)
           nb == Len(borders)
           ss == [k \in DOMAIN borders |->
                    IF r \in Receivers(k)
                    THEN ListOf(borders[k].cell) ELSE <<>>]
<1>0. /\ borders \in Seq([cell: 0..(N - 1), pes: SUBSET Rank])
      /\ \A k \in 1..nb : \A m \in 1..nb :
            borders[k].cell = borders[m].cell => k = m
      /\ \A k \in 1..nb :
            /\ ListOf(borders[k].cell) \in Seq(T)
            /\ IsInjective(ListOf(borders[k].cell))
            /\ \A i : Contains(ListOf(borders[k].cell), i) <=>
                         i \in T /\ c[i] = borders[k].cell
  BY DEF Bordering
<1>1. nb \in Nat /\ DOMAIN borders = 1..nb
  BY <1>0, LenProperties
<1> HIDE DEF nb
<1>2. ASSUME NEW k \in 1..nb
      PROVE  /\ ss[k] \in Seq(T)
             /\ IsInjective(ss[k])
             /\ \A i : Contains(ss[k], i) <=>
                          /\ r # Me /\ r \in borders[k].pes
                          /\ i \in T /\ c[i] = borders[k].cell
  <2> DEFINE list == ListOf(borders[k].cell)
  <2>1. /\ list \in Seq(T) /\ IsInjective(list)
        /\ \A i : Contains(list, i) <=> i \in T /\ c[i] = borders[k].cell
    BY <1>0
  <2>2. ss[k] = IF r \in Receivers(k) THEN list ELSE <<>>
    BY <1>1
  <2>3. r \in Receivers(k) <=> r # Me /\ r \in borders[k].pes
    BY DEF Receivers
  <2>4. <<>> \in Seq(T) /\ IsInjective(<<>>) /\ \A i : ~Contains(<<>>, i)
    BY DEF IsInjective, Contains
  <2> HIDE DEF list, ss, T
  <2> QED
    BY <2>1, <2>2, <2>3, <2>4
<1>3. s = FlattenSeq(ss)
  BY DEF Selected
<1>4. ss \in [1..nb -> Seq(T)]
  <2>1. \A k \in 1..nb : ss[k] \in Seq(T)
    BY <1>2
  <2>2. ss = [k \in 1..nb |-> ss[k]]
    BY <1>1
  <2> HIDE DEF T, ss
  <2> QED
    BY <2>1, <2>2
<1> HIDE DEF T, ss
<1>5. \A a \in 1..nb : \A b \in 1..nb : \A x :
          Contains(ss[a], x) /\ Contains(ss[b], x) => a = b
  <2> TAKE a \in 1..nb
  <2> TAKE b \in 1..nb
  <2> TAKE x
  <2> HAVE Contains(ss[a], x) /\ Contains(ss[b], x)
  <2>1. c[x] = borders[a].cell
    BY <1>2
  <2>2. c[x] = borders[b].cell
    BY <1>2
  <2> QED
    BY <1>0, <2>1, <2>2
<1>6. IsInjective(s)
  <2>1. IsInjective(FlattenSeq(ss))
    BY <1>1, <1>2, <1>4, <1>5, FlatInjective
  <2> QED
    BY <1>3, <2>1
<1>7. /\ s \in Seq(T)
      /\ \A x : Contains(s, x) <=> \E k \in 1..nb : Contains(ss[k], x)
  <2>1. /\ FlattenSeq(ss) \in Seq(T)
        /\ \A x : Contains(FlattenSeq(ss), x) <=>
                     \E k \in 1..nb : Contains(ss[k], x)
    BY <1>1, <1>4, FlatContains
  <2> QED
    BY <1>3, <2>1
<1>8. \A x : (\E k \in DOMAIN s : s[k] = x) <=>
                 \E k \in 1..nb : Contains(ss[k], x)
  BY <1>7, ContainsIn, Zenon
<1>9. \A x : (\E k \in DOMAIN s : s[k] = x) <=>
                 /\ x \in T /\ r # Me
                 /\ \E k \in DOMAIN borders :
                       r \in borders[k].pes /\ c[x] = borders[k].cell
  <2> SUFFICES ASSUME NEW x
               PROVE  (\E k \in 1..nb : Contains(ss[k], x)) <=>
                         /\ x \in T /\ r # Me
                         /\ \E k \in DOMAIN borders :
                               /\ r \in borders[k].pes
                               /\ c[x] = borders[k].cell
    BY <1>8, Zenon
  <2>1. (\E k \in 1..nb : Contains(ss[k], x)) <=>
           /\ x \in T /\ r # Me
           /\ \E k \in 1..nb :
                 r \in borders[k].pes /\ c[x] = borders[k].cell
    BY <1>2, Zenon
  <2>2. DOMAIN borders = 1..nb
    BY <1>1, Zenon
  <2> QED
    BY <2>1, <2>2, Zenon
<1>10. ASSUME NEW x PROVE x \in T <=> x \in 0..(n - 1)
  BY DEF T
<1> HIDE DEF T
<1> QED
  BY <1>6, <1>9, <1>10, Zenon

-----------------------------------------------------------------------------
(***************************************************************************)
(* The inductive invariant.  head and lscl may be of any length and hold   *)
(* anything; between two calls of CLL_init the elements it was given are   *)
(* filed, all of the rank's among them.                                    *)
(***************************************************************************)
Elements == /\ els \in BoundedSeq(Pos, MaxEls) \ {<<>>}
            /\ ghosts \in BoundedSeq(Pos, MaxGhosts)

Vectors == Vector(head) /\ Vector(lscl)

Boxed == pc # "borders" => bbox = BoundingBox(els)

Bordered == pc \in {"lists", "select", "receive"} =>
                borders = BorderCells(bbox)

FiledOwn == pc = "select" /\ ~Alone => Filed(head, lscl, bbox, els)

(* The positions read by the second call: the particles come first.        *)
Reads(q) == /\ q \in Seq(Pos) /\ Len(q) = Len(els) + Len(ghosts)
            /\ \A i \in 1..Len(els) : q[i] = els[i]

FiledAll == pc = "forces" =>
                \E q : Reads(q) /\ Filed(head, lscl, bbox, q)

Outnumbered == pc = "aborted" => Len(ghosts) > Len(els)

Inv == Elements /\ Vectors /\ Boxed /\ Bordered /\ FiledOwn /\ FiledAll
       /\ Outnumbered /\ CopiedOnce /\ PairsOnce

LEMMA ElsIs ==
    ASSUME Elements
    PROVE  /\ els \in Seq(Pos) /\ els # <<>> /\ ghosts \in Seq(Pos)
           /\ Len(els) \in Nat /\ Len(ghosts) \in Nat
           /\ DOMAIN els = 1..Len(els) /\ DOMAIN ghosts = 1..Len(ghosts)
<1>1. els \in BoundedSeq(Pos, MaxEls) /\ els # <<>>
      /\ ghosts \in BoundedSeq(Pos, MaxGhosts)
  BY DEF Elements
<1>2. els \in Seq(Pos) /\ ghosts \in Seq(Pos)
  BY <1>1, InBounded, BoundAssumption
<1> QED
  BY <1>1, <1>2, LenProperties

LEMMA BoxOfEls ==
    ASSUME Elements, bbox = BoundingBox(els)
    PROVE  /\ Regular(bbox) /\ NCells(bbox) \in Nat
           /\ \A i \in 1..Len(els) :
                 CellOf(bbox, els[i]) \in 0..(NCells(bbox) - 1)
  BY ElsIs, BoxRegular, CellsNat, CellsOfEls

LEMMA InitInv == Init => Inv
<1> SUFFICES ASSUME Init PROVE Inv
  OBVIOUS
<1>1. /\ els \in BoundedSeq(Pos, MaxEls) \ {<<>>} /\ ghosts = <<>>
      /\ bbox = BoundingBox(els) /\ pc = "borders" /\ head = <<>>
      /\ lscl = [i \in Below(els) |-> 0]
  BY DEF Init
<1>2. Elements
  <2>1. <<>> \in [1..0 -> Pos] /\ 0 \in 0..MaxGhosts
    BY BoundAssumption
  <2>2. <<>> \in BoundedSeq(Pos, MaxGhosts)
    BY <2>1 DEF BoundedSeq, SeqOf
  <2> QED
    BY <1>1, <2>2 DEF Elements
<1>3. Vectors
  <2>1. head \in [0..(0 - 1) -> Int]
    BY <1>1
  <2>2. lscl \in [0..(Len(els) - 1) -> Int]
    BY <1>1 DEF Below
  <2>3. Len(els) \in Nat
    BY <1>2, ElsIs
  <2> QED
    BY <2>1, <2>2, <2>3 DEF Vectors, Vector
<1>4. /\ Boxed /\ Bordered /\ FiledOwn /\ FiledAll /\ Outnumbered
      /\ CopiedOnce /\ PairsOnce
  BY <1>1 DEF Boxed, Bordered, FiledOwn, FiledAll, Outnumbered, CopiedOnce,
              PairsOnce
<1> QED
  BY <1>2, <1>3, <1>4 DEF Inv

(* The particles' lists, after get_ghost_data's call of CLL_init.          *)
LEMMA LocalsFiled ==
    ASSUME Inv, ListLocals
    PROVE  Vectors' /\ pc' = "select"
           /\ (~Alone => Filed(head', lscl', bbox, els))
<1>1. Elements /\ Vectors /\ bbox = BoundingBox(els) /\ pc = "lists"
  BY DEF Inv, Boxed, ListLocals
<1>2. Regular(bbox) /\ els \in Seq(Pos) /\ Vector(head) /\ Vector(lscl)
  BY <1>1, BoxOfEls, ElsIs DEF Vectors
<1>3. CASE Alone
  BY <1>1, <1>3 DEF ListLocals, Vectors, Vector
<1>4. CASE ~Alone
  <2>1. MakeLists(els, "select")
    BY <1>4 DEF ListLocals
  <2> DEFINE q == els
             next == "select"
  <2>2. q \in Seq(Pos) /\ MakeLists(q, next) /\ next # "aborted"
    BY <1>2, <2>1
  <2>3. \A i \in 1..Len(q) :
            CellOf(bbox, q[i]) \in 0..(NCells(bbox) - 1)
    BY <1>1, BoxOfEls
  <2> HIDE DEF q, next
  <2>4. /\ Vector(head') /\ Vector(lscl')
        /\ pc' \in {next, "aborted"}
        /\ pc' # "aborted" => Filed(head', lscl', bbox, q)
        /\ pc' = "aborted" =>
              \E i \in 1..Len(q) :
                  CellOf(bbox, q[i]) \notin 0..(NCells(bbox) - 1)
    BY <1>2, <2>2, MadeLists
  <2>5. pc' # "aborted"
    BY <2>3, <2>4
  <2> QED
    BY <2>2, <2>4, <2>5 DEF q, next, Vectors, Vector
<1> QED
  BY <1>3, <1>4

(* The lists of all, after compute_one_step's.                             *)
LEMMA ReadsIs ==
    ASSUME Elements, NEW junk \in [(DOMAIN ghosts) \ (DOMAIN els) -> Pos]
    PROVE  /\ Reads(PositionsRead(junk))
           /\ Len(ghosts) <= Len(els) =>
                 \A i \in 1..Len(PositionsRead(junk)) :
                    \E j \in 1..Len(els) : PositionsRead(junk)[i] = els[j]
<1> DEFINE n == Len(els)
           m == Len(ghosts)
           t == [g \in DOMAIN ghosts |->
                   IF g \in DOMAIN els THEN els[g] ELSE junk[g]]
           q == PositionsRead(junk)
<1>1. /\ els \in Seq(Pos) /\ n \in Nat /\ m \in Nat
      /\ DOMAIN els = 1..n /\ DOMAIN ghosts = 1..m
  BY ElsIs
<1>2. q = els \o t
  BY DEF PositionsRead
<1>3. \A g \in 1..m : t[g] \in Pos /\ (g \in 1..n => t[g] = els[g])
  <2>1. \A g \in 1..n : els[g] \in Pos
    BY <1>1
  <2>2. \A g \in 1..m : g \notin 1..n => junk[g] \in Pos
    BY <1>1
  <2> QED
    BY <1>1, <2>1, <2>2
<1>4. t \in Seq(Pos) /\ Len(t) = m
  <2>1. t \in [1..m -> Pos]
    BY <1>1, <1>3
  <2> HIDE DEF t, m
  <2> QED
    BY <1>1, <2>1
<1> HIDE DEF n, m, t, q
<1>5. /\ q \in Seq(Pos) /\ Len(q) = n + m
      /\ \A i \in 1..(n + m) : q[i] = IF i <= n THEN els[i] ELSE t[i - n]
  <2>1. /\ els \o t \in Seq(Pos) /\ Len(els \o t) = Len(els) + Len(t)
        /\ \A i \in 1..(Len(els) + Len(t)) : (els \o t)[i] =
              IF i <= Len(els) THEN els[i] ELSE t[i - Len(els)]
    BY <1>1, <1>4, ConcatProperties
  <2> QED
    BY <1>2, <1>4, <2>1 DEF n
<1>6. \A i \in 1..n : q[i] = els[i]
  BY <1>1, <1>5
<1>7. ASSUME m <= n, NEW i \in 1..(n + m)
      PROVE  \E j \in 1..n : q[i] = els[j]
  <2>1. CASE i <= n
    <3>1. i \in 1..n
      BY <1>1, <2>1
    <3> QED
      BY <1>6, <3>1
  <2>2. CASE ~(i <= n)
    <3>1. i - n \in 1..m /\ i - n \in 1..n
      BY <1>1, <1>7, <2>2
    <3>2. q[i] = t[i - n]
      BY <1>5, <2>2
    <3> QED
      BY <1>3, <3>1, <3>2
  <2> QED
    BY <2>1, <2>2
<1> QED
  BY <1>5, <1>6, <1>7 DEF Reads, n, m, q

LEMMA AllFiled ==
    ASSUME Inv, ListAll
    PROVE  /\ Vectors' /\ pc' \in {"forces", "aborted"}
           /\ pc' = "forces" =>
                 \E q : Reads(q) /\ Filed(head', lscl', bbox, q)
           /\ pc' = "aborted" => Len(ghosts) > Len(els)
<1>1. Elements /\ Vectors /\ bbox = BoundingBox(els) /\ pc = "relist"
  BY DEF Inv, Boxed, ListAll
<1>2. /\ Regular(bbox) /\ Vector(head) /\ Vector(lscl)
      /\ Len(els) \in Nat /\ Len(ghosts) \in Nat
      /\ \A i \in 1..Len(els) :
            CellOf(bbox, els[i]) \in 0..(NCells(bbox) - 1)
  BY <1>1, BoxOfEls, ElsIs DEF Vectors
<1>3. PICK junk \in [(DOMAIN ghosts) \ (DOMAIN els) -> Pos] :
          MakeLists(PositionsRead(junk), "forces")
  BY DEF ListAll
<1> DEFINE q == PositionsRead(junk)
           next == "forces"
<1>4. /\ Reads(q)
      /\ Len(ghosts) <= Len(els) =>
            \A i \in 1..Len(q) : \E j \in 1..Len(els) : q[i] = els[j]
  BY <1>1, ReadsIs
<1>5. q \in Seq(Pos) /\ MakeLists(q, next) /\ next # "aborted"
  BY <1>3, <1>4 DEF Reads
<1>6. next = "forces"
  OBVIOUS
<1> HIDE DEF q, next
<1>7. /\ Vector(head') /\ Vector(lscl')
      /\ pc' \in {next, "aborted"}
      /\ pc' # "aborted" => Filed(head', lscl', bbox, q)
      /\ pc' = "aborted" =>
            \E i \in 1..Len(q) :
                CellOf(bbox, q[i]) \notin 0..(NCells(bbox) - 1)
  BY <1>2, <1>5, MadeLists
<1>8. pc' = "aborted" => Len(ghosts) > Len(els)
  <2> SUFFICES ASSUME pc' = "aborted", ~(Len(ghosts) > Len(els))
               PROVE  FALSE
    OBVIOUS
  <2>1. PICK i \in 1..Len(q) :
            CellOf(bbox, q[i]) \notin 0..(NCells(bbox) - 1)
    BY <1>7
  <2>2. Len(ghosts) <= Len(els)
    BY <1>2
  <2>3. PICK j \in 1..Len(els) : q[i] = els[j]
    BY <1>4, <2>2
  <2> QED
    BY <1>2, <2>1, <2>3
<1>9. Vectors'
  BY <1>7 DEF Vectors, Vector
<1> QED
  BY <1>4, <1>6, <1>7, <1>8, <1>9

(* The copies, after exchange_data.                                        *)
LEMMA CopiesMade ==
    ASSUME Inv, SelectGhosts
    PROVE  CopiedOnce'
<1> DEFINE n == Len(els)
           N == NCells(bbox)
           c == CellsOf(bbox, els)
<1>1. /\ Elements /\ bbox = BoundingBox(els)
      /\ borders = BorderCells(bbox) /\ pc = "select"
      /\ ~Alone => Filed(head, lscl, bbox, els)
  BY DEF Inv, Boxed, Bordered, FiledOwn, SelectGhosts
<1>2. /\ els \in Seq(Pos) /\ n \in Nat /\ N \in Nat
      /\ els \in BoundedSeq(Pos, MaxEls) \ {<<>>}
  BY <1>1, ElsIs, BoxOfEls DEF Elements
<1>3. /\ borders' = borders /\ bbox' = bbox /\ els' = els
      /\ sent' = [r \in Rank |->
                   FlattenSeq([k \in DOMAIN borders |->
                     IF r \in Receivers(k)
                     THEN ListOf(borders[k].cell) ELSE <<>>])]
  BY DEF SelectGhosts
<1>4. Bordering(n, N, c)
  <2>1. CASE Alone
    <3>1. borders = <<>>
      BY <1>1, <2>1 DEF BorderCells
    <3> QED
      BY <3>1 DEF Bordering
  <2>2. CASE ~Alone
    <3>1. /\ borders \in Seq([cell: 0..(N - 1), pes: SUBSET Rank])
          /\ \A k \in 1..Len(borders) : \A m \in 1..Len(borders) :
                borders[k].cell = borders[m].cell => k = m
      <4>1. ShellEntries(bbox, BorderCells(bbox))
        BY <1>1, <1>2, <2>2, BordersAre
      <4>2. ShellEntries(bbox, borders)
        BY <1>1, <4>1
      <4> QED
        BY <4>2 DEF ShellEntries
    <3>2. ASSUME NEW k \in 1..Len(borders)
          PROVE  /\ ListOf(borders[k].cell) \in Seq(0..(n - 1))
                 /\ IsInjective(ListOf(borders[k].cell))
                 /\ \A i : Contains(ListOf(borders[k].cell), i) <=>
                           i \in 0..(n - 1) /\ c[i] = borders[k].cell
      <4> DEFINE x == borders[k].cell
      <4>1. x \in 0..(N - 1)
        <5> DEFINE T == [cell: 0..(N - 1), pes: SUBSET Rank]
        <5>1. borders \in Seq(T)
          BY <3>1
        <5> HIDE DEF T, N
        <5>2. borders[k] \in T
          BY <5>1, LenProperties
        <5> QED
          BY <5>2 DEF T
      <4> HIDE DEF x
      <4>2. /\ ListOf(x) \in Seq(0..(n - 1))
            /\ IsInjective(ListOf(x))
            /\ \A i : Contains(ListOf(x), i) <=>
                  i \in 0..(n - 1) /\ CellOf(bbox, els[i + 1]) = x
        BY <1>1, <1>2, <2>2, <4>1, FiledLists
      <4>3. \A i \in 0..(n - 1) : c[i] = CellOf(bbox, els[i + 1])
        BY DEF CellsOf
      <4>4. \A i : Contains(ListOf(x), i) <=> i \in 0..(n - 1) /\ c[i] = x
        BY <4>2, <4>3
      <4> QED
        BY <4>2, <4>4 DEF x
    <3> QED
      BY <3>1, <3>2 DEF Bordering
  <2> QED
    BY <2>1, <2>2
<1>5. \A i \in 0..(n - 1) : c[i] = CellOf(bbox, At(els, i))
  BY DEF CellsOf, At
<1> HIDE DEF c
<1>6. ASSUME NEW r \in Rank
      PROVE  LET near == {borders[k].cell : k \in
                            {m \in DOMAIN borders : r \in borders[m].pes}}
             IN /\ IsInjective(sent'[r])
                /\ {sent'[r][k] : k \in DOMAIN sent'[r]}
                      = {i \in Below(els) :
                           r # Me /\ CellOf(bbox, At(els, i)) \in near}
  <2> DEFINE s == sent'[r]
             near == {borders[k].cell : k \in
                        {m \in DOMAIN borders : r \in borders[m].pes}}
  <2>1. s = Selected(r)
    BY <1>3 DEF Selected
  <2> HIDE DEF s, n, N
  <2>2. /\ IsInjective(s)
        /\ \A x : (\E k \in DOMAIN s : s[k] = x) <=>
                     /\ x \in 0..(n - 1) /\ r # Me
                     /\ \E k \in DOMAIN borders :
                           r \in borders[k].pes /\ c[x] = borders[k].cell
    BY <1>2, <1>4, <2>1, SelectedOnce
  <2>3. \A y : y \in near <=>
            \E k \in DOMAIN borders :
                r \in borders[k].pes /\ y = borders[k].cell
    OBVIOUS
  <2> HIDE DEF near
  <2>4. \A x : (\E k \in DOMAIN s : s[k] = x) <=>
                   x \in 0..(n - 1) /\ r # Me /\ c[x] \in near
    BY <2>2, <2>3
  <2>5. Below(els) = 0..(n - 1)
    BY DEF Below, n
  <2>6. \A x : x \in {s[k] : k \in DOMAIN s} <=>
            x \in {i \in Below(els) :
                     r # Me /\ CellOf(bbox, At(els, i)) \in near}
    BY <1>5, <2>4, <2>5
  <2>7. {s[k] : k \in DOMAIN s} =
            {i \in Below(els) :
               r # Me /\ CellOf(bbox, At(els, i)) \in near}
    BY <2>6
  <2> QED
    BY <2>2, <2>7 DEF s, near
<1>7. \A r \in Rank :
          LET near == {borders'[k].cell : k \in
                         {m \in DOMAIN borders' : r \in borders'[m].pes}}
          IN /\ IsInjective(sent'[r])
             /\ {sent'[r][k] : k \in DOMAIN sent'[r]}
                   = {i \in Below(els') :
                        r # Me /\ CellOf(bbox', At(els', i)) \in near}
  BY <1>3, <1>6
<1> QED
  BY <1>7 DEF CopiedOnce

(* The pairs, after CLL_compute_forces3d.                                  *)
LEMMA PairsMade ==
    ASSUME Inv, ComputeForces
    PROVE  PairsOnce'
<1>1. /\ Elements /\ bbox = BoundingBox(els) /\ pc = "forces"
      /\ \E q : Reads(q) /\ Filed(head, lscl, bbox, q)
  BY DEF Inv, Boxed, FiledAll, ComputeForces
<1>2. PICK q : q \in Seq(Pos) /\ Filed(head, lscl, bbox, q)
  BY <1>1 DEF Reads
<1>3. Regular(bbox) /\ els \in Seq(Pos)
  BY <1>1, ElsIs, BoxOfEls
<1> DEFINE s == met'
<1>4. s = FlattenSeq([n \in DOMAIN els |-> Meet(n - 1)])
  BY DEF ComputeForces
<1> HIDE DEF s
<1>5. /\ IsInjective(s)
      /\ \A k \in DOMAIN s : \A m \in DOMAIN s :
            s[k] # <<s[m][2], s[m][1]>>
  BY <1>2, <1>3, <1>4, ForcesOnce
<1>6. /\ IsInjective(met')
      /\ \A k, m \in DOMAIN met' : met'[k] # <<met'[m][2], met'[m][1]>>
  BY <1>5 DEF s
<1> QED
  BY <1>6 DEF PairsOnce

LEMMA NextInv == Inv /\ [Next]_vars => Inv'
<1> SUFFICES ASSUME Inv, [Next]_vars PROVE Inv'
  OBVIOUS
<1>0. Elements /\ Vectors /\ Boxed /\ Bordered /\ Outnumbered
      /\ FiledOwn /\ FiledAll /\ CopiedOnce /\ PairsOnce
  BY DEF Inv
<1>1. CASE FindBorders
  <2>1. /\ pc = "borders" /\ pc' = "lists"
        /\ bbox' = BoundingBox(els) /\ borders' = BorderCells(bbox')
        /\ els' = els /\ ghosts' = ghosts /\ head' = head /\ lscl' = lscl
    BY <1>1 DEF FindBorders
  <2>2. Elements'
    BY <1>0, <2>1 DEF Elements
  <2>3. Vectors'
    BY <1>0, <2>1 DEF Vectors, Vector
  <2>4. Boxed' /\ Bordered'
    BY <2>1 DEF Boxed, Bordered
  <2>5. FiledOwn' /\ FiledAll' /\ Outnumbered' /\ CopiedOnce' /\ PairsOnce'
    BY <2>1 DEF FiledOwn, FiledAll, Outnumbered, CopiedOnce, PairsOnce
  <2> QED
    BY <2>2, <2>3, <2>4, <2>5 DEF Inv
<1>2. CASE ListLocals
  <2>1. /\ Vectors' /\ pc' = "select"
        /\ ~Alone => Filed(head', lscl', bbox, els)
    BY <1>2, LocalsFiled
  <2>2. /\ pc = "lists" /\ els' = els /\ ghosts' = ghosts
        /\ bbox' = bbox /\ borders' = borders
    BY <1>2 DEF ListLocals
  <2>3. Elements'
    BY <1>0, <2>2 DEF Elements
  <2>4. Boxed' /\ Bordered'
    BY <1>0, <2>1, <2>2 DEF Boxed, Bordered
  <2>5. FiledOwn'
    BY <2>1, <2>2 DEF FiledOwn, Alone
  <2>6. FiledAll' /\ Outnumbered' /\ CopiedOnce' /\ PairsOnce'
    BY <2>1 DEF FiledAll, Outnumbered, CopiedOnce, PairsOnce
  <2> QED
    BY <2>1, <2>3, <2>4, <2>5, <2>6 DEF Inv
<1>3. CASE SelectGhosts
  <2>1. CopiedOnce'
    BY <1>3, CopiesMade
  <2>2. /\ pc = "select" /\ pc' = "receive"
        /\ els' = els /\ ghosts' = ghosts /\ bbox' = bbox
        /\ borders' = borders /\ head' = head /\ lscl' = lscl
    BY <1>3 DEF SelectGhosts
  <2>3. Elements'
    BY <1>0, <2>2 DEF Elements
  <2>4. Vectors'
    BY <1>0, <2>2 DEF Vectors, Vector
  <2>5. Boxed' /\ Bordered'
    BY <1>0, <2>2 DEF Boxed, Bordered
  <2>6. FiledOwn' /\ FiledAll' /\ Outnumbered' /\ PairsOnce'
    BY <2>2 DEF FiledOwn, FiledAll, Outnumbered, PairsOnce
  <2> QED
    BY <2>1, <2>3, <2>4, <2>5, <2>6 DEF Inv
<1>4. CASE ReceiveGhosts
  <2>1. /\ pc = "receive" /\ pc' = "relist" /\ els' = els
        /\ bbox' = bbox /\ head' = head /\ lscl' = lscl
        /\ ghosts' \in IF Alone THEN {<<>>} ELSE BoundedSeq(Pos, MaxGhosts)
    BY <1>4 DEF ReceiveGhosts
  <2>2. Elements'
    <3>1. <<>> \in [1..0 -> Pos] /\ 0 \in 0..MaxGhosts
      BY BoundAssumption
    <3>2. <<>> \in BoundedSeq(Pos, MaxGhosts)
      BY <3>1 DEF BoundedSeq, SeqOf
    <3>3. ghosts' \in BoundedSeq(Pos, MaxGhosts)
      BY <2>1, <3>2
    <3> QED
      BY <1>0, <2>1, <3>3 DEF Elements
  <2>3. Vectors'
    BY <1>0, <2>1 DEF Vectors, Vector
  <2>4. Boxed'
    BY <1>0, <2>1 DEF Boxed
  <2>5. Bordered' /\ FiledOwn' /\ FiledAll' /\ Outnumbered' /\ CopiedOnce'
        /\ PairsOnce'
    BY <2>1 DEF Bordered, FiledOwn, FiledAll, Outnumbered, CopiedOnce,
                PairsOnce
  <2> QED
    BY <2>2, <2>3, <2>4, <2>5 DEF Inv
<1>5. CASE ListAll
  <2>1. /\ Vectors' /\ pc' \in {"forces", "aborted"}
        /\ pc' = "forces" =>
              \E q : Reads(q) /\ Filed(head', lscl', bbox, q)
        /\ pc' = "aborted" => Len(ghosts) > Len(els)
    BY <1>5, AllFiled
  <2>2. /\ pc = "relist" /\ els' = els /\ ghosts' = ghosts /\ bbox' = bbox
    BY <1>5 DEF ListAll
  <2>3. Elements'
    BY <1>0, <2>2 DEF Elements
  <2>4. Boxed'
    BY <1>0, <2>2 DEF Boxed
  <2>5. FiledAll'
    BY <2>1, <2>2 DEF FiledAll, Reads
  <2>6. Outnumbered'
    BY <2>1, <2>2 DEF Outnumbered
  <2>7. Bordered' /\ FiledOwn' /\ CopiedOnce' /\ PairsOnce'
    BY <2>1 DEF Bordered, FiledOwn, CopiedOnce, PairsOnce
  <2> QED
    BY <2>1, <2>3, <2>4, <2>5, <2>6, <2>7 DEF Inv
<1>6. CASE ComputeForces
  <2>1. PairsOnce'
    BY <1>6, PairsMade
  <2>2. /\ pc = "forces" /\ pc' = "move" /\ els' = els /\ ghosts' = ghosts
        /\ bbox' = bbox /\ head' = head /\ lscl' = lscl
    BY <1>6 DEF ComputeForces
  <2>3. Elements'
    BY <1>0, <2>2 DEF Elements
  <2>4. Vectors'
    BY <1>0, <2>2 DEF Vectors, Vector
  <2>5. Boxed'
    BY <1>0, <2>2 DEF Boxed
  <2>6. Bordered' /\ FiledOwn' /\ FiledAll' /\ Outnumbered' /\ CopiedOnce'
    BY <2>2 DEF Bordered, FiledOwn, FiledAll, Outnumbered, CopiedOnce
  <2> QED
    BY <2>1, <2>3, <2>4, <2>5, <2>6 DEF Inv
<1>7. CASE Move
  <2>1. /\ pc' = "borders" /\ els' \in BoundedSeq(Pos, MaxEls) \ {<<>>}
        /\ ghosts' = <<>> /\ head' = head /\ lscl' = lscl
    BY <1>7 DEF Move
  <2>2. Elements'
    <3>1. <<>> \in [1..0 -> Pos] /\ 0 \in 0..MaxGhosts
      BY BoundAssumption
    <3>2. <<>> \in BoundedSeq(Pos, MaxGhosts)
      BY <3>1 DEF BoundedSeq, SeqOf
    <3> QED
      BY <2>1, <3>2 DEF Elements
  <2>3. Vectors'
    BY <1>0, <2>1 DEF Vectors, Vector
  <2>4. Boxed' /\ Bordered' /\ FiledOwn' /\ FiledAll' /\ Outnumbered'
        /\ CopiedOnce' /\ PairsOnce'
    BY <2>1 DEF Boxed, Bordered, FiledOwn, FiledAll, Outnumbered, CopiedOnce,
                PairsOnce
  <2> QED
    BY <2>2, <2>3, <2>4 DEF Inv
<1>8. CASE UNCHANGED vars
  <2>1. /\ pc' = pc /\ els' = els /\ ghosts' = ghosts /\ bbox' = bbox
        /\ borders' = borders /\ head' = head /\ lscl' = lscl
        /\ sent' = sent /\ met' = met
    BY <1>8 DEF vars
  <2>2. Elements' /\ Vectors' /\ Boxed' /\ Bordered' /\ Outnumbered'
    BY <1>0, <2>1 DEF Elements, Vectors, Vector, Boxed, Bordered, Outnumbered
  <2>3. FiledOwn' /\ FiledAll'
    BY <1>0, <2>1 DEF FiledOwn, FiledAll, Reads, Alone
  <2>4. CopiedOnce'
    BY <1>0, <2>1 DEF CopiedOnce
  <2>5. PairsOnce'
    BY <1>0, <2>1 DEF PairsOnce
  <2> QED
    BY <2>2, <2>3, <2>4, <2>5 DEF Inv
<1>9. Stopped => UNCHANGED vars
  BY DEF Stopped
<1> QED
  BY <1>1, <1>2, <1>3, <1>4, <1>5, <1>6, <1>7, <1>8, <1>9 DEF Next

LEMMA InvAlways == Spec => []Inv
BY InitInv, NextInv, PTL DEF Spec

-----------------------------------------------------------------------------
(***************************************************************************)
(* The theorems.                                                           *)
(***************************************************************************)
(* CLL_init, on vectors of any length full of what earlier calls left,     *)
(* puts every particle of the rank in the list of its cell and in no       *)
(* other, and nothing twice; at() throws only when ghosts outnumber the    *)
(* particles.                                                              *)
THEOREM EveryParticleListed == Spec => []ListsPartition
<1>1. Inv => ListsPartition
  <2> SUFFICES ASSUME Inv PROVE ListsPartition
    OBVIOUS
  <2>0. pc = "aborted" => Len(ghosts) > Len(els)
    BY DEF Inv, Outnumbered
  <2>1. ASSUME pc \in (IF Alone THEN {"forces"} ELSE {"select", "forces"})
        PROVE  LET all == Listed
                   n == Len(els) + (IF pc = "select" THEN 0 ELSE Len(ghosts))
               IN /\ IsInjective(all)
                  /\ \A k \in DOMAIN all : all[k] < n
                  /\ \A i \in Below(els) :
                        Contains(ListOf(CellOf(bbox, At(els, i))), i)
    <3> DEFINE n == Len(els) + (IF pc = "select" THEN 0 ELSE Len(ghosts))
    <3>1. Elements /\ bbox = BoundingBox(els)
      BY <2>1 DEF Inv, Boxed
    <3>2. /\ els \in Seq(Pos) /\ Len(els) \in Nat /\ Len(ghosts) \in Nat
          /\ NCells(bbox) \in Nat
          /\ \A i \in 1..Len(els) :
                CellOf(bbox, els[i]) \in 0..(NCells(bbox) - 1)
      BY <3>1, ElsIs, BoxOfEls
    <3>3. PICK q : /\ q \in Seq(Pos) /\ Filed(head, lscl, bbox, q)
                   /\ Len(q) = n /\ Len(els) <= n
                   /\ \A i \in 1..Len(els) : q[i] = els[i]
      <4>1. CASE pc = "select" /\ ~Alone
        <5>1. Filed(head, lscl, bbox, els)
          BY <4>1 DEF Inv, FiledOwn
        <5>2. n = Len(els)
          BY <3>2, <4>1
        <5> QED
          BY <3>2, <5>1, <5>2
      <4>2. CASE pc = "forces"
        <5>1. PICK q : Reads(q) /\ Filed(head, lscl, bbox, q)
          BY <4>2 DEF Inv, FiledAll
        <5>2. n = Len(els) + Len(ghosts)
          BY <4>2
        <5>3. Len(els) <= n
          BY <3>2, <5>2
        <5> QED
          BY <5>1, <5>2, <5>3 DEF Reads
      <4> QED
        BY <2>1, <4>1, <4>2
    <3> HIDE DEF n
    <3>4. Listed \in Seq(0..(n - 1)) /\ IsInjective(Listed)
      BY <3>2, <3>3, ListedIs
    <3>5. \A k \in DOMAIN Listed : Listed[k] < n
      <4>1. \A k \in DOMAIN Listed : Listed[k] \in 0..(n - 1)
        BY <3>4, LenProperties
      <4>2. n \in Int
        BY <3>3, LenProperties
      <4> QED
        BY <4>1, <4>2
    <3>6. ASSUME NEW i \in Below(els)
          PROVE  Contains(ListOf(CellOf(bbox, At(els, i))), i)
      <4> DEFINE k == CellOf(bbox, At(els, i))
      <4>1. i \in 0..(Len(q) - 1) /\ i + 1 \in 1..Len(els)
        BY <3>2, <3>3 DEF Below
      <4>2. k \in 0..(NCells(bbox) - 1) /\ CellOf(bbox, q[i + 1]) = k
        BY <3>2, <3>3, <4>1 DEF At
      <4> HIDE DEF k
      <4>3. Contains(ListOf(k), i)
        BY <3>2, <3>3, <4>1, <4>2, FiledLists
      <4> QED
        BY <4>3 DEF k
    <3> QED
      BY <3>4, <3>5, <3>6 DEF n
  <2> QED
    BY <2>0, <2>1 DEF ListsPartition
<1> QED
  BY <1>1, InvAlways, PTL

(* get_border_cells_index records every outer cell of the box once and no  *)
(* other, and exactly as many as it has reserved, whatever the box.        *)
THEOREM BordersExact == Spec => []BordersAreShell
<1>1. Inv => BordersAreShell
  <2> SUFFICES ASSUME Inv, pc = "lists", ~Alone
               PROVE  LET cells == [k \in DOMAIN borders |-> borders[k].cell]
                      IN /\ Len(cells) = Reserved(bbox)
                         /\ IsInjective(cells)
                         /\ {cells[k] : k \in DOMAIN cells}
                              = {Linear(bbox, xyz) : xyz \in Shell(bbox)}
    BY DEF BordersAreShell
  <2>1. /\ els \in BoundedSeq(Pos, MaxEls) \ {<<>>}
        /\ bbox = BoundingBox(els) /\ borders = BorderCells(bbox)
    BY DEF Inv, Elements, Boxed, Bordered
  <2> DEFINE nb == Len(borders)
             cells == [k \in DOMAIN borders |-> borders[k].cell]
  <2>2. /\ borders \in Seq([cell: 0..(NCells(bbox) - 1), pes: SUBSET Rank])
        /\ nb = Reserved(bbox)
        /\ \A k \in 1..nb : \A m \in 1..nb :
              borders[k].cell = borders[m].cell => k = m
        /\ \A c : (\E k \in 1..nb : borders[k].cell = c)
                  <=> \E t \in Shell(bbox) : c = Linear(bbox, t)
    <3>1. ShellEntries(bbox, BorderCells(bbox))
      BY <2>1, BordersAre
    <3>2. ShellEntries(bbox, borders)
      BY <2>1, <3>1
    <3> QED
      BY <3>2 DEF ShellEntries
  <2>3. nb \in Nat /\ DOMAIN borders = 1..nb
    BY <2>2, LenProperties
  <2> HIDE DEF nb
  <2>4. /\ DOMAIN cells = 1..nb
        /\ \A k \in 1..nb : cells[k] = borders[k].cell
    BY <2>3
  <2>5. Len(cells) = nb
    <3>1. cells = [k \in 1..nb |-> borders[k].cell]
      BY <2>3
    <3> QED
      BY <2>3, <3>1
  <2> HIDE DEF cells
  <2>6. IsInjective(cells)
    BY <2>2, <2>4 DEF IsInjective
  <2>7. \A c : c \in {cells[k] : k \in DOMAIN cells} <=>
               c \in {Linear(bbox, xyz) : xyz \in Shell(bbox)}
    <3>1. \A c : c \in {cells[k] : k \in DOMAIN cells} <=>
                 \E k \in 1..nb : borders[k].cell = c
      BY <2>4
    <3>2. \A c : c \in {Linear(bbox, xyz) : xyz \in Shell(bbox)} <=>
                 \E t \in Shell(bbox) : c = Linear(bbox, t)
      OBVIOUS
    <3> QED
      BY <2>2, <3>1, <3>2
  <2>8. {cells[k] : k \in DOMAIN cells}
            = {Linear(bbox, xyz) : xyz \in Shell(bbox)}
    BY <2>7
  <2> QED
    BY <2>2, <2>5, <2>6, <2>8 DEF cells
<1> QED
  BY <1>1, InvAlways, PTL

(* exchange_data copies to each other rank exactly the particles of the    *)
(* cells bordering on it, each once, and none to the rank itself.          *)
THEOREM GhostsCopiedOnce == Spec => []CopiedOnce
<1>1. Inv => CopiedOnce
  BY DEF Inv
<1> QED
  BY <1>1, InvAlways, PTL

(* CLL_compute_forces3d adds the force of no pair of particles twice, and  *)
(* of none on itself.                                                      *)
THEOREM NoPairTwice == Spec => []PairsOnce
<1>1. Inv => PairsOnce
  BY DEF Inv
<1> QED
  BY <1>1, InvAlways, PTL
=============================================================================
