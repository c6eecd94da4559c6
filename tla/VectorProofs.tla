---------------------------- MODULE VectorProofs ----------------------------
(***************************************************************************)
(* The vectors of ParticleVectors for any number of ranks, particles and   *)
(* iterations and all four ways in which particles change hands: an index  *)
(* that was noted still is the index of its element when it is used, no    *)
(* particle is lost or doubled by swapping, marking, packing and appending,*)
(* and out of a collective that looks at every element a rank has exactly  *)
(* what is its own.                                                        *)
(***************************************************************************)
EXTENDS ParticleVectors, FiniteSetTheorems, SequenceTheorems, TLAPS

Element == Particle \cup {Marked}
Modes == {"balance", "migrate", "invert", "cells"}
Stages == {"ready", "moved", "extract", "drop", "pack", "post", "receive",
           "compact"}

-----------------------------------------------------------------------------
(***************************************************************************)
(* The inductive invariant.                                                *)
(***************************************************************************)
Types ==
    /\ els \in [Rank -> Seq(Element)]
    /\ home \in [Particle -> Rank]
    /\ todo \in [Rank -> SUBSET [gid : Particle, lid : Nat]]
    /\ buf \in [Rank -> [Rank -> Seq(Particle)]]
    /\ counts \in [Rank -> [Rank -> Nat]]
    /\ wire \in SUBSET [from : Rank, to : Rank, data : Seq(Particle)]
    /\ due \in [Rank -> Nat]
    /\ i \in [Rank -> Nat \ {0}]
    /\ mode \in [Rank -> Modes]
    /\ pc \in [Rank -> Stages]
    /\ iter \in [Rank -> Nat]

(* All are in the same collective.  Nobody computes while one is in it; the*)
(* counts of migrate_data and the inversion of the lists keep those behind *)
(* who have posted.                                                        *)
Together ==
    \A r, s \in Rank :
        /\ mode[r] = mode[s]
        /\ pc[r] = "moved" => pc[s] \in {"ready", "moved"}
        /\ pc[r] = "extract" =>
              /\ mode[r] # "balance"
              /\ pc[s] \in {"extract", IF mode[r] = "migrate" THEN "post"
                                                              ELSE "drop"}
        /\ pc[r] = "drop" => /\ mode[r] \in {"invert", "cells"}
                             /\ pc[s] \in {"extract", "drop"}
        /\ pc[r] \in {"pack", "compact"} => mode[r] = "balance"

Paced ==
    \A r, s \in Rank :
        /\ pc[r] = "moved" /\ pc[s] = "ready" => iter[r] = iter[s] + 1
        /\ (pc[r] = "moved" <=> pc[s] = "moved") => iter[r] = iter[s]

(* What a rank's own loops have dealt with is its own: Marked only between *)
(* packing and compacting, and what left is still to be found only where   *)
(* it is still to be looked at, or where not every element is.             *)
Contents ==
    \A r \in Rank : \A k \in DOMAIN els[r] :
        /\ els[r][k] = Marked =>
              /\ mode[r] = "balance"
              /\ pc[r] \in {"pack", "post", "receive", "compact"}
              /\ pc[r] = "compact" => i[r] <= k
        /\ els[r][k] # Marked /\ home[els[r][k]] # r =>
              \/ pc[r] = "moved"
              \/ mode[r] = "cells"
              \/ pc[r] = "extract" /\ i[r] <= k
              \/ pc[r] \in {"drop", "pack"} /\ \E x \in todo[r] : x.lid = k

Tasks ==
    \A r \in Rank : \A x \in todo[r] :
        /\ x.lid \in DOMAIN els[r] /\ els[r][x.lid] = x.gid
        /\ home[x.gid] # r
        /\ pc[r] \in {"drop", "pack"}

Buffers ==
    \A r, d \in Rank : buf[r][d] # <<>> =>
        /\ pc[r] \in {"extract", "drop", "pack", "post"}
        /\ pc[r] = "extract" => mode[r] # "cells"
        /\ d # r
        /\ \A k \in DOMAIN buf[r][d] : home[buf[r][d][k]] = d

Wires ==
    \A m \in wire :
        /\ pc[m.from] \in {"receive", "compact", "ready"}
        /\ pc[m.to] \in {"pack", "post", "receive"}
        /\ m.data # <<>>
        /\ \A k \in DOMAIN m.data : home[m.data[k]] = m.to
        /\ \A n \in wire : n.from = m.from /\ n.to = m.to => n = m

(* A positive count announces elements that are packed or to be packed.    *)
Announced ==
    \A s, d \in Rank : pc[s] \in {"pack", "post"} =>
        (counts[s][d] > 0 <=> \/ buf[s][d] # <<>>
                              \/ \E x \in todo[s] : home[x.gid] = d)

(* Rank s still owes d a message in this collective.                       *)
Sent(s, d) == \E m \in wire : m.from = s /\ m.to = d
Owes(s, d) ==
    Sent(s, d) \/ (pc[s] \in {"pack", "post"} /\ counts[s][d] > 0)

(* What a rank waits for is what it is owed.                               *)
Books ==
    \A d \in Rank :
        /\ pc[d] \in {"pack", "post"} =>
              \A s \in Rank : pc[s] # "extract" =>
                  (counts[s][d] > 0 <=> Owes(s, d))
        /\ pc[d] = "receive" => due[d] = Cardinality({s \in Rank : Owes(s, d)})
        /\ pc[d] \in {"compact", "ready"} => \A s \in Rank : ~Owes(s, d)

(* A particle is in one vector, buffer or message, and once there.         *)
Alone(q, ks) == \A k, l \in ks : q[k] = q[l] /\ q[k] # Marked => k = l

Distinct ==
    /\ \A r \in Rank : Alone(els[r], Standing(r))
    /\ \A r, d \in Rank : Alone(buf[r][d], DOMAIN buf[r][d])
    /\ \A m \in wire : Alone(m.data, DOMAIN m.data)

InVector(p, r) == \E k \in Standing(r) : els[r][k] = p
InBuffer(p, r) == \E d \in Rank : p \in ToSet(buf[r][d])
InMessage(p, m) == p \in ToSet(m.data)

Apart ==
    \A p \in Particle :
        /\ \A r, s \in Rank : InVector(p, r) /\ InVector(p, s) => r = s
        /\ \A r, s \in Rank : InBuffer(p, r) /\ InBuffer(p, s) => r = s
        /\ \A m, n \in wire : InMessage(p, m) /\ InMessage(p, n) => m = n
        /\ \A r, s \in Rank : ~(InVector(p, r) /\ InBuffer(p, s))
        /\ \A r \in Rank, m \in wire : ~(InVector(p, r) /\ InMessage(p, m))
        /\ \A r \in Rank, m \in wire : ~(InBuffer(p, r) /\ InMessage(p, m))

Somewhere ==
    \A p \in Particle : \/ \E r \in Rank : InVector(p, r) \/ InBuffer(p, r)
                        \/ \E m \in wire : InMessage(p, m)

VInv == /\ Types /\ Together /\ Paced /\ Contents /\ Tasks /\ Buffers /\ Wires
        /\ Announced /\ Books /\ Distinct /\ Apart /\ Somewhere

-----------------------------------------------------------------------------
(***************************************************************************)
(* What the operations do to a vector.                                     *)
(***************************************************************************)
LEMMA SwapOutIs ==
    ASSUME NEW S, NEW q \in Seq(S), NEW k \in 1..Len(q)
    PROVE  LET out == SwapOut(q, k) IN
           /\ out \in Seq(S)
           /\ Len(out) = Len(q) - 1
           /\ DOMAIN out = 1..(Len(q) - 1)
           /\ \A l \in 1..(Len(q) - 1) :
                 out[l] = IF l = k THEN q[Len(q)] ELSE q[l]
<1> DEFINE n == Len(q)
           s == [q EXCEPT ![k] = q[n]]
<1>1. /\ n \in Nat /\ n >= 1 /\ k \in 1..n /\ q[n] \in S
      /\ DOMAIN q = 1..n
  BY LenProperties
<1>2. /\ s \in Seq(S) /\ Len(s) = n
      /\ \A l \in 1..n : s[l] = IF l = k THEN q[n] ELSE q[l]
  BY <1>1, ExceptSeq
<1>3. SwapOut(q, k) = SubSeq(s, 1, n - 1)
  BY <1>2 DEF SwapOut, Front, Last
<1> HIDE DEF s, n
<1>4. \A l \in 1..(n - 1) : s[l] \in S
  <2>1. \A l \in 1..(n - 1) : l \in 1..n
    BY <1>1
  <2> QED
    BY <1>2, <2>1, ElementOfSeq
<1>5. /\ SubSeq(s, 1, n - 1) \in Seq(S)
      /\ Len(SubSeq(s, 1, n - 1)) = n - 1
      /\ \A l \in 1..(n - 1) : SubSeq(s, 1, n - 1)[l] = s[l]
  <2>1. 1 \in Int /\ n - 1 \in Int /\ (n - 1) - 1 + 1 = n - 1
    BY <1>1
  <2>2. /\ SubSeq(s, 1, n - 1) \in Seq(S)
        /\ Len(SubSeq(s, 1, n - 1)) = IF 1 <= n - 1 THEN n - 1 - 1 + 1 ELSE 0
        /\ \A l \in 1..(n - 1 - 1 + 1) : SubSeq(s, 1, n - 1)[l] = s[1 + l - 1]
    BY <1>4, <2>1, SubSeqProperties
  <2>3. Len(SubSeq(s, 1, n - 1)) = n - 1
    BY <1>1, <2>2
  <2>4. \A l \in 1..(n - 1) : 1 + l - 1 = l
    BY <1>1
  <2> QED
    BY <2>1, <2>2, <2>3, <2>4
<1>6. DOMAIN SubSeq(s, 1, n - 1) = 1..(n - 1)
  BY <1>5, LenProperties
<1>7. \A l \in 1..(n - 1) :
          SubSeq(s, 1, n - 1)[l] = IF l = k THEN q[n] ELSE q[l]
  <2>1. \A l \in 1..(n - 1) : l \in 1..n
    BY <1>1
  <2> QED
    BY <1>2, <1>5, <2>1
<1> QED
  BY <1>3, <1>5, <1>6, <1>7 DEF n

(* Only the element at k is gone, and no other has been doubled.           *)
LEMMA SwapOutHolds ==
    ASSUME NEW q \in Seq(Element), NEW k \in 1..Len(q),
           Alone(q, DOMAIN q)
    PROVE  LET out == SwapOut(q, k) IN
           /\ \A x \in Particle :
                 x \in ToSet(out) <=> x \in ToSet(q) /\ x # q[k]
           /\ Alone(out, DOMAIN out)
<1> DEFINE n == Len(q)
           out == SwapOut(q, k)
<1>1. /\ n \in Nat /\ n >= 1 /\ k \in 1..n /\ DOMAIN q = 1..n
  BY LenProperties
<1>2. /\ DOMAIN out = 1..(n - 1)
      /\ \A l \in 1..(n - 1) : out[l] = IF l = k THEN q[n] ELSE q[l]
  BY SwapOutIs
<1> HIDE DEF out, n
<1>3. \A j, l \in 1..n : q[j] = q[l] /\ q[j] # Marked => j = l
  BY <1>1 DEF Alone
<1>4. \A x \in Particle : x # Marked
  BY MarkedAssumption
<1>5. ASSUME NEW x \in Particle, x \in ToSet(out)
      PROVE  x \in ToSet(q) /\ x # q[k]
  <2>1. PICK l \in 1..(n - 1) : out[l] = x
    BY <1>2, <1>5 DEF ToSet
  <2>2. CASE l = k
    <3>1. q[n] = x /\ n # k /\ n \in 1..n
      BY <1>1, <1>2, <2>1, <2>2
    <3> QED
      BY <1>1, <1>3, <1>4, <3>1 DEF ToSet
  <2>3. CASE l # k
    <3>1. q[l] = x /\ l \in 1..n
      BY <1>1, <1>2, <2>1, <2>3
    <3> QED
      BY <1>1, <1>3, <1>4, <2>3, <3>1 DEF ToSet
  <2> QED
    BY <2>2, <2>3
<1>6. ASSUME NEW x \in Particle, x \in ToSet(q), x # q[k]
      PROVE  x \in ToSet(out)
  <2>1. PICK l \in 1..n : q[l] = x
    BY <1>1, <1>6 DEF ToSet
  <2>2. CASE l = n
    <3>1. k \in 1..(n - 1) /\ out[k] = x
      BY <1>1, <1>2, <1>6, <2>1, <2>2
    <3> QED
      BY <1>2, <3>1 DEF ToSet
  <2>3. CASE l # n
    <3>1. l \in 1..(n - 1) /\ l # k
      BY <1>1, <1>6, <2>1, <2>3
    <3>2. out[l] = x
      BY <1>2, <2>1, <3>1
    <3> QED
      BY <1>2, <3>1, <3>2 DEF ToSet
  <2> QED
    BY <2>2, <2>3
<1>7. Alone(out, DOMAIN out)
  <2> SUFFICES ASSUME NEW j \in 1..(n - 1), NEW l \in 1..(n - 1),
                      out[j] = out[l], out[j] # Marked
               PROVE  j = l
    BY <1>2 DEF Alone
  <2>1. j \in 1..n /\ l \in 1..n /\ n \in 1..n /\ j # n /\ l # n
    BY <1>1
  <2> QED
    BY <1>2, <1>3, <2>1
<1> QED
  BY <1>5, <1>6, <1>7 DEF out

LEMMA AppendHolds ==
    ASSUME NEW q \in Seq(Particle), NEW p \in Particle, p \notin ToSet(q),
           Alone(q, DOMAIN q)
    PROVE  LET out == Append(q, p) IN
           /\ out \in Seq(Particle) /\ out # <<>>
           /\ \A x : x \in ToSet(out) <=> x \in ToSet(q) \/ x = p
           /\ Alone(out, DOMAIN out)
<1> DEFINE n == Len(q)
           out == Append(q, p)
<1>1. n \in Nat /\ DOMAIN q = 1..n
  BY LenProperties
<1>2. /\ out \in Seq(Particle) /\ out # <<>> /\ Len(out) = n + 1
      /\ \A l \in 1..n : out[l] = q[l]
      /\ out[n + 1] = p
  BY AppendProperties
<1> HIDE DEF out, n
<1>3. DOMAIN out = 1..(n + 1)
  BY <1>2, LenProperties
<1>4. \A l \in 1..(n + 1) : l \in 1..n \/ l = n + 1
  BY <1>1
<1>4a. n + 1 \in 1..(n + 1) /\ \A l \in 1..n : l \in 1..(n + 1)
  BY <1>1
<1>5. \A x : x \in ToSet(out) <=> x \in ToSet(q) \/ x = p
  BY <1>1, <1>2, <1>3, <1>4, <1>4a DEF ToSet
<1>6. \A l \in 1..n : q[l] # p
  BY <1>1 DEF ToSet
<1>7. Alone(out, DOMAIN out)
  <2> SUFFICES ASSUME NEW j \in 1..(n + 1), NEW l \in 1..(n + 1),
                      out[j] = out[l], out[j] # Marked
               PROVE  j = l
    BY <1>3 DEF Alone
  <2> QED
    BY <1>1, <1>2, <1>4, <1>6 DEF Alone
<1> QED
  BY <1>2, <1>5, <1>7 DEF out

LEMMA ConcatHolds ==
    ASSUME NEW q \in Seq(Element), NEW d \in Seq(Particle),
           Alone(q, DOMAIN q), Alone(d, DOMAIN d),
           \A x \in Particle : ~(x \in ToSet(q) /\ x \in ToSet(d))
    PROVE  LET out == q \o d IN
           /\ out \in Seq(Element)
           /\ \A k \in DOMAIN out :
                 \/ k \in DOMAIN q /\ out[k] = q[k]
                 \/ \E l \in DOMAIN d : out[k] = d[l]
           /\ \A x : x \in ToSet(out) <=> x \in ToSet(q) \/ x \in ToSet(d)
           /\ Alone(out, DOMAIN out)
<1> DEFINE n == Len(q)
           m == Len(d)
           out == q \o d
<1>1. /\ n \in Nat /\ DOMAIN q = 1..n /\ m \in Nat /\ DOMAIN d = 1..m
      /\ d \in Seq(Element)
  BY LenProperties, SeqMonotonic DEF Element
<1>2. /\ out \in Seq(Element) /\ Len(out) = n + m
      /\ \A l \in 1..(n + m) : out[l] = IF l <= n THEN q[l] ELSE d[l - n]
  BY <1>1, ConcatProperties
<1> HIDE DEF out, n, m
<1>3. DOMAIN out = 1..(n + m)
  BY <1>2, LenProperties
<1>4. \A l \in 1..(n + m) : \/ l <= n /\ l \in 1..n
                            \/ ~(l <= n) /\ l - n \in 1..m
  BY <1>1
<1>5. /\ \A l \in 1..n : l \in 1..(n + m) /\ l <= n
      /\ \A l \in 1..m : /\ n + l \in 1..(n + m) /\ ~(n + l <= n)
                         /\ (n + l) - n = l
  BY <1>1
<1>6. \A k \in DOMAIN out : \/ k \in DOMAIN q /\ out[k] = q[k]
                            \/ \E l \in DOMAIN d : out[k] = d[l]
  BY <1>1, <1>2, <1>3, <1>4
<1>7. /\ \A l \in 1..n : out[l] = q[l]
      /\ \A l \in 1..m : out[n + l] = d[l]
  BY <1>2, <1>5
<1>8. ASSUME NEW x
      PROVE  x \in ToSet(out) <=> x \in ToSet(q) \/ x \in ToSet(d)
  <2>1. x \in ToSet(out) => x \in ToSet(q) \/ x \in ToSet(d)
    BY <1>6 DEF ToSet
  <2>2. ASSUME x \in ToSet(q) PROVE x \in ToSet(out)
    <3>1. PICK l \in 1..n : x = q[l]
      BY <1>1, <2>2 DEF ToSet, n
    <3>2. l \in 1..(n + m) /\ out[l] = x
      BY <1>5, <1>7, <3>1
    <3> QED
      BY <1>3, <3>2 DEF ToSet
  <2>3. ASSUME x \in ToSet(d) PROVE x \in ToSet(out)
    <3>1. PICK l \in 1..m : x = d[l]
      BY <1>1, <2>3 DEF ToSet, m
    <3>2. n + l \in 1..(n + m) /\ out[n + l] = x
      BY <1>5, <1>7, <3>1
    <3> QED
      BY <1>3, <3>2 DEF ToSet
  <2> QED
    BY <2>1, <2>2, <2>3
<1>9. \A j \in 1..n, l \in 1..m : q[j] # d[l]
  <2> SUFFICES ASSUME NEW j \in 1..n, NEW l \in 1..m, q[j] = d[l] PROVE FALSE
    OBVIOUS
  <2>1. d[l] \in Particle
    BY <1>1, ElementOfSeq DEF m
  <2> QED
    BY <1>1, <2>1 DEF ToSet
<1>10. ASSUME NEW j \in 1..(n + m), NEW l \in 1..(n + m),
              out[j] = out[l], out[j] # Marked
       PROVE  j = l
  <2>1. CASE j <= n /\ l <= n
    BY <1>1, <1>2, <1>4, <1>10, <2>1 DEF Alone
  <2>2. CASE ~(j <= n) /\ ~(l <= n)
    <3>1. j - n \in 1..m /\ l - n \in 1..m /\ d[j - n] = d[l - n]
          /\ d[j - n] # Marked
      BY <1>2, <1>4, <1>10, <2>2
    <3>2. j - n = l - n
      BY <1>1, <3>1 DEF Alone
    <3> QED
      BY <1>1, <3>2
  <2>3. CASE j <= n /\ ~(l <= n)
    BY <1>2, <1>4, <1>9, <1>10, <2>3
  <2>4. CASE ~(j <= n) /\ l <= n
    BY <1>2, <1>4, <1>9, <1>10, <2>4
  <2> QED
    BY <2>1, <2>2, <2>3, <2>4
<1> QED
  BY <1>2, <1>3, <1>6, <1>8, <1>10 DEF out, Alone

(* The particles of a set, in any order.                                   *)
LEMMA InOrder ==
    ASSUME NEW S, IsFiniteSet(S), NEW f \in SetToSeqs(S)
    PROVE  /\ f \in Seq(S) /\ ToSet(f) = S
           /\ Alone(f, DOMAIN f)
<1> DEFINE D == 1..Cardinality(S)
<1>1. Cardinality(S) \in Nat
  BY FS_CardinalityType
<1>2. f \in [D -> S] /\ \A k, l \in D : k # l => f[k] # f[l]
  BY DEF SetToSeqs
<1>3. Cardinality(D) = Cardinality(S)
  <2>1. 1 \in Int /\ Cardinality(S) \in Int
    BY <1>1
  <2>2. Cardinality(D) = IF 1 > Cardinality(S) THEN 0
                         ELSE Cardinality(S) - 1 + 1
    BY <2>1, FS_Interval
  <2> QED
    BY <1>1, <2>2
<1> HIDE DEF D
<1>4. f \in Injection(D, S)
  BY <1>2 DEF Injection, IsInjective
<1>5. f \in Surjection(D, S)
  BY <1>3, <1>4, FS_Injection
<1>6. ToSet(f) = S
  BY <1>2, <1>5 DEF Surjection, ToSet
<1> QED
  BY <1>1, <1>2, <1>6 DEF Alone, D

-----------------------------------------------------------------------------
(***************************************************************************)
(* Zoltan cuts, at the beginning and later.                                *)
(***************************************************************************)
LEMMA NoMarks == \A p \in Particle : p # Marked
BY MarkedAssumption

LEMMA OneCut ==
    ASSUME NEW e \in [Rank -> Seq(Particle)], NEW h \in [Particle -> Rank]
    PROVE  LET cut == Partitioned(e, h) IN
           /\ cut.todo \in [Rank -> SUBSET [gid : Particle, lid : Nat]]
           /\ cut.counts \in [Rank -> [Rank -> Nat]]
           /\ \A r \in Rank : \A x \in cut.todo[r] :
                 /\ x.lid \in DOMAIN e[r] /\ e[r][x.lid] = x.gid
                 /\ h[x.gid] # r
           /\ \A r \in Rank : \A k \in DOMAIN e[r] :
                 h[e[r][k]] # r => \E x \in cut.todo[r] : x.lid = k
           /\ \A s, d \in Rank : cut.counts[s][d] > 0 <=>
                 \E x \in cut.todo[s] : h[x.gid] = d
           /\ \/ cut.pc = [r \in Rank |-> "pack"]
              \/ /\ cut.pc = [r \in Rank |-> "ready"]
                 /\ \A r \in Rank : cut.todo[r] = {}
<1> DEFINE todos == [r \in Rank |-> Exports(e[r], h, r)]
           announced ==
               [r \in Rank |-> [d \in Rank |-> ExportsTo(e[r], h, r, d)]]
           moves == \E r \in Rank : todos[r] # {}
<1>1. /\ Partitioned(e, h).todo = todos
      /\ Partitioned(e, h).counts = announced
      /\ Partitioned(e, h).pc = [r \in Rank |-> IF moves THEN "pack"
                                                ELSE "ready"]
  BY DEF Partitioned
<1>2. \A r \in Rank : /\ DOMAIN e[r] = 1..Len(e[r]) /\ Len(e[r]) \in Nat
                      /\ \A k \in DOMAIN e[r] : e[r][k] \in Particle
                                                /\ k \in Nat
  BY LenProperties, ElementOfSeq
<1>3. \A r \in Rank : todos[r] = {[gid |-> e[r][l], lid |-> l] :
                          l \in {k \in DOMAIN e[r] : h[e[r][k]] # r}}
  BY DEF Exports
<1>4. \A r \in Rank : \A x \in todos[r] :
          /\ x \in [gid : Particle, lid : Nat]
          /\ x.lid \in DOMAIN e[r] /\ e[r][x.lid] = x.gid
          /\ h[x.gid] # r
  BY <1>2, <1>3
<1>5. \A r \in Rank : \A k \in DOMAIN e[r] :
          h[e[r][k]] # r => \E x \in todos[r] : x.lid = k /\ x.gid = e[r][k]
  <2> TAKE r \in Rank
  <2> TAKE k \in DOMAIN e[r]
  <2> HAVE h[e[r][k]] # r
  <2>1. [gid |-> e[r][k], lid |-> k] \in todos[r]
    BY <1>3
  <2> HIDE DEF todos
  <2> QED
    BY <2>1
<1> HIDE DEF todos, announced
<1>6. todos \in [Rank -> SUBSET [gid : Particle, lid : Nat]]
  BY <1>4 DEF todos
<1>7. ASSUME NEW s \in Rank, NEW d \in Rank
      PROVE  /\ announced[s][d] \in Nat
             /\ announced[s][d] > 0 <=> \E x \in todos[s] : h[x.gid] = d
  <2> DEFINE those == {k \in DOMAIN e[s] : h[e[s][k]] = d}
  <2>1. announced[s][d] = IF d = s THEN 0 ELSE Cardinality(those)
    BY DEF announced, ExportsTo
  <2>2. IsFiniteSet(those)
    <3>1. IsFiniteSet(1..Len(e[s]))
      BY <1>2, FS_Interval
    <3> QED
      BY <1>2, <3>1, FS_Subset
  <2>3. Cardinality(those) \in Nat
    BY <2>2, FS_CardinalityType
  <2>4. Cardinality(those) = 0 <=> those = {}
    BY <2>2, FS_EmptySet
  <2>5. those # {} /\ d # s <=> \E x \in todos[s] : h[x.gid] = d
    BY <1>4, <1>5
  <2> HIDE DEF those
  <2> QED
    BY <2>1, <2>3, <2>4, <2>5
<1>8. announced \in [Rank -> [Rank -> Nat]]
  BY <1>7 DEF announced
<1>9. \/ Partitioned(e, h).pc = [r \in Rank |-> "pack"]
      \/ /\ Partitioned(e, h).pc = [r \in Rank |-> "ready"]
         /\ \A r \in Rank : todos[r] = {}
  BY <1>1
<1> DEFINE cut == Partitioned(e, h)
<1> HIDE DEF moves, cut
<1>10. /\ cut.todo = todos /\ cut.counts = announced
       /\ \/ cut.pc = [r \in Rank |-> "pack"]
          \/ /\ cut.pc = [r \in Rank |-> "ready"]
             /\ \A r \in Rank : todos[r] = {}
  BY <1>1, <1>9 DEF cut
<1>11. /\ cut.todo \in [Rank -> SUBSET [gid : Particle, lid : Nat]]
       /\ cut.counts \in [Rank -> [Rank -> Nat]]
  BY <1>6, <1>8, <1>10
<1>12. \A r \in Rank : \A x \in cut.todo[r] :
           /\ x.lid \in DOMAIN e[r] /\ e[r][x.lid] = x.gid
           /\ h[x.gid] # r
  BY <1>4, <1>10
<1>13. \A r \in Rank : \A k \in DOMAIN e[r] :
           h[e[r][k]] # r => \E x \in cut.todo[r] : x.lid = k
  BY <1>5, <1>10
<1>14. \A s, d \in Rank : cut.counts[s][d] > 0 <=>
           \E x \in cut.todo[s] : h[x.gid] = d
  BY <1>7, <1>10
<1>15. \/ cut.pc = [r \in Rank |-> "pack"]
       \/ /\ cut.pc = [r \in Rank |-> "ready"]
          /\ \A r \in Rank : cut.todo[r] = {}
  BY <1>10
<1> QED
  BY <1>11, <1>12, <1>13, <1>14, <1>15 DEF cut

Cut ==
    /\ els \in [Rank -> Seq(Particle)]
    /\ home \in [Particle -> Rank]
    /\ todo = Partitioned(els, home).todo
    /\ counts = Partitioned(els, home).counts
    /\ pc = Partitioned(els, home).pc
    /\ buf = [r \in Rank |-> NoBuffer]
    /\ wire = {}
    /\ due \in [Rank -> Nat]
    /\ i \in [Rank -> Nat \ {0}]
    /\ mode = [r \in Rank |-> "balance"]
    /\ iter \in [Rank -> Nat]
    /\ \A r, s \in Rank : iter[r] = iter[s]
    /\ \A r \in Rank : Alone(els[r], DOMAIN els[r])
    /\ \A p \in Particle : \A r, s \in Rank :
          p \in ToSet(els[r]) /\ p \in ToSet(els[s]) => r = s
    /\ \A p \in Particle : \E r \in Rank : p \in ToSet(els[r])

LEMMA OutOfDrop ==
    ASSUME NEW r \in Rank, pc[r] # "drop", NEW p
    PROVE  InVector(p, r) <=> p \in ToSet(els[r])
BY DEF InVector, Standing, ToSet

LEMMA CutIsSound == Cut => VInv
<1> SUFFICES ASSUME Cut PROVE VInv
  OBVIOUS
<1>0. /\ els \in [Rank -> Seq(Particle)]
      /\ home \in [Particle -> Rank]
      /\ buf = [r \in Rank |-> NoBuffer]
      /\ wire = {}
      /\ due \in [Rank -> Nat]
      /\ i \in [Rank -> Nat \ {0}]
      /\ mode = [r \in Rank |-> "balance"]
      /\ iter \in [Rank -> Nat]
      /\ \A r, s \in Rank : iter[r] = iter[s]
  BY DEF Cut
<1>1. /\ todo \in [Rank -> SUBSET [gid : Particle, lid : Nat]]
      /\ counts \in [Rank -> [Rank -> Nat]]
      /\ \A r \in Rank : \A x \in todo[r] :
            /\ x.lid \in DOMAIN els[r] /\ els[r][x.lid] = x.gid
            /\ home[x.gid] # r
      /\ \A r \in Rank : \A k \in DOMAIN els[r] :
            home[els[r][k]] # r => \E x \in todo[r] : x.lid = k
      /\ \A s, d \in Rank : counts[s][d] > 0 <=>
            \E x \in todo[s] : home[x.gid] = d
      /\ \/ pc = [r \in Rank |-> "pack"]
         \/ pc = [r \in Rank |-> "ready"] /\ \A r \in Rank : todo[r] = {}
  <2> DEFINE cut == Partitioned(els, home)
  <2>1. todo = cut.todo /\ counts = cut.counts /\ pc = cut.pc
    BY DEF Cut
  <2>2. /\ cut.todo \in [Rank -> SUBSET [gid : Particle, lid : Nat]]
        /\ cut.counts \in [Rank -> [Rank -> Nat]]
        /\ \A r \in Rank : \A x \in cut.todo[r] :
              /\ x.lid \in DOMAIN els[r] /\ els[r][x.lid] = x.gid
              /\ home[x.gid] # r
        /\ \A r \in Rank : \A k \in DOMAIN els[r] :
              home[els[r][k]] # r => \E x \in cut.todo[r] : x.lid = k
        /\ \A s, d \in Rank : cut.counts[s][d] > 0 <=>
              \E x \in cut.todo[s] : home[x.gid] = d
        /\ \/ cut.pc = [r \in Rank |-> "pack"]
           \/ /\ cut.pc = [r \in Rank |-> "ready"]
              /\ \A r \in Rank : cut.todo[r] = {}
    BY <1>0, OneCut
  <2> HIDE DEF cut
  <2> QED
    BY <2>1, <2>2
<1>1a. \/ \A r \in Rank : pc[r] = "pack"
       \/ \A r \in Rank : pc[r] = "ready" /\ todo[r] = {}
  BY <1>1
<1>2. \A r \in Rank : /\ els[r] \in Seq(Element)
                      /\ \A k \in DOMAIN els[r] : els[r][k] # Marked
  <2> TAKE r \in Rank
  <2>1. els[r] \in Seq(Particle)
    BY <1>0
  <2>2. \A k \in DOMAIN els[r] : els[r][k] \in Particle
    BY <2>1, LenProperties, ElementOfSeq
  <2> QED
    BY <2>1, <2>2, NoMarks, SeqMonotonic DEF Element
<1>3. \A r, d \in Rank : buf[r][d] = <<>>
  BY <1>0 DEF NoBuffer
<1>4. Types
  <2>1. buf \in [Rank -> [Rank -> Seq(Particle)]]
    BY <1>0, EmptySeq DEF NoBuffer
  <2>2. pc \in [Rank -> Stages] /\ mode \in [Rank -> Modes]
    BY <1>0, <1>1 DEF Stages, Modes
  <2>3. els \in [Rank -> Seq(Element)]
    BY <1>0, <1>2
  <2> QED
    BY <1>0, <1>1, <2>1, <2>2, <2>3 DEF Types
<1>5. \A r \in Rank : mode[r] = "balance"
  BY <1>0
<1>6. Together /\ Paced
  BY <1>0, <1>1a, <1>5 DEF Together, Paced
<1>7. Contents
  BY <1>1, <1>1a, <1>2 DEF Contents
<1>8. Tasks
  BY <1>1, <1>1a DEF Tasks
<1>9. Buffers /\ Wires
  BY <1>0, <1>3 DEF Buffers, Wires
<1>10. Announced
  BY <1>1, <1>3 DEF Announced
<1>11. Books
  BY <1>0, <1>1a DEF Books, Owes, Sent
<1>12. Distinct
  <2>1. \A r \in Rank : Standing(r) = DOMAIN els[r]
    BY <1>1a DEF Standing
  <2>2. \A r, d \in Rank : Alone(buf[r][d], DOMAIN buf[r][d])
    <3>1. DOMAIN <<>> = {}
      OBVIOUS
    <3> QED
      BY <1>3, <3>1 DEF Alone
  <2> QED
    BY <1>0, <2>1, <2>2 DEF Distinct, Cut
<1>13. /\ \A p \in Particle, r \in Rank : InVector(p, r) <=> p \in ToSet(els[r])
       /\ \A p \in Particle, r \in Rank : ~InBuffer(p, r)
  <2>1. \A r \in Rank : pc[r] # "drop"
    BY <1>1a
  <2>2. \A x : x \notin ToSet(<<>>)
    BY DEF ToSet
  <2> QED
    BY <1>3, <2>1, <2>2, OutOfDrop DEF InBuffer
<1>14. Apart /\ Somewhere
  BY <1>0, <1>13 DEF Apart, Somewhere, Cut
<1> QED
  BY <1>4, <1>6, <1>7, <1>8, <1>9, <1>10, <1>11, <1>12, <1>14 DEF VInv

LEMMA InitVInv == Init => VInv
<1> SUFFICES ASSUME Init PROVE VInv
  OBVIOUS
<1>1. \A r \in Rank : r # Root => els[r] = <<>>
  BY DEF Init
<1>2. /\ els[Root] \in Seq(Particle) /\ ToSet(els[Root]) = Particle
      /\ Alone(els[Root], DOMAIN els[Root])
  <2>1. CASE els[Root] = <<>>
    <3>1. Particle = {}
      BY <2>1, RootAssumption DEF Init
    <3> QED
      BY <2>1, <3>1 DEF ToSet, Alone
  <2>2. CASE els[Root] # <<>>
    <3>1. els[Root] \in SetToSeqs(Particle)
      BY <2>2, RootAssumption DEF Init
    <3> QED
      BY <3>1, FiniteAssumption, InOrder
  <2> QED
    BY <2>1, <2>2
<1>3. els \in [Rank -> Seq(Particle)]
  <2>1. \A r \in Rank : els[r] \in Seq(Particle)
    BY <1>1, <1>2, EmptySeq
  <2>2. els = [r \in Rank |-> els[r]]
    BY DEF Init
  <2> QED
    BY <2>1, <2>2
<1>4. \A r \in Rank : r # Root => \A x : x \notin ToSet(els[r])
  BY <1>1 DEF ToSet
<1>5. \A r \in Rank : Alone(els[r], DOMAIN els[r])
  BY <1>1, <1>2 DEF Alone
<1>6. Cut
  BY <1>2, <1>3, <1>4, <1>5, RootAssumption DEF Init, Cut
<1> QED
  BY <1>6, CutIsSound

-----------------------------------------------------------------------------
(***************************************************************************)
(* Steps in which no element changes its place.                            *)
(***************************************************************************)

(* A particle may go from a rank's vector to its buffers.                  *)
LEMMA SameRanks ==
    ASSUME Apart, Somewhere, NEW r \in Rank, wire' = wire,
           \A x \in Particle, s \in Rank : s # r =>
               /\ (InVector(x, s))' <=> InVector(x, s)
               /\ (InBuffer(x, s))' <=> InBuffer(x, s),
           \A x \in Particle :
               /\ (InVector(x, r) \/ InBuffer(x, r))' <=>
                      InVector(x, r) \/ InBuffer(x, r)
               /\ ~(InVector(x, r) /\ InBuffer(x, r))'
    PROVE  Apart' /\ Somewhere'
<1>1. \A x \in Particle, s \in Rank :
          /\ (InVector(x, s))' => InVector(x, s) \/ InBuffer(x, s)
          /\ (InBuffer(x, s))' => InVector(x, s) \/ InBuffer(x, s)
          /\ ~((InVector(x, s))' /\ (InBuffer(x, s))')
          /\ InVector(x, s) \/ InBuffer(x, s) =>
                (InVector(x, s))' \/ (InBuffer(x, s))'
  BY DEF Apart
<1>2. \A x \in Particle, s, t \in Rank :
          /\ InVector(x, s) \/ InBuffer(x, s)
          /\ InVector(x, t) \/ InBuffer(x, t)
          => s = t
  BY DEF Apart
<1>3. \A x \in Particle, s \in Rank, m \in wire :
          ~((InVector(x, s) \/ InBuffer(x, s)) /\ InMessage(x, m))
  BY DEF Apart
<1>4. \A x \in Particle, m, n \in wire :
          InMessage(x, m) /\ InMessage(x, n) => m = n
  BY DEF Apart
<1>5. Apart'
  <2> SUFFICES ASSUME NEW x \in Particle
               PROVE  /\ \A s, t \in Rank :
                            (InVector(x, s))' /\ (InVector(x, t))' => s = t
                      /\ \A s, t \in Rank :
                            (InBuffer(x, s))' /\ (InBuffer(x, t))' => s = t
                      /\ \A m, n \in wire :
                            InMessage(x, m) /\ InMessage(x, n) => m = n
                      /\ \A s, t \in Rank :
                            ~((InVector(x, s))' /\ (InBuffer(x, t))')
                      /\ \A s \in Rank, m \in wire :
                            ~((InVector(x, s))' /\ InMessage(x, m))
                      /\ \A s \in Rank, m \in wire :
                            ~((InBuffer(x, s))' /\ InMessage(x, m))
    BY DEF Apart
  <2> QED
    BY <1>1, <1>2, <1>3, <1>4
<1>6. Somewhere'
  <2> SUFFICES ASSUME NEW x \in Particle
               PROVE  \/ \E s \in Rank : (InVector(x, s))' \/ (InBuffer(x, s))'
                      \/ \E m \in wire : InMessage(x, m)
    BY DEF Somewhere
  <2> QED
    BY <1>1 DEF Somewhere
<1> QED
  BY <1>5, <1>6

LEMMA SamePlaces ==
    ASSUME Distinct, Apart, Somewhere, els' = els, buf' = buf, wire' = wire,
           \A s \in Rank : (Standing(s))' = Standing(s)
    PROVE  Distinct' /\ Apart' /\ Somewhere'
<1>1. \A x \in Particle, s \in Rank : /\ (InVector(x, s))' <=> InVector(x, s)
                                      /\ (InBuffer(x, s))' <=> InBuffer(x, s)
  BY DEF InVector, InBuffer
<1>2. Apart' /\ Somewhere'
  BY <1>1, RootAssumption, SameRanks DEF Apart
<1> QED
  BY <1>2 DEF Distinct

LEMMA Quiet ==
    ASSUME VInv, \A s \in Rank : pc[s] \in {"ready", "moved"}
    PROVE  /\ wire = {}
           /\ \A s \in Rank : todo[s] = {}
           /\ \A s, d \in Rank : buf[s][d] = <<>>
           /\ \A s \in Rank : \A k \in DOMAIN els[s] : els[s][k] \in Particle
           /\ \A s \in Rank : els[s] \in Seq(Particle)
           /\ \A s, d \in Rank : ~Owes(s, d)
           /\ \A s \in Rank : Standing(s) = DOMAIN els[s]
<1>1. \A m \in wire : m.to \in Rank
  BY DEF VInv, Types
<1>2. wire = {}
  BY <1>1 DEF VInv, Wires
<1>3. \A s \in Rank : todo[s] = {}
  BY DEF VInv, Tasks
<1>4. \A s, d \in Rank : buf[s][d] = <<>>
  BY DEF VInv, Buffers
<1>5. ASSUME NEW s \in Rank
      PROVE  /\ \A k \in DOMAIN els[s] : els[s][k] \in Particle
             /\ els[s] \in Seq(Particle)
  <2>1. els[s] \in Seq(Element)
    BY DEF VInv, Types
  <2>2. \A k \in DOMAIN els[s] : els[s][k] \in Element
    BY <2>1, LenProperties, ElementOfSeq
  <2>3. \A k \in DOMAIN els[s] : els[s][k] # Marked
    BY DEF VInv, Contents
  <2>4. \A k \in DOMAIN els[s] : els[s][k] \in Particle
    BY <2>2, <2>3 DEF Element
  <2> QED
    BY <2>1, <2>4, LenProperties, SeqDef
<1>6. \A s, d \in Rank : ~Owes(s, d)
  BY <1>2 DEF Owes, Sent
<1>7. \A s \in Rank : Standing(s) = DOMAIN els[s]
  BY DEF Standing
<1> QED
  BY <1>2, <1>3, <1>4, <1>5, <1>6, <1>7

LEMMA ComputeKeeps ==
    ASSUME VInv, NEW r \in Rank, ComputeOneStep(r)
    PROVE  VInv'
<1>1. /\ pc[r] = "ready" /\ pc \in [Rank -> Stages]
      /\ \A s \in Rank : pc[s] \in {"ready", "moved"}
      /\ pc' = [pc EXCEPT ![r] = "moved"]
      /\ iter' = [iter EXCEPT ![r] = @ + 1] /\ iter \in [Rank -> Nat]
      /\ els' = els /\ todo' = todo /\ buf' = buf /\ counts' = counts
      /\ wire' = wire /\ due' = due /\ i' = i /\ mode' = mode
  BY DEF ComputeOneStep, VInv, Types
<1>2. /\ wire = {}
      /\ \A s \in Rank : todo[s] = {}
      /\ \A s, d \in Rank : buf[s][d] = <<>>
      /\ \A s \in Rank : \A k \in DOMAIN els[s] : els[s][k] \in Particle
      /\ \A s \in Rank : Standing(s) = DOMAIN els[s]
  BY <1>1, Quiet
<1>3. /\ home' \in [Particle -> Rank]
      /\ \A p \in Particle : p \notin ToSet(els[r]) => home'[p] = home[p]
  <2>1. PICK h \in [ToSet(els[r]) -> Rank] :
            home' = [p \in Particle |-> IF p \in DOMAIN h THEN h[p]
                                        ELSE home[p]]
    BY DEF ComputeOneStep
  <2>2. home \in [Particle -> Rank]
    BY DEF VInv, Types
  <2> QED
    BY <2>1, <2>2
<1>4. \A s \in Rank : (Standing(s))' = Standing(s)
  BY <1>1 DEF Standing
<1>5. Types'
  <2>1. pc' \in [Rank -> Stages]
    BY <1>1 DEF Stages
  <2>2. iter' \in [Rank -> Nat]
    BY <1>1
  <2> QED
    BY <1>1, <1>3, <2>1, <2>2 DEF VInv, Types
<1>6. Together'
  BY <1>1 DEF VInv, Together
<1>7. Paced'
  BY <1>1 DEF VInv, Paced
<1>8. Contents'
  <2> SUFFICES ASSUME NEW s \in Rank, NEW k \in DOMAIN els[s]
               PROVE  /\ els[s][k] # Marked
                      /\ home'[els[s][k]] # s =>
                            pc'[s] = "moved" \/ mode[s] = "cells"
    BY <1>1 DEF Contents
  <2>1. els[s][k] \in Particle
    BY <1>2
  <2>2. CASE s = r
    BY <1>1, <2>1, <2>2, NoMarks
  <2>3. CASE s # r
    <3>1. pc'[s] = pc[s] /\ pc[s] \in {"ready", "moved"}
      BY <1>1, <2>3
    <3>2. InVector(els[s][k], s)
      BY <1>2 DEF InVector
    <3>3. els[s][k] \notin ToSet(els[r])
      <4>1. pc[r] # "drop"
        BY <1>1
      <4> QED
        BY <2>1, <2>3, <3>2, <4>1, OutOfDrop DEF VInv, Apart
    <3>4. home'[els[s][k]] = home[els[s][k]]
      BY <1>3, <2>1, <3>3
    <3>5. home[els[s][k]] # s => pc[s] = "moved" \/ mode[s] = "cells"
      BY <2>1, <3>1, NoMarks DEF VInv, Contents
    <3> QED
      BY <2>1, <3>1, <3>4, <3>5, NoMarks
  <2> QED
    BY <2>2, <2>3
<1>9. Tasks' /\ Buffers' /\ Wires'
  BY <1>1, <1>2 DEF Tasks, Buffers, Wires
<1>10. \A s \in Rank : pc'[s] \in {"ready", "moved"}
  BY <1>1
<1>11. Announced' /\ Books'
  BY <1>1, <1>2, <1>10 DEF Announced, Books, Owes, Sent
<1>12. Distinct' /\ Apart' /\ Somewhere'
  BY <1>1, <1>4, SamePlaces DEF VInv
<1> QED
  BY <1>5, <1>6, <1>7, <1>8, <1>9, <1>11, <1>12 DEF VInv

LEMMA MigrationKeeps ==
    ASSUME VInv, DecideMigration
    PROVE  VInv'
<1>1. /\ \A s \in Rank : pc[s] = "moved"
      /\ buf' = [s \in Rank |-> NoBuffer] /\ i' = [s \in Rank |-> 1]
      /\ els' = els /\ home' = home /\ todo' = todo /\ counts' = counts
      /\ wire' = wire /\ due' = due /\ iter' = iter
  BY DEF DecideMigration
<1>2. /\ wire = {}
      /\ \A s \in Rank : todo[s] = {}
      /\ \A s, d \in Rank : buf[s][d] = <<>>
      /\ \A s \in Rank : \A k \in DOMAIN els[s] : els[s][k] \in Particle
      /\ \A s \in Rank : Standing(s) = DOMAIN els[s]
  BY <1>1, Quiet
<1>3. buf' = buf
  <2>1. buf \in [Rank -> [Rank -> Seq(Particle)]]
    BY DEF VInv, Types
  <2>2. \A s \in Rank : buf[s] = NoBuffer
    BY <1>2, <2>1 DEF NoBuffer
  <2> QED
    BY <1>1, <2>1, <2>2
<1>4. PICK m \in {"migrate", "invert", "cells"} : mode' = [s \in Rank |-> m]
  BY DEF DecideMigration
<1>5. \/ \A s \in Rank : pc'[s] = "extract"
      \/ /\ \A s \in Rank : pc'[s] = "ready"
         /\ \A s, d \in Rank : s = d
  <2>1. pc' = [s \in Rank |-> IF Cardinality(Rank) = 1 THEN "ready"
                              ELSE "extract"]
    BY DEF DecideMigration
  <2>2. CASE Cardinality(Rank) = 1
    <3>1. \E x : Rank = {x}
      BY <2>2, FiniteAssumption, FS_Singleton
    <3> QED
      BY <2>1, <2>2, <3>1
  <2>3. CASE Cardinality(Rank) # 1
    BY <2>1, <2>3
  <2> QED
    BY <2>2, <2>3
<1>6. pc' \in [Rank -> Stages] /\ mode' \in [Rank -> Modes]
      /\ i' \in [Rank -> Nat \ {0}]
  BY <1>1, <1>4 DEF DecideMigration, Stages, Modes
<1>7. Types'
  BY <1>1, <1>3, <1>6 DEF VInv, Types
<1>8. Together' /\ Paced'
  BY <1>1, <1>4, <1>5 DEF VInv, Together, Paced
<1>9. Contents'
  <2> SUFFICES ASSUME NEW s \in Rank, NEW k \in DOMAIN els[s]
               PROVE  /\ els[s][k] # Marked
                      /\ home[els[s][k]] # s => pc'[s] = "extract" /\ i'[s] <= k
    BY <1>1 DEF Contents
  <2>1. els[s][k] \in Particle /\ home[els[s][k]] \in Rank
    BY <1>2 DEF VInv, Types
  <2>2. k \in Nat /\ k >= 1
    <3>1. els[s] \in Seq(Element)
      BY DEF VInv, Types
    <3> QED
      BY <3>1, LenProperties
  <2>3. i'[s] = 1
    BY <1>1
  <2> QED
    BY <1>5, <2>1, <2>2, <2>3, NoMarks
<1>10. Tasks' /\ Buffers' /\ Wires'
  BY <1>1, <1>2, <1>3 DEF Tasks, Buffers, Wires
<1>11. Announced' /\ Books'
  BY <1>1, <1>2, <1>5 DEF Announced, Books, Owes, Sent
<1>12. Distinct' /\ Apart' /\ Somewhere'
  <2>1. \A s \in Rank : (Standing(s))' = Standing(s)
    BY <1>1, <1>2, <1>5 DEF Standing
  <2> QED
    BY <1>1, <1>3, <2>1, SamePlaces DEF VInv
<1> QED
  BY <1>7, <1>8, <1>9, <1>10, <1>11, <1>12 DEF VInv

LEMMA BalancingKeeps ==
    ASSUME VInv, DecideBalancing
    PROVE  VInv'
<1>1. /\ \A s \in Rank : pc[s] = "moved"
      /\ home' \in [Particle -> Rank]
      /\ todo' = Partitioned(els, home').todo
      /\ counts' = Partitioned(els, home').counts
      /\ pc' = Partitioned(els, home').pc
      /\ mode' = [s \in Rank |-> "balance"]
      /\ buf' = [s \in Rank |-> NoBuffer] /\ i' = [s \in Rank |-> 1]
      /\ els' = els /\ wire' = wire /\ due' = due /\ iter' = iter
  BY DEF DecideBalancing
<1>2. /\ wire = {}
      /\ \A s \in Rank : els[s] \in Seq(Particle)
      /\ \A s, d \in Rank : buf[s][d] = <<>>
      /\ \A s \in Rank : Standing(s) = DOMAIN els[s]
  BY <1>1, Quiet
<1>3. els \in [Rank -> Seq(Particle)]
  <2>1. els \in [Rank -> Seq(Element)]
    BY DEF VInv, Types
  <2> QED
    BY <1>2, <2>1
<1>4. \A s, d \in Rank : iter[s] = iter[d]
  BY <1>1 DEF VInv, Paced
<1>5. \A s \in Rank : Alone(els[s], DOMAIN els[s])
  BY <1>2 DEF VInv, Distinct
<1>6. \A p \in Particle, s \in Rank : /\ InVector(p, s) <=> p \in ToSet(els[s])
                                      /\ ~InBuffer(p, s)
  <2>1. \A x : x \notin ToSet(<<>>)
    BY DEF ToSet
  <2>2. \A s \in Rank : pc[s] # "drop"
    BY <1>1
  <2> QED
    BY <1>2, <2>1, <2>2, OutOfDrop DEF InBuffer
<1>7. /\ \A p \in Particle : \A s, d \in Rank :
             p \in ToSet(els[s]) /\ p \in ToSet(els[d]) => s = d
      /\ \A p \in Particle : \E s \in Rank : p \in ToSet(els[s])
  BY <1>2, <1>6 DEF VInv, Apart, Somewhere
<1>8. due \in [Rank -> Nat] /\ i' \in [Rank -> Nat \ {0}]
      /\ iter \in [Rank -> Nat]
  BY <1>1 DEF VInv, Types
<1>9. Cut'
  BY <1>1, <1>2, <1>3, <1>4, <1>5, <1>7, <1>8 DEF Cut
<1> QED
  BY <1>9, CutIsSound, PTL

LEMMA AnnounceKeeps ==
    ASSUME VInv, NEW r \in Rank, Announce(r)
    PROVE  VInv'
<1>1. /\ mode[r] = "migrate" /\ pc[r] = "extract" /\ i[r] > Len(els[r])
      /\ counts' = [counts EXCEPT ![r] = [d \in Rank |-> Len(buf[r][d])]]
      /\ pc' = [pc EXCEPT ![r] = "post"]
      /\ els' = els /\ home' = home /\ todo' = todo /\ buf' = buf
      /\ wire' = wire /\ due' = due /\ i' = i /\ mode' = mode /\ iter' = iter
  BY DEF Announce
<1>2. /\ pc \in [Rank -> Stages] /\ i[r] \in Nat
      /\ counts \in [Rank -> [Rank -> Nat]]
      /\ \A s, d \in Rank : buf[s][d] \in Seq(Particle)
      /\ \A s \in Rank : els[s] \in Seq(Element)
  BY DEF VInv, Types
<1>3. \A s \in Rank : pc[s] \in {"extract", "post"} /\ mode[s] = "migrate"
  BY <1>1 DEF VInv, Together
<1>4. wire = {}
  <2>1. \A m \in wire : m.from \in Rank
    BY DEF VInv, Types
  <2> QED
    BY <1>3, <2>1 DEF VInv, Wires
<1>5. /\ \A s \in Rank : pc'[s] = IF s = r THEN "post" ELSE pc[s]
      /\ \A d \in Rank : counts'[r][d] = Len(buf[r][d])
      /\ \A s, d \in Rank : s # r => counts'[s][d] = counts[s][d]
  BY <1>1, <1>2
<1>6. \A s, d \in Rank : /\ Len(buf[s][d]) \in Nat
                         /\ Len(buf[s][d]) > 0 <=> buf[s][d] # <<>>
  <2> TAKE s, d \in Rank
  <2>1. buf[s][d] \in Seq(Particle)
    BY <1>2
  <2> QED
    BY <2>1, LenProperties, EmptySeq
<1>7. \A k \in DOMAIN els[r] : ~(i[r] <= k)
  <2>1. DOMAIN els[r] = 1..Len(els[r]) /\ Len(els[r]) \in Nat
    BY <1>2, LenProperties
  <2> QED
    BY <1>1, <1>2, <2>1
<1>8. Types'
  <2>1. pc' \in [Rank -> Stages]
    BY <1>1, <1>2 DEF Stages
  <2>2. counts' \in [Rank -> [Rank -> Nat]]
    BY <1>1, <1>2, <1>6
  <2> QED
    BY <1>1, <2>1, <2>2 DEF VInv, Types
<1>9. Together'
  BY <1>1, <1>3, <1>5 DEF Together
<1>10. Paced'
  BY <1>1, <1>3, <1>5 DEF VInv, Paced
<1>11. Contents'
  BY <1>1, <1>3, <1>5, <1>7 DEF VInv, Contents
<1>12. Tasks'
  BY <1>1, <1>3, <1>5 DEF VInv, Tasks
<1>13. Buffers'
  BY <1>1, <1>3, <1>5 DEF VInv, Buffers
<1>14. Wires'
  BY <1>1, <1>4 DEF Wires
<1>15. \A s \in Rank : todo[s] = {}
  BY <1>3 DEF VInv, Tasks
<1>16. Announced'
  BY <1>1, <1>5, <1>6, <1>15 DEF VInv, Announced
<1>17. Books'
  <2>1. \A s, d \in Rank : pc'[s] # "extract" =>
            ((Owes(s, d))' <=> counts'[s][d] > 0)
    BY <1>1, <1>3, <1>4, <1>5 DEF Owes, Sent
  <2>2. \A s \in Rank : pc'[s] \in {"extract", "post"}
    BY <1>3, <1>5
  <2> QED
    BY <2>1, <2>2 DEF Books
<1>18. Distinct' /\ Apart' /\ Somewhere'
  <2>1. \A s \in Rank : (Standing(s))' = Standing(s)
    BY <1>1, <1>3, <1>5 DEF Standing
  <2> QED
    BY <1>1, <2>1, SamePlaces DEF VInv
<1> QED
  BY <1>8, <1>9, <1>10, <1>11, <1>12, <1>13, <1>14, <1>16, <1>17, <1>18
  DEF VInv

LEMMA ListedKeeps ==
    ASSUME VInv, NEW r \in Rank, Listed(r)
    PROVE  VInv'
<1>1. /\ mode[r] = "invert" /\ pc[r] = "extract" /\ i[r] > Len(els[r])
      /\ pc' = [pc EXCEPT ![r] = "drop"]
      /\ els' = els /\ home' = home /\ todo' = todo /\ buf' = buf
      /\ counts' = counts
      /\ wire' = wire /\ due' = due /\ i' = i /\ mode' = mode /\ iter' = iter
  BY DEF Listed
<1>2. /\ pc \in [Rank -> Stages] /\ i[r] \in Nat
      /\ \A s \in Rank : els[s] \in Seq(Element)
  BY DEF VInv, Types
<1>3. \A s \in Rank : pc[s] \in {"extract", "drop"} /\ mode[s] = "invert"
  BY <1>1 DEF VInv, Together
<1>5. /\ \A s \in Rank : pc'[s] = IF s = r THEN "drop" ELSE pc[s]
      /\ pc' \in [Rank -> Stages]
  BY <1>1, <1>2 DEF Stages
<1>7. \A k \in DOMAIN els[r] : ~(i[r] <= k)
  <2>1. DOMAIN els[r] = 1..Len(els[r]) /\ Len(els[r]) \in Nat
    BY <1>2, LenProperties
  <2> QED
    BY <1>1, <1>2, <2>1
<1>8. Types'
  BY <1>1, <1>5 DEF VInv, Types
<1>9. Together'
  BY <1>1, <1>3, <1>5 DEF Together
<1>10. Paced'
  BY <1>1, <1>3, <1>5 DEF VInv, Paced
<1>11. Contents'
  BY <1>1, <1>3, <1>5, <1>7 DEF VInv, Contents
<1>12. Tasks'
  BY <1>1, <1>3, <1>5 DEF VInv, Tasks
<1>13. Buffers'
  BY <1>1, <1>3, <1>5 DEF VInv, Buffers
<1>14. Wires'
  <2>1. \A m \in wire : m.from \in Rank
    BY DEF VInv, Types
  <2> QED
    BY <1>1, <1>3, <2>1 DEF VInv, Wires
<1>15. \A s \in Rank : pc'[s] \in {"extract", "drop"}
  BY <1>3, <1>5
<1>16. Announced' /\ Books'
  BY <1>15 DEF Announced, Books
<1>18. Distinct' /\ Apart' /\ Somewhere'
  <2>1. todo[r] = {}
    BY <1>1 DEF VInv, Tasks
  <2>2. \A s \in Rank : (Standing(s))' = Standing(s)
    BY <1>1, <1>5, <2>1 DEF Standing
  <2> QED
    BY <1>1, <2>2, SamePlaces DEF VInv
<1> QED
  BY <1>8, <1>9, <1>10, <1>11, <1>12, <1>13, <1>14, <1>16, <1>18 DEF VInv

LEMMA InvertKeeps ==
    ASSUME VInv, InvertLists
    PROVE  VInv'
<1>1. /\ \A s \in Rank : pc[s] = "drop" /\ todo[s] = {}
      /\ counts' = [s \in Rank |-> [d \in Rank |-> Len(buf[s][d])]]
      /\ pc' = [s \in Rank |-> "post"]
      /\ els' = els /\ home' = home /\ todo' = todo /\ buf' = buf
      /\ wire' = wire /\ due' = due /\ i' = i /\ mode' = mode /\ iter' = iter
  BY DEF InvertLists
<1>2. \A s, d \in Rank : /\ Len(buf[s][d]) \in Nat
                         /\ Len(buf[s][d]) > 0 <=> buf[s][d] # <<>>
  <2> TAKE s, d \in Rank
  <2>1. buf[s][d] \in Seq(Particle)
    BY DEF VInv, Types
  <2> QED
    BY <2>1, LenProperties, EmptySeq
<1>4. wire = {}
  <2>1. \A m \in wire : m.from \in Rank
    BY DEF VInv, Types
  <2> QED
    BY <1>1, <2>1 DEF VInv, Wires
<1>5. \A s \in Rank : pc'[s] = "post"
  BY <1>1
<1>8. Types'
  <2>1. pc' \in [Rank -> Stages]
    BY <1>1 DEF Stages
  <2>2. counts' \in [Rank -> [Rank -> Nat]]
    BY <1>1, <1>2
  <2> QED
    BY <1>1, <2>1, <2>2 DEF VInv, Types
<1>9. Together'
  BY <1>1, <1>5 DEF VInv, Together
<1>10. Paced'
  BY <1>1, <1>5 DEF VInv, Paced
<1>11. Contents'
  BY <1>1, <1>5 DEF VInv, Contents
<1>12. Tasks'
  BY <1>1 DEF Tasks
<1>13. Buffers'
  BY <1>1, <1>5 DEF VInv, Buffers
<1>14. Wires'
  BY <1>1, <1>4 DEF Wires
<1>16. Announced'
  BY <1>1, <1>2 DEF Announced
<1>17. Books'
  <2>1. \A s, d \in Rank : (Owes(s, d))' <=> counts'[s][d] > 0
    BY <1>1, <1>4, <1>5 DEF Owes, Sent
  <2> QED
    BY <1>5, <2>1 DEF Books
<1>18. Distinct' /\ Apart' /\ Somewhere'
  <2>1. \A s \in Rank : (Standing(s))' = Standing(s)
    BY <1>1, <1>5 DEF Standing
  <2> QED
    BY <1>1, <2>1, SamePlaces DEF VInv
<1> QED
  BY <1>8, <1>9, <1>10, <1>11, <1>12, <1>13, <1>14, <1>16, <1>17, <1>18
  DEF VInv

LEMMA PackedAllKeeps ==
    ASSUME VInv, NEW r \in Rank, PackedAll(r)
    PROVE  VInv'
<1>1. /\ pc[r] = "pack" /\ todo[r] = {}
      /\ pc' = [pc EXCEPT ![r] = "post"]
      /\ els' = els /\ home' = home /\ todo' = todo /\ buf' = buf
      /\ counts' = counts
      /\ wire' = wire /\ due' = due /\ i' = i /\ mode' = mode /\ iter' = iter
  BY DEF PackedAll
<1>2. pc \in [Rank -> Stages]
  BY DEF VInv, Types
<1>3. \A s \in Rank : /\ mode[s] = "balance"
                      /\ pc[s] \notin {"extract", "moved", "drop"}
  BY <1>1 DEF VInv, Together
<1>4. /\ \A s \in Rank : pc'[s] = IF s = r THEN "post" ELSE pc[s]
      /\ pc' \in [Rank -> Stages]
  BY <1>1, <1>2 DEF Stages
<1>5. Types'
  BY <1>1, <1>4 DEF VInv, Types
<1>6. Together'
  BY <1>1, <1>3, <1>4 DEF Together
<1>7. Paced'
  BY <1>1, <1>3, <1>4 DEF VInv, Paced
<1>8. Contents'
  BY <1>1, <1>3, <1>4 DEF VInv, Contents
<1>9. Tasks'
  BY <1>1, <1>4 DEF VInv, Tasks
<1>10. Buffers'
  BY <1>1, <1>4 DEF VInv, Buffers
<1>11. Wires'
  <2>1. \A m \in wire : m.from \in Rank /\ m.to \in Rank
    BY DEF VInv, Types
  <2> QED
    BY <1>1, <1>4, <2>1 DEF VInv, Wires
<1>12. Announced'
  BY <1>1, <1>4 DEF VInv, Announced
<1>13. Books'
  <2>1. \A s, d \in Rank : (Owes(s, d))' <=> Owes(s, d)
    BY <1>1, <1>4 DEF Owes, Sent
  <2>2. \A d \in Rank : {s \in Rank : (Owes(s, d))'} = {s \in Rank : Owes(s, d)}
    BY <2>1
  <2>3. \A s \in Rank : pc'[s] = "extract" <=> pc[s] = "extract"
    BY <1>1, <1>4
  <2> SUFFICES ASSUME NEW d \in Rank
               PROVE  /\ pc'[d] \in {"pack", "post"} =>
                            \A s \in Rank : pc'[s] # "extract" =>
                                (counts[s][d] > 0 <=> (Owes(s, d))')
                      /\ pc'[d] = "receive" =>
                            due[d] = Cardinality({s \in Rank : (Owes(s, d))'})
                      /\ pc'[d] \in {"compact", "ready"} =>
                            \A s \in Rank : ~(Owes(s, d))'
    BY <1>1 DEF Books
  <2>4. CASE d = r
    BY <1>1, <1>4, <2>1, <2>3, <2>4 DEF VInv, Books
  <2>5. CASE d # r
    <3>1. pc'[d] = pc[d]
      BY <1>4, <2>5
    <3> QED
      BY <2>1, <2>2, <2>3, <3>1 DEF VInv, Books
  <2> QED
    BY <2>4, <2>5
<1>14. Distinct' /\ Apart' /\ Somewhere'
  <2>1. \A s \in Rank : (Standing(s))' = Standing(s)
    BY <1>1, <1>4 DEF Standing
  <2> QED
    BY <1>1, <2>1, SamePlaces DEF VInv
<1> QED
  BY <1>5, <1>6, <1>7, <1>8, <1>9, <1>10, <1>11, <1>12, <1>13, <1>14 DEF VInv

LEMMA ReceivedAllKeeps ==
    ASSUME VInv, NEW r \in Rank, ReceivedAll(r)
    PROVE  VInv'
<1>1. /\ pc[r] = "receive" /\ due[r] = 0
      /\ i' = [i EXCEPT ![r] = 1]
      /\ pc' = [pc EXCEPT ![r] = WhenReceived(mode[r])]
      /\ els' = els /\ home' = home /\ todo' = todo /\ buf' = buf
      /\ counts' = counts
      /\ wire' = wire /\ due' = due /\ mode' = mode /\ iter' = iter
  BY DEF ReceivedAll
<1>2. /\ pc \in [Rank -> Stages] /\ i \in [Rank -> Nat \ {0}]
      /\ \A m \in wire : m.from \in Rank /\ m.to \in Rank
  BY DEF VInv, Types
<1>3. \A s \in Rank : /\ pc[s] \notin {"extract", "moved", "drop"}
                      /\ mode[s] = mode[r]
  BY <1>1 DEF VInv, Together
<1>4. /\ pc'[r] \in {"compact", "ready"}
      /\ pc'[r] = "compact" <=> mode[r] = "balance"
      /\ \A s \in Rank : s # r => pc'[s] = pc[s] /\ i'[s] = i[s]
      /\ i'[r] = 1
      /\ pc' \in [Rank -> Stages] /\ i' \in [Rank -> Nat \ {0}]
  BY <1>1, <1>2 DEF Stages, WhenReceived
<1>5. \A s \in Rank : ~Owes(s, r)
  <2> DEFINE owing == {s \in Rank : Owes(s, r)}
  <2>1. due[r] = Cardinality(owing)
    BY <1>1 DEF VInv, Books
  <2>2. IsFiniteSet(owing)
    BY FiniteAssumption, FS_Subset
  <2>3. owing = {}
    <3> HIDE DEF owing
    <3> QED
      BY <1>1, <2>1, <2>2, FS_EmptySet
  <2> QED
    BY <2>3
<1>6. Types'
  BY <1>1, <1>4 DEF VInv, Types
<1>7. Together'
  BY <1>1, <1>3, <1>4 DEF VInv, Together
<1>8. Paced'
  BY <1>1, <1>3, <1>4 DEF VInv, Paced
<1>9. Contents'
  <2> SUFFICES ASSUME NEW s \in Rank, NEW k \in DOMAIN els[s]
               PROVE  /\ els[s][k] = Marked =>
                            /\ mode[s] = "balance"
                            /\ pc'[s] \in {"pack", "post", "receive", "compact"}
                            /\ pc'[s] = "compact" => i'[s] <= k
                      /\ els[s][k] # Marked /\ home[els[s][k]] # s =>
                            \/ pc'[s] = "moved"
                            \/ mode[s] = "cells"
                            \/ pc'[s] = "extract" /\ i'[s] <= k
                            \/ /\ pc'[s] \in {"drop", "pack"}
                               /\ \E x \in todo[s] : x.lid = k
    BY <1>1 DEF Contents
  <2>1. els[s] \in Seq(Element)
    BY DEF VInv, Types
  <2>2. k \in Nat /\ k >= 1
    BY <2>1, LenProperties
  <2>3. CASE s = r
    <3>1. els[s][k] # Marked => home[els[s][k]] = s \/ mode[s] = "cells"
      BY <1>1, <2>3 DEF VInv, Contents
    <3>2. els[s][k] = Marked => mode[s] = "balance"
      BY DEF VInv, Contents
    <3> QED
      BY <1>4, <2>2, <2>3, <3>1, <3>2
  <2>4. CASE s # r
    <3>1. pc'[s] = pc[s] /\ i'[s] = i[s]
      BY <1>4, <2>4
    <3> QED
      BY <3>1 DEF VInv, Contents
  <2> QED
    BY <2>3, <2>4
<1>10. Tasks'
  BY <1>1, <1>4 DEF VInv, Tasks
<1>11. Buffers'
  BY <1>1, <1>4 DEF VInv, Buffers
<1>12. Wires'
  <2>1. \A m \in wire : m.to # r
    BY <1>2, <1>5 DEF Owes, Sent
  <2>2. \A m \in wire :
            /\ pc[m.from] \in {"receive", "compact", "ready"}
            /\ pc[m.to] \in {"pack", "post", "receive"}
    BY DEF VInv, Wires
  <2>3. \A m \in wire :
            /\ pc'[m.from] \in {"receive", "compact", "ready"}
            /\ pc'[m.to] \in {"pack", "post", "receive"}
    BY <1>2, <1>4, <2>1, <2>2
  <2> QED
    BY <1>1, <2>3 DEF VInv, Wires
<1>13. Announced'
  BY <1>1, <1>4 DEF VInv, Announced
<1>14. Books'
  <2>1. \A s, d \in Rank : (Owes(s, d))' <=> Owes(s, d)
    BY <1>1, <1>4 DEF Owes, Sent
  <2>2. \A d \in Rank : {s \in Rank : (Owes(s, d))'} = {s \in Rank : Owes(s, d)}
    BY <2>1
  <2>3. \A s \in Rank : pc[s] # "extract" /\ pc'[s] # "extract"
    BY <1>3, <1>4
  <2> SUFFICES ASSUME NEW d \in Rank
               PROVE  /\ pc'[d] \in {"pack", "post"} =>
                            \A s \in Rank : pc'[s] # "extract" =>
                                (counts[s][d] > 0 <=> (Owes(s, d))')
                      /\ pc'[d] = "receive" =>
                            due[d] = Cardinality({s \in Rank : (Owes(s, d))'})
                      /\ pc'[d] \in {"compact", "ready"} =>
                            \A s \in Rank : ~(Owes(s, d))'
    BY <1>1 DEF Books
  <2>4. CASE d = r
    BY <1>4, <1>5, <2>1, <2>4
  <2>5. CASE d # r
    BY <1>4, <2>1, <2>2, <2>3, <2>5, ZenonT(60) DEF VInv, Books
  <2> QED
    BY <2>4, <2>5
<1>15. Distinct' /\ Apart' /\ Somewhere'
  <2>1. \A s \in Rank : (Standing(s))' = Standing(s)
    BY <1>1, <1>3, <1>4 DEF Standing
  <2> QED
    BY <1>1, <2>1, SamePlaces DEF VInv
<1> QED
  BY <1>6, <1>7, <1>8, <1>9, <1>10, <1>11, <1>12, <1>13, <1>14, <1>15 DEF VInv

LEMMA CompactedKeeps ==
    ASSUME VInv, NEW r \in Rank, Compacted(r)
    PROVE  VInv'
<1>1. /\ pc[r] = "compact" /\ i[r] > Len(els[r])
      /\ pc' = [pc EXCEPT ![r] = "ready"]
      /\ els' = els /\ home' = home /\ todo' = todo /\ buf' = buf
      /\ counts' = counts
      /\ wire' = wire /\ due' = due /\ i' = i /\ mode' = mode /\ iter' = iter
  BY DEF Compacted
<1>2. /\ pc \in [Rank -> Stages] /\ i[r] \in Nat /\ els[r] \in Seq(Element)
      /\ \A m \in wire : m.from \in Rank /\ m.to \in Rank
  BY DEF VInv, Types
<1>3. \A s \in Rank : pc[s] \notin {"extract", "moved", "drop"}
  BY <1>1 DEF VInv, Together
<1>4. /\ \A s \in Rank : pc'[s] = IF s = r THEN "ready" ELSE pc[s]
      /\ pc' \in [Rank -> Stages]
  BY <1>1, <1>2 DEF Stages
<1>5. \A k \in DOMAIN els[r] : ~(i[r] <= k)
  <2>1. DOMAIN els[r] = 1..Len(els[r]) /\ Len(els[r]) \in Nat
    BY <1>2, LenProperties
  <2> QED
    BY <1>1, <1>2, <2>1
<1>6. Types'
  BY <1>1, <1>4 DEF VInv, Types
<1>7. Together'
  BY <1>1, <1>3, <1>4 DEF VInv, Together
<1>8. Paced'
  BY <1>1, <1>3, <1>4 DEF VInv, Paced
<1>9. Contents'
  BY <1>1, <1>4, <1>5 DEF VInv, Contents
<1>10. Tasks'
  BY <1>1, <1>4 DEF VInv, Tasks
<1>11. Buffers'
  BY <1>1, <1>4 DEF VInv, Buffers
<1>12. Wires'
  BY <1>1, <1>2, <1>4 DEF VInv, Wires
<1>13. Announced'
  BY <1>1, <1>4 DEF VInv, Announced
<1>14. Books'
  <2>1. \A s, d \in Rank : (Owes(s, d))' <=> Owes(s, d)
    BY <1>1, <1>4 DEF Owes, Sent
  <2>2. \A d \in Rank : {s \in Rank : (Owes(s, d))'} = {s \in Rank : Owes(s, d)}
    BY <2>1
  <2> SUFFICES ASSUME NEW d \in Rank
               PROVE  /\ pc'[d] \in {"pack", "post"} =>
                            \A s \in Rank : pc'[s] # "extract" =>
                                (counts[s][d] > 0 <=> (Owes(s, d))')
                      /\ pc'[d] = "receive" =>
                            due[d] = Cardinality({s \in Rank : (Owes(s, d))'})
                      /\ pc'[d] \in {"compact", "ready"} =>
                            \A s \in Rank : ~(Owes(s, d))'
    BY <1>1 DEF Books
  <2> QED
    BY <1>1, <1>3, <1>4, <2>1, <2>2 DEF VInv, Books
<1>15. Distinct' /\ Apart' /\ Somewhere'
  <2>1. \A s \in Rank : (Standing(s))' = Standing(s)
    BY <1>1, <1>4 DEF Standing
  <2> QED
    BY <1>1, <2>1, SamePlaces DEF VInv
<1> QED
  BY <1>6, <1>7, <1>8, <1>9, <1>10, <1>11, <1>12, <1>13, <1>14, <1>15 DEF VInv

-----------------------------------------------------------------------------
(***************************************************************************)
(* Steps that take elements out.                                           *)
(***************************************************************************)
LEMMA ElementsOf ==
    ASSUME Types, NEW r \in Rank
    PROVE  /\ els[r] \in Seq(Element)
           /\ DOMAIN els[r] = 1..Len(els[r]) /\ Len(els[r]) \in Nat
           /\ \A k \in DOMAIN els[r] : els[r][k] # Marked =>
                 els[r][k] \in Particle
<1>1. els[r] \in Seq(Element)
  BY DEF Types
<1> QED
  BY <1>1, LenProperties, ElementOfSeq DEF Element

LEMMA SameBooks ==
    ASSUME Books, counts' = counts, due' = due, pc' = pc,
           \A s, d \in Rank : (Owes(s, d))' <=> Owes(s, d)
    PROVE  Books'
<1>1. \A d \in Rank : {s \in Rank : (Owes(s, d))'} = {s \in Rank : Owes(s, d)}
  OBVIOUS
<1> SUFFICES ASSUME NEW d \in Rank
             PROVE  /\ pc[d] \in {"pack", "post"} =>
                          \A s \in Rank : pc[s] # "extract" =>
                              (counts[s][d] > 0 <=> (Owes(s, d))')
                    /\ pc[d] = "receive" =>
                          due[d] = Cardinality({s \in Rank : (Owes(s, d))'})
                    /\ pc[d] \in {"compact", "ready"} =>
                          \A s \in Rank : ~(Owes(s, d))'
  BY DEF Books
<1> QED
  BY <1>1 DEF Books

LEMMA CompactKeeps ==
    ASSUME VInv, NEW r \in Rank, Compact(r)
    PROVE  VInv'
<1> DEFINE out == els[r][i[r]] = Marked
<1>1. /\ pc[r] = "compact" /\ i[r] <= Len(els[r])
      /\ els' = [els EXCEPT ![r] = IF out THEN SwapOut(@, i[r]) ELSE @]
      /\ i' = [i EXCEPT ![r] = NextIndex(@, out)]
      /\ home' = home /\ todo' = todo /\ buf' = buf
      /\ counts' = counts
      /\ wire' = wire /\ due' = due /\ pc' = pc /\ mode' = mode /\ iter' = iter
  BY DEF Compact
<1>2. /\ els \in [Rank -> Seq(Element)] /\ i \in [Rank -> Nat \ {0}]
      /\ i[r] \in Nat /\ i[r] >= 1
      /\ DOMAIN els[r] = 1..Len(els[r]) /\ Len(els[r]) \in Nat
  <2>1. Types
    BY DEF VInv
  <2>2. els \in [Rank -> Seq(Element)] /\ i \in [Rank -> Nat \ {0}]
    BY <2>1 DEF Types
  <2>3. i[r] \in Nat /\ i[r] >= 1
    BY <2>2
  <2> QED
    BY <2>1, <2>2, <2>3, ElementsOf
<1>3. i[r] \in 1..Len(els[r])
  BY <1>1, <1>2
<1>4. /\ todo[r] = {}
      /\ \A s \in Rank : pc[s] # "drop"
      /\ \A s \in Rank : Standing(s) = DOMAIN els[s]
      /\ Alone(els[r], DOMAIN els[r])
  BY <1>1 DEF VInv, Tasks, Together, Standing, Distinct
<1>5. /\ els'[r] = IF out THEN SwapOut(els[r], i[r]) ELSE els[r]
      /\ i'[r] = IF out THEN i[r] ELSE i[r] + 1
      /\ \A s \in Rank : s # r => els'[s] = els[s] /\ i'[s] = i[s]
  BY <1>1, <1>2 DEF NextIndex
<1> DEFINE q == els[r]
           n == Len(els[r])
<1>6. /\ els'[r] \in Seq(Element)
      /\ \A k \in DOMAIN els'[r] :
            \/ k \in DOMAIN q /\ els'[r][k] = q[k] /\ (out => k # i[r])
            \/ k = i[r] /\ n \in DOMAIN q /\ els'[r][k] = q[n] /\ out
      /\ \A x \in Particle : x \in ToSet(els'[r]) <=> x \in ToSet(q)
      /\ Alone(els'[r], DOMAIN els'[r])
  <2>1. CASE out
    <3>1. /\ SwapOut(q, i[r]) \in Seq(Element)
          /\ DOMAIN SwapOut(q, i[r]) = 1..(n - 1)
          /\ \A l \in 1..(n - 1) :
                SwapOut(q, i[r])[l] = IF l = i[r] THEN q[n] ELSE q[l]
      BY <1>2, <1>3, SwapOutIs
    <3>2. /\ \A x \in Particle : x \in ToSet(SwapOut(q, i[r])) <=>
                                     x \in ToSet(q) /\ x # q[i[r]]
          /\ Alone(SwapOut(q, i[r]), DOMAIN SwapOut(q, i[r]))
      BY <1>2, <1>3, <1>4, SwapOutHolds
    <3>3. /\ \A l \in 1..(n - 1) : l \in 1..n
          /\ n \in 1..n
      BY <1>2, <1>3
    <3> QED
      BY <1>2, <1>5, <2>1, <3>1, <3>2, <3>3, NoMarks
  <2>2. CASE ~out
    BY <1>2, <1>4, <1>5, <2>2
  <2> QED
    BY <2>1, <2>2
<1>7. Types'
  <2>1. els' \in [Rank -> Seq(Element)]
    BY <1>1, <1>2, <1>5, <1>6
  <2>2. i' \in [Rank -> Nat \ {0}]
    BY <1>1, <1>2, <1>5
  <2> QED
    BY <1>1, <2>1, <2>2 DEF VInv, Types
<1>8. Together' /\ Paced'
  BY <1>1 DEF VInv, Together, Paced
<1>9. Contents'
  <2> SUFFICES ASSUME NEW s \in Rank, NEW k \in DOMAIN els'[s]
               PROVE  /\ els'[s][k] = Marked =>
                            /\ mode[s] = "balance"
                            /\ pc[s] \in {"pack", "post", "receive", "compact"}
                            /\ pc[s] = "compact" => i'[s] <= k
                      /\ els'[s][k] # Marked /\ home[els'[s][k]] # s =>
                            \/ pc[s] = "moved"
                            \/ mode[s] = "cells"
                            \/ pc[s] = "extract" /\ i'[s] <= k
                            \/ /\ pc[s] \in {"drop", "pack"}
                               /\ \E x \in todo[s] : x.lid = k
    BY <1>1 DEF Contents
  <2>1. CASE s = r
    <3>1. \A l \in DOMAIN q :
              /\ q[l] = Marked => mode[r] = "balance" /\ i[r] <= l
              /\ q[l] # Marked => home[q[l]] = r
      BY <1>1, <1>4 DEF VInv, Contents, Together
    <3>2. els'[r][k] # Marked => home[els'[r][k]] = r
      BY <1>6, <2>1, <3>1
    <3>3. ASSUME els'[r][k] = Marked PROVE mode[r] = "balance" /\ i'[r] <= k
      <4>1. k \in DOMAIN els'[r]
        BY <2>1
      <4>2. CASE k \in DOMAIN q /\ els'[r][k] = q[k] /\ (out => k # i[r])
        <5>1. mode[r] = "balance" /\ i[r] <= k /\ k \in 1..n
          BY <1>2, <3>1, <3>3, <4>2
        <5>2. CASE out
          BY <1>5, <5>1, <5>2
        <5>3. CASE ~out
          <6>1. k # i[r]
            BY <3>3, <4>2, <5>3
          <6> QED
            BY <1>2, <1>5, <5>1, <5>3, <6>1
        <5> QED
          BY <5>2, <5>3
      <4>3. CASE k = i[r] /\ n \in DOMAIN q /\ els'[r][k] = q[n] /\ out
        BY <1>2, <1>5, <3>1, <3>3, <4>3
      <4> QED
        BY <1>6, <4>1, <4>2, <4>3
    <3> QED
      BY <1>1, <2>1, <3>2, <3>3
  <2>2. CASE s # r
    <3>1. els'[s] = els[s] /\ i'[s] = i[s]
      BY <1>5, <2>2
    <3> QED
      BY <3>1 DEF VInv, Contents
  <2> QED
    BY <2>1, <2>2
<1>10. Tasks'
  BY <1>1, <1>4, <1>5 DEF VInv, Tasks
<1>11. Buffers' /\ Wires' /\ Announced'
  BY <1>1 DEF VInv, Buffers, Wires, Announced
<1>12. Books'
  BY <1>1, SameBooks DEF VInv, Owes, Sent
<1>13. Distinct'
  <2>1. \A s \in Rank : Alone(els'[s], DOMAIN els'[s])
    BY <1>4, <1>5, <1>6 DEF VInv, Distinct
  <2>2. \A s \in Rank : (Standing(s))' = DOMAIN els'[s]
    BY <1>1, <1>4 DEF Standing
  <2> QED
    BY <1>1, <2>1, <2>2 DEF VInv, Distinct
<1>14. Apart' /\ Somewhere'
  <2>1. \A x \in Particle, s \in Rank : (InVector(x, s))' <=> InVector(x, s)
    <3>1. \A x \in Particle, s \in Rank :
              /\ InVector(x, s) <=> x \in ToSet(els[s])
              /\ (InVector(x, s))' <=> x \in ToSet(els'[s])
      BY <1>1, <1>4 DEF InVector, Standing, ToSet
    <3> QED
      BY <1>5, <1>6, <3>1
  <2>2. \A x \in Particle, s \in Rank : (InBuffer(x, s))' <=> InBuffer(x, s)
    BY <1>1 DEF InBuffer
  <2> QED
    BY <1>1, <2>1, <2>2, SameRanks DEF VInv, Apart
<1> QED
  BY <1>7, <1>8, <1>9, <1>10, <1>11, <1>12, <1>13, <1>14 DEF VInv

LEMMA ExtractKeeps ==
    ASSUME VInv, NEW r \in Rank, Extract(r)
    PROVE  VInv'
<1> DEFINE q == els[r]
           n == Len(els[r])
           p == els[r][i[r]]
           leaves == home[p] # r
<1>1. /\ mode[r] # "cells" /\ pc[r] = "extract" /\ i[r] <= n
      /\ els' = [els EXCEPT ![r] = IF leaves THEN SwapOut(@, i[r]) ELSE @]
      /\ buf' = [buf EXCEPT ![r][home[p]] = IF leaves THEN Append(@, p) ELSE @]
      /\ i' = [i EXCEPT ![r] = NextIndex(@, leaves)]
      /\ home' = home /\ todo' = todo /\ counts' = counts
      /\ wire' = wire /\ due' = due /\ pc' = pc /\ mode' = mode /\ iter' = iter
  BY DEF Extract
<1>2. /\ els \in [Rank -> Seq(Element)] /\ i \in [Rank -> Nat \ {0}]
      /\ buf \in [Rank -> [Rank -> Seq(Particle)]]
      /\ home \in [Particle -> Rank]
  BY DEF VInv, Types
<1>3. /\ i[r] \in Nat /\ i[r] >= 1
      /\ q \in Seq(Element) /\ DOMAIN q = 1..n /\ n \in Nat
  <2>1. i[r] \in Nat /\ i[r] >= 1
    BY <1>2
  <2> QED
    BY <2>1, ElementsOf DEF VInv
<1>4. i[r] \in 1..n
  BY <1>1, <1>3
<1>5. p \in Particle /\ home[p] \in Rank
  <2>1. p # Marked
    BY <1>1, <1>3, <1>4 DEF VInv, Contents
  <2> QED
    BY <1>2, <1>3, <1>4, <2>1, ElementsOf DEF VInv
<1>6. todo[r] = {} /\ Standing(r) = DOMAIN q /\ Alone(q, DOMAIN q)
  BY <1>1 DEF VInv, Tasks, Standing, Distinct
<1>7. /\ els'[r] = IF leaves THEN SwapOut(q, i[r]) ELSE q
      /\ i'[r] = IF leaves THEN i[r] ELSE i[r] + 1
      /\ buf'[r] = [buf[r] EXCEPT ![home[p]] =
                       IF leaves THEN Append(@, p) ELSE @]
      /\ \A s \in Rank : s # r => els'[s] = els[s] /\ buf'[s] = buf[s]
                                  /\ i'[s] = i[s]
  BY <1>1, <1>2 DEF NextIndex
<1>8. InVector(p, r) /\ \A d \in Rank : p \notin ToSet(buf[r][d])
  <2>1. InVector(p, r)
    BY <1>3, <1>4, <1>6 DEF InVector
  <2> QED
    BY <1>5, <2>1 DEF VInv, Apart, InBuffer
<1>9. /\ els'[r] \in Seq(Element)
      /\ \A k \in DOMAIN els'[r] :
            \/ k \in DOMAIN q /\ els'[r][k] = q[k]
            \/ k = i[r] /\ n \in DOMAIN q /\ els'[r][k] = q[n] /\ leaves
      /\ \A x \in Particle :
            x \in ToSet(els'[r]) <=> x \in ToSet(q) /\ ~(leaves /\ x = p)
      /\ Alone(els'[r], DOMAIN els'[r])
  <2>1. CASE leaves
    <3>1. /\ SwapOut(q, i[r]) \in Seq(Element)
          /\ DOMAIN SwapOut(q, i[r]) = 1..(n - 1)
          /\ \A l \in 1..(n - 1) :
                SwapOut(q, i[r])[l] = IF l = i[r] THEN q[n] ELSE q[l]
      BY <1>3, <1>4, SwapOutIs
    <3>2. /\ \A x \in Particle : x \in ToSet(SwapOut(q, i[r])) <=>
                                     x \in ToSet(q) /\ x # p
          /\ Alone(SwapOut(q, i[r]), DOMAIN SwapOut(q, i[r]))
      BY <1>3, <1>4, <1>6, SwapOutHolds
    <3>3. /\ \A l \in 1..(n - 1) : l \in 1..n
          /\ n \in 1..n
      BY <1>3, <1>4
    <3> QED
      BY <1>3, <1>7, <2>1, <3>1, <3>2, <3>3
  <2>2. CASE ~leaves
    BY <1>3, <1>6, <1>7, <2>2
  <2> QED
    BY <2>1, <2>2
<1>10. \A d \in Rank :
          /\ buf'[r][d] \in Seq(Particle)
          /\ Alone(buf'[r][d], DOMAIN buf'[r][d])
          /\ \A x : x \in ToSet(buf'[r][d]) <=>
                        x \in ToSet(buf[r][d]) \/ (leaves /\ x = p /\ d = home[p])
          /\ buf'[r][d] # <<>> => buf[r][d] # <<>> \/ (leaves /\ d = home[p])
  <2> TAKE d \in Rank
  <2>1. buf[r][d] \in Seq(Particle) /\ Alone(buf[r][d], DOMAIN buf[r][d])
    BY DEF VInv, Types, Distinct
  <2>2. CASE leaves /\ d = home[p]
    <3>1. buf'[r][d] = Append(buf[r][d], p)
      BY <1>2, <1>7, <2>2
    <3>2. p \notin ToSet(buf[r][d])
      BY <1>8
    <3>3. LET out == Append(buf[r][d], p) IN
          /\ out \in Seq(Particle) /\ out # <<>>
          /\ \A x : x \in ToSet(out) <=> x \in ToSet(buf[r][d]) \/ x = p
          /\ Alone(out, DOMAIN out)
      BY <1>5, <2>1, <3>2, AppendHolds
    <3> HIDE DEF p, leaves
    <3> QED
      BY <2>2, <3>1, <3>3
  <2>3. CASE ~(leaves /\ d = home[p])
    <3>1. buf'[r][d] = buf[r][d]
      BY <1>2, <1>7, <2>3
    <3> QED
      BY <2>1, <2>3, <3>1
  <2> QED
    BY <2>2, <2>3
<1>11. Types'
  <2>1. els' \in [Rank -> Seq(Element)]
    BY <1>1, <1>2, <1>7, <1>9
  <2>2. i' \in [Rank -> Nat \ {0}]
    <3>1. i'[r] \in Nat \ {0}
      BY <1>3, <1>7
    <3> QED
      BY <1>1, <1>2, <1>7, <3>1
  <2>3. buf' \in [Rank -> [Rank -> Seq(Particle)]]
    <3>1. buf'[r] \in [Rank -> Seq(Particle)]
      BY <1>2, <1>7, <1>10
    <3> QED
      BY <1>1, <1>2, <1>7, <3>1
  <2> QED
    BY <1>1, <2>1, <2>2, <2>3 DEF VInv, Types
<1>12. Together' /\ Paced'
  BY <1>1 DEF VInv, Together, Paced
<1>13. Contents'
  <2> SUFFICES ASSUME NEW s \in Rank, NEW k \in DOMAIN els'[s]
               PROVE  /\ els'[s][k] = Marked =>
                            /\ mode[s] = "balance"
                            /\ pc[s] \in {"pack", "post", "receive", "compact"}
                            /\ pc[s] = "compact" => i'[s] <= k
                      /\ els'[s][k] # Marked /\ home[els'[s][k]] # s =>
                            \/ pc[s] = "moved"
                            \/ mode[s] = "cells"
                            \/ pc[s] = "extract" /\ i'[s] <= k
                            \/ /\ pc[s] \in {"drop", "pack"}
                               /\ \E x \in todo[s] : x.lid = k
    BY <1>1 DEF Contents
  <2>1. CASE s = r
    <3>1. \A l \in DOMAIN q : /\ q[l] # Marked
                              /\ home[q[l]] # r => i[r] <= l
      BY <1>1, <1>6 DEF VInv, Contents
    <3>2. els'[r][k] # Marked
      BY <1>9, <2>1, <3>1
    <3>3. ASSUME home[els'[r][k]] # r PROVE i'[r] <= k
      <4>1. k \in DOMAIN els'[r]
        BY <2>1
      <4>2. CASE k \in DOMAIN q /\ els'[r][k] = q[k]
        <5>1. i[r] <= k /\ k \in 1..n
          BY <1>3, <3>1, <3>3, <4>2
        <5>2. CASE leaves
          BY <1>7, <5>1, <5>2
        <5>3. CASE ~leaves
          <6>1. k # i[r]
            BY <3>3, <4>2, <5>3
          <6> QED
            BY <1>3, <1>7, <5>1, <5>3, <6>1
        <5> QED
          BY <5>2, <5>3
      <4>3. CASE k = i[r] /\ n \in DOMAIN q /\ els'[r][k] = q[n] /\ leaves
        BY <1>3, <1>7, <4>3
      <4> QED
        BY <1>9, <4>1, <4>2, <4>3
    <3> QED
      BY <1>1, <2>1, <3>2, <3>3
  <2>2. CASE s # r
    <3>1. els'[s] = els[s] /\ i'[s] = i[s]
      BY <1>7, <2>2
    <3> QED
      BY <3>1 DEF VInv, Contents
  <2> QED
    BY <2>1, <2>2
<1>14. Tasks'
  <2>1. todo' = todo /\ home' = home /\ pc' = pc
    BY <1>1
  <2>2. \A s \in Rank : s # r => els'[s] = els[s]
    BY <1>7
  <2> QED
    BY <1>6, <2>1, <2>2 DEF VInv, Tasks
<1>15. Buffers'
  <2> SUFFICES ASSUME NEW s \in Rank, NEW d \in Rank, buf'[s][d] # <<>>
               PROVE  /\ pc[s] \in {"extract", "drop", "pack", "post"}
                      /\ pc[s] = "extract" => mode[s] # "cells"
                      /\ d # s
                      /\ \A k \in DOMAIN buf'[s][d] : home[buf'[s][d][k]] = d
    <3>1. pc' = pc /\ mode' = mode /\ home' = home
      BY <1>1
    <3> QED
      BY <3>1, ZenonT(60) DEF Buffers
  <2>1. CASE s = r
    <3>1. d # r
      BY <1>10, <2>1 DEF VInv, Buffers
    <3>2. \A x \in ToSet(buf[r][d]) : home[x] = d
      <4>1. ASSUME buf[r][d] = <<>> PROVE ToSet(buf[r][d]) = {}
        BY <4>1 DEF ToSet
      <4> QED
        BY <4>1 DEF VInv, Buffers, ToSet
    <3>3. \A x \in ToSet(buf'[r][d]) : home[x] = d
      BY <1>10, <3>2
    <3>4. \A k \in DOMAIN buf'[r][d] : home[buf'[r][d][k]] = d
      BY <3>3 DEF ToSet
    <3> QED
      BY <1>1, <2>1, <3>1, <3>4
  <2>2. CASE s # r
    <3>1. buf'[s] = buf[s]
      BY <1>7, <2>2
    <3> QED
      BY <3>1 DEF VInv, Buffers
  <2> QED
    BY <2>1, <2>2
<1>16. Wires'
  BY <1>1 DEF VInv, Wires
<1>17. Announced'
  <2>1. pc' = pc /\ counts' = counts /\ todo' = todo /\ home' = home
    BY <1>1
  <2> SUFFICES ASSUME NEW s \in Rank, NEW d \in Rank,
                      pc[s] \in {"pack", "post"}
               PROVE  counts[s][d] > 0 <=>
                         \/ buf'[s][d] # <<>>
                         \/ \E x \in todo[s] : home[x.gid] = d
    BY <2>1 DEF Announced
  <2>2. s # r
    BY <1>1
  <2>3. buf'[s] = buf[s]
    BY <1>7, <2>2
  <2> QED
    BY <2>3 DEF VInv, Announced
<1>18. Books'
  BY <1>1, SameBooks DEF VInv, Owes, Sent
<1>19. \A s \in Rank : s # r => (Standing(s))' = Standing(s)
  BY <1>1, <1>7 DEF Standing
<1>20. (Standing(r))' = DOMAIN els'[r]
  BY <1>1 DEF Standing
<1>21. Distinct'
  <2>1. \A s \in Rank : Alone(els'[s], (Standing(s))')
    <3>1. Alone(els'[r], (Standing(r))')
      BY <1>9, <1>20
    <3>2. ASSUME NEW s \in Rank, s # r PROVE Alone(els'[s], (Standing(s))')
      <4>1. Alone(els[s], Standing(s))
        BY DEF VInv, Distinct
      <4>2. els'[s] = els[s] /\ (Standing(s))' = Standing(s)
        BY <1>7, <1>19, <3>2
      <4> QED
        BY <4>1, <4>2
    <3> QED
      BY <3>1, <3>2
  <2>2. \A s, d \in Rank : Alone(buf'[s][d], DOMAIN buf'[s][d])
    BY <1>7, <1>10 DEF VInv, Distinct
  <2> QED
    BY <1>1, <2>1, <2>2 DEF VInv, Distinct
<1>22. Apart' /\ Somewhere'
  <2>1. \A x \in Particle, s \in Rank : s # r =>
            /\ (InVector(x, s))' <=> InVector(x, s)
            /\ (InBuffer(x, s))' <=> InBuffer(x, s)
    BY <1>7, <1>19 DEF InVector, InBuffer
  <2>2. \A x \in Particle :
            /\ InVector(x, r) <=> x \in ToSet(q)
            /\ (InVector(x, r))' <=> x \in ToSet(q) /\ ~(leaves /\ x = p)
    <3>1. \A x \in Particle : /\ InVector(x, r) <=> x \in ToSet(q)
                              /\ (InVector(x, r))' <=> x \in ToSet(els'[r])
      BY <1>6, <1>20 DEF InVector, ToSet
    <3> QED
      BY <1>9, <3>1
  <2>3. \A x \in Particle :
            (InBuffer(x, r))' <=> InBuffer(x, r) \/ (leaves /\ x = p)
    BY <1>5, <1>10 DEF InBuffer
  <2>4. p \in ToSet(q) /\ ~InBuffer(p, r)
    BY <1>5, <1>8, <2>2 DEF InBuffer
  <2>5. \A x \in Particle : ~(InVector(x, r) /\ InBuffer(x, r))
    BY DEF VInv, Apart
  <2> HIDE DEF q, p, leaves
  <2>6. \A x \in Particle :
            /\ (InVector(x, r) \/ InBuffer(x, r))' <=>
                   InVector(x, r) \/ InBuffer(x, r)
            /\ ~(InVector(x, r) /\ InBuffer(x, r))'
    BY <2>2, <2>3, <2>4, <2>5
  <2> QED
    BY <1>1, <2>1, <2>6, SameRanks DEF VInv
<1> QED
  BY <1>11, <1>12, <1>13, <1>14, <1>15, <1>16, <1>17, <1>18, <1>21, <1>22
  DEF VInv

LEMMA CollectKeeps ==
    ASSUME VInv, NEW r \in Rank, Collect(r)
    PROVE  VInv'
<1>1. /\ mode[r] = "cells" /\ pc[r] = "extract"
      /\ pc' = [pc EXCEPT ![r] = "drop"]
      /\ els' = els /\ home' = home /\ counts' = counts
      /\ wire' = wire /\ due' = due /\ i' = i /\ mode' = mode /\ iter' = iter
  BY DEF Collect
<1>1a. PICK seen \in SUBSET UNION {Leavers(r, d) : d \in Rank} :
          /\ todo' = [todo EXCEPT ![r] =
                         {x \in Exports(els[r], home, r) : x.gid \in seen}]
          /\ \E b \in [Rank -> UNION {SetToSeqs(Leavers(r, d) \cap seen) :
                                        d \in Rank}] :
                /\ \A d \in Rank : b[d] \in SetToSeqs(Leavers(r, d) \cap seen)
                /\ buf' = [buf EXCEPT ![r] = b]
  BY DEF Collect
<1>2. PICK b \in [Rank -> UNION {SetToSeqs(Leavers(r, d) \cap seen) :
                                    d \in Rank}] :
          /\ \A d \in Rank : b[d] \in SetToSeqs(Leavers(r, d) \cap seen)
          /\ buf' = [buf EXCEPT ![r] = b]
  BY <1>1a
<1>3. /\ pc \in [Rank -> Stages] /\ home \in [Particle -> Rank]
      /\ todo \in [Rank -> SUBSET [gid : Particle, lid : Nat]]
      /\ buf \in [Rank -> [Rank -> Seq(Particle)]]
      /\ \A m \in wire : m.from \in Rank /\ m.to \in Rank
  BY DEF VInv, Types
<1>4. \A s \in Rank : pc[s] \in {"extract", "drop"} /\ mode[s] = "cells"
  BY <1>1 DEF VInv, Together
<1>5. /\ \A s \in Rank : pc'[s] = IF s = r THEN "drop" ELSE pc[s]
      /\ \A s \in Rank : s # r => buf'[s] = buf[s] /\ todo'[s] = todo[s]
      /\ todo'[r] = {x \in Exports(els[r], home, r) : x.gid \in seen}
      /\ buf'[r] = b
  BY <1>1, <1>1a, <1>2, <1>3
<1>6. \A k \in DOMAIN els[r] : els[r][k] \in Particle /\ k \in Nat
  <2>1. \A k \in DOMAIN els[r] : els[r][k] # Marked
    BY <1>1 DEF VInv, Contents
  <2> QED
    BY <2>1, ElementsOf DEF VInv
<1>7. /\ \A x \in todo'[r] : /\ x \in [gid : Particle, lid : Nat]
                             /\ x.lid \in DOMAIN els[r]
                             /\ els[r][x.lid] = x.gid
                             /\ home[x.gid] # r
      /\ \A k \in DOMAIN els[r] :
            home[els[r][k]] # r /\ els[r][k] \in seen =>
                \E x \in todo'[r] : x.lid = k
      /\ \A x \in todo'[r] : x.gid \in seen
  <2>1. todo'[r] = {x \in {[gid |-> els[r][l], lid |-> l] :
                            l \in {k \in DOMAIN els[r] : home[els[r][k]] # r}} :
                      x.gid \in seen}
    BY <1>5 DEF Exports
  <2>2. \A x \in todo'[r] : /\ x \in [gid : Particle, lid : Nat]
                            /\ x.lid \in DOMAIN els[r]
                            /\ els[r][x.lid] = x.gid
                            /\ home[x.gid] # r
    BY <1>6, <2>1
  <2>3. ASSUME NEW k \in DOMAIN els[r], home[els[r][k]] # r,
               els[r][k] \in seen
        PROVE  \E x \in todo'[r] : x.lid = k
    <3>1. [gid |-> els[r][k], lid |-> k] \in todo'[r]
      BY <2>1, <2>3
    <3> QED
      BY <3>1
  <2>4. \A x \in todo'[r] : x.gid \in seen
    BY <2>1
  <2> QED
    BY <2>2, <2>3, <2>4
<1>8. \A d \in Rank :
          /\ b[d] \in Seq(Particle)
          /\ Alone(b[d], DOMAIN b[d])
          /\ \A x : x \in ToSet(b[d]) <=> /\ x \in ToSet(els[r]) /\ x \in seen
                                           /\ home[x] = d /\ d # r
  <2> TAKE d \in Rank
  <2> DEFINE found == Leavers(r, d) \cap seen
  <2>1. found \subseteq Particle
    BY <1>6 DEF Leavers, ToSet
  <2>2. IsFiniteSet(found)
    BY <2>1, FiniteAssumption, FS_Subset
  <2>3. /\ b[d] \in Seq(found) /\ ToSet(b[d]) = found
        /\ Alone(b[d], DOMAIN b[d])
    BY <1>2, <2>2, InOrder
  <2>4. b[d] \in Seq(Particle)
    BY <2>1, <2>3, SeqMonotonic
  <2>5. \A x : x \in found <=> /\ x \in ToSet(els[r]) /\ x \in seen
                               /\ home[x] = d /\ d # r
    BY DEF Leavers
  <2> QED
    BY <2>3, <2>4, <2>5
<1>9. \A d \in Rank : \A k \in DOMAIN b[d] : home[b[d][k]] = d /\ d # r
  BY <1>8 DEF ToSet
<1>10. Types'
  <2>1. todo' \in [Rank -> SUBSET [gid : Particle, lid : Nat]]
    <3>1. todo'[r] \in SUBSET [gid : Particle, lid : Nat]
      BY <1>7
    <3> QED
      BY <1>1a, <1>3, <1>5, <3>1
  <2>2. b \in [Rank -> Seq(Particle)]
    BY <1>2, <1>8
  <2>3. buf' \in [Rank -> [Rank -> Seq(Particle)]]
    BY <1>2, <1>3, <2>2
  <2>4. pc' \in [Rank -> Stages]
    BY <1>1, <1>3 DEF Stages
  <2> QED
    BY <1>1, <2>1, <2>3, <2>4 DEF VInv, Types
<1>11. Together'
  BY <1>1, <1>4, <1>5 DEF Together
<1>12. Paced'
  BY <1>1, <1>4, <1>5 DEF VInv, Paced
<1>13. Contents'
  <2> SUFFICES ASSUME NEW s \in Rank, NEW k \in DOMAIN els[s]
               PROVE  els[s][k] # Marked
    BY <1>1, <1>4 DEF Contents
  <2> QED
    BY <1>4 DEF VInv, Contents
<1>14. Tasks'
  <2> SUFFICES ASSUME NEW s \in Rank, NEW x \in todo'[s]
               PROVE  /\ x.lid \in DOMAIN els[s] /\ els[s][x.lid] = x.gid
                      /\ home[x.gid] # s
                      /\ pc'[s] \in {"drop", "pack"}
    BY <1>1 DEF Tasks
  <2>1. CASE s = r
    BY <1>5, <1>7, <2>1
  <2>2. CASE s # r
    BY <1>5, <2>2 DEF VInv, Tasks
  <2> QED
    BY <2>1, <2>2
<1>15. Buffers'
  <2> SUFFICES ASSUME NEW s \in Rank, NEW d \in Rank, buf'[s][d] # <<>>
               PROVE  /\ pc'[s] \in {"extract", "drop", "pack", "post"}
                      /\ pc'[s] = "extract" => mode[s] # "cells"
                      /\ d # s
                      /\ \A k \in DOMAIN buf'[s][d] : home[buf'[s][d][k]] = d
    BY <1>1 DEF Buffers
  <2>1. CASE s = r
    <3>1. buf'[s][d] = b[d] /\ pc'[s] = "drop"
      BY <1>5, <2>1
    <3>2. 1 \in DOMAIN b[d]
      <4>1. b[d] \in Seq(Particle) /\ b[d] # <<>>
        BY <1>8, <3>1
      <4>2. Len(b[d]) \in Nat /\ Len(b[d]) > 0 /\ DOMAIN b[d] = 1..Len(b[d])
        BY <4>1, LenProperties, EmptySeq
      <4> QED
        BY <4>2
    <3> QED
      BY <1>9, <2>1, <3>1, <3>2
  <2>2. CASE s # r
    <3>1. buf'[s] = buf[s] /\ pc'[s] = pc[s]
      BY <1>5, <2>2
    <3> QED
      BY <3>1 DEF VInv, Buffers
  <2> QED
    BY <2>1, <2>2
<1>16. Wires'
  BY <1>1, <1>3, <1>4 DEF VInv, Wires
<1>17. Announced' /\ Books'
  <2>1. \A s \in Rank : pc'[s] \in {"extract", "drop"}
    BY <1>4, <1>5
  <2> QED
    BY <2>1 DEF Announced, Books
<1>18. \A s \in Rank : s # r => (Standing(s))' = Standing(s)
  BY <1>1, <1>5 DEF Standing
<1>19. /\ Standing(r) = DOMAIN els[r]
       /\ \A k : k \in (Standing(r))' <=>
                     /\ k \in DOMAIN els[r]
                     /\ ~(els[r][k] \in seen /\ home[els[r][k]] # r)
  <2>1. (Standing(r))' = DOMAIN els[r] \ {x.lid : x \in todo'[r]}
    BY <1>1, <1>5 DEF Standing
  <2>2. ASSUME NEW k \in DOMAIN els[r]
        PROVE  k \in {x.lid : x \in todo'[r]} <=>
                   els[r][k] \in seen /\ home[els[r][k]] # r
    BY <1>7
  <2>3. Standing(r) = DOMAIN els[r]
    BY <1>1 DEF Standing
  <2> QED
    BY <2>1, <2>2, <2>3
<1>20. Distinct'
  <2>1. \A s \in Rank : Alone(els[s], (Standing(s))')
    <3>1. Alone(els[r], (Standing(r))')
      BY <1>19 DEF VInv, Distinct, Alone
    <3> QED
      BY <1>18, <3>1 DEF VInv, Distinct
  <2>2. \A s, d \in Rank : Alone(buf'[s][d], DOMAIN buf'[s][d])
    BY <1>5, <1>8 DEF VInv, Distinct
  <2> QED
    BY <1>1, <2>1, <2>2 DEF VInv, Distinct
<1>21. Apart' /\ Somewhere'
  <2>1. \A x \in Particle, s \in Rank : s # r =>
            /\ (InVector(x, s))' <=> InVector(x, s)
            /\ (InBuffer(x, s))' <=> InBuffer(x, s)
    BY <1>1, <1>5, <1>18 DEF InVector, InBuffer
  <2>2. \A x \in Particle :
            /\ InVector(x, r) <=> x \in ToSet(els[r])
            /\ (InVector(x, r))' <=> /\ x \in ToSet(els[r])
                                     /\ ~(x \in seen /\ home[x] # r)
    BY <1>1, <1>19 DEF InVector, ToSet
  <2>3. \A x \in Particle :
            (InBuffer(x, r))' <=> /\ x \in ToSet(els[r])
                                  /\ x \in seen /\ home[x] # r
    BY <1>3, <1>5, <1>8 DEF InBuffer
  <2>4. \A x \in Particle : ~InBuffer(x, r)
    <3>1. \A d \in Rank : buf[r][d] = <<>>
      BY <1>1 DEF VInv, Buffers
    <3>2. \A x : x \notin ToSet(<<>>)
      BY DEF ToSet
    <3> QED
      BY <3>1, <3>2 DEF InBuffer
  <2>5. \A x \in Particle :
            /\ (InVector(x, r) \/ InBuffer(x, r))' <=>
                   InVector(x, r) \/ InBuffer(x, r)
            /\ ~(InVector(x, r) /\ InBuffer(x, r))'
    BY <2>2, <2>3, <2>4
  <2> QED
    BY <1>1, <2>1, <2>5, SameRanks DEF VInv
<1> QED
  BY <1>10, <1>11, <1>12, <1>13, <1>14, <1>15, <1>16, <1>17, <1>20, <1>21
  DEF VInv

LEMMA DropKeeps ==
    ASSUME VInv, NEW r \in Rank, Drop(r)
    PROVE  VInv'
<1> DEFINE q == els[r]
           n == Len(els[r])
<1>1. PICK x \in todo[r] :
          /\ IsNext(x, todo[r])
          /\ els' = [els EXCEPT ![r] = SwapOut(@, x.lid)]
          /\ todo' = [todo EXCEPT ![r] = @ \ {x}]
  BY DEF Drop
<1>2. /\ pc[r] = "drop"
      /\ home' = home /\ counts' = counts /\ buf' = buf
      /\ wire' = wire /\ due' = due /\ i' = i /\ mode' = mode /\ iter' = iter
      /\ pc' = pc
  BY DEF Drop
<1>3. /\ els \in [Rank -> Seq(Element)]
      /\ todo \in [Rank -> SUBSET [gid : Particle, lid : Nat]]
      /\ q \in Seq(Element) /\ DOMAIN q = 1..n /\ n \in Nat
  <2>1. /\ els \in [Rank -> Seq(Element)]
        /\ todo \in [Rank -> SUBSET [gid : Particle, lid : Nat]]
    BY DEF VInv, Types
  <2> QED
    BY <2>1, ElementsOf DEF VInv
<1>4. \A y \in todo[r] : /\ y.lid \in 1..n /\ q[y.lid] = y.gid
                         /\ y.lid <= x.lid
                         /\ y.lid = x.lid => y = x
  <2>1. \A y \in todo[r] : y.lid \in 1..n /\ q[y.lid] = y.gid /\ y.lid <= x.lid
    BY <1>1, <1>3 DEF IsNext, VInv, Tasks
  <2>2. \A y \in todo[r] : y \in [gid : Particle, lid : Nat]
    BY <1>3
  <2>3. \A y \in todo[r] : y.lid = x.lid => y.gid = x.gid
    BY <2>1
  <2> QED
    BY <2>1, <2>2, <2>3
<1>5. /\ els'[r] = SwapOut(q, x.lid)
      /\ todo'[r] = todo[r] \ {x}
      /\ \A s \in Rank : s # r => els'[s] = els[s] /\ todo'[s] = todo[s]
  BY <1>1, <1>3
<1>6. /\ els'[r] \in Seq(Element) /\ DOMAIN els'[r] = 1..(n - 1)
      /\ \A l \in 1..(n - 1) :
            els'[r][l] = IF l = x.lid THEN q[n] ELSE q[l]
  BY <1>3, <1>4, <1>5, SwapOutIs
<1> DEFINE lids == {y.lid : y \in todo[r]}
<1>7. /\ Standing(r) = 1..n \ lids
      /\ (Standing(r))' = 1..(n - 1) \ {y.lid : y \in todo[r] \ {x}}
  BY <1>2, <1>3, <1>5, <1>6 DEF Standing
<1>8. \A l : l \in (Standing(r))' <=>
          l \in 1..(n - 1) /\ (l = x.lid \/ l \notin lids)
  <2>1. \A l : l \in {y.lid : y \in todo[r] \ {x}} <=> l \in lids /\ l # x.lid
    BY <1>4
  <2> QED
    BY <1>7, <2>1
<1>9. x.lid \in 1..n /\ x.lid \in lids /\ \A l \in lids : l \in 1..n /\ l <= x.lid
  BY <1>4
<1>10. ASSUME NEW l \in (Standing(r))'
       PROVE  \/ l # x.lid /\ l \in Standing(r) /\ els'[r][l] = q[l] /\ l # n
              \/ l = x.lid /\ n \in Standing(r) /\ els'[r][l] = q[n]
  <2> HIDE DEF lids
  <2>1. l \in 1..(n - 1) /\ (l = x.lid \/ l \notin lids)
    BY <1>8
  <2>2. l \in 1..n /\ l # n
    <3>1. n \in Nat
      BY <1>3
    <3> HIDE DEF n
    <3> QED
      BY <2>1, <3>1
  <2>3. CASE l = x.lid
    <3>1. n \notin lids /\ n \in 1..n
      BY <1>3, <1>9, <2>1, <2>3
    <3> QED
      BY <1>6, <1>7, <2>1, <2>3, <3>1 DEF lids
  <2>4. CASE l # x.lid
    BY <1>6, <1>7, <2>1, <2>2, <2>4 DEF lids
  <2> QED
    BY <2>3, <2>4
<1>11. \A y \in Element : (\E l \in (Standing(r))' : els'[r][l] = y) <=>
                          (\E l \in Standing(r) : q[l] = y)
  <2> TAKE y \in Element
  <2>1. ASSUME NEW l \in (Standing(r))', els'[r][l] = y
        PROVE  \E j \in Standing(r) : q[j] = y
    BY <1>10, <2>1
  <2>2. ASSUME NEW l \in Standing(r), q[l] = y
        PROVE  \E j \in (Standing(r))' : els'[r][j] = y
    <3>1. l \in 1..n /\ l \notin lids /\ l # x.lid
      BY <1>7, <1>9
    <3> HIDE DEF lids
    <3>2. CASE l = n
      <4>1. x.lid \in 1..(n - 1)
        BY <1>3, <1>9, <3>1, <3>2
      <4>2. x.lid \in (Standing(r))' /\ els'[r][x.lid] = y
        BY <1>6, <1>8, <2>2, <3>2, <4>1
      <4> QED
        BY <4>2
    <3>3. CASE l # n
      <4>1. l \in 1..(n - 1)
        <5>1. n \in Nat /\ l \in 1..n
          BY <1>3, <3>1
        <5> HIDE DEF n
        <5> QED
          BY <3>3, <5>1
      <4>2. l \in (Standing(r))' /\ els'[r][l] = y
        BY <1>6, <1>8, <2>2, <3>1, <4>1
      <4> QED
        BY <4>2
    <3> QED
      BY <3>2, <3>3
  <2> QED
    BY <2>1, <2>2
<1>12. Alone(els'[r], (Standing(r))')
  <2>1. Alone(q, Standing(r))
    BY DEF VInv, Distinct
  <2> SUFFICES ASSUME NEW j \in (Standing(r))', NEW l \in (Standing(r))',
                      els'[r][j] = els'[r][l], els'[r][j] # Marked
               PROVE  j = l
    BY DEF Alone
  <2>2. /\ \/ j # x.lid /\ j \in Standing(r) /\ els'[r][j] = q[j] /\ j # n
           \/ j = x.lid /\ n \in Standing(r) /\ els'[r][j] = q[n]
        /\ \/ l # x.lid /\ l \in Standing(r) /\ els'[r][l] = q[l] /\ l # n
           \/ l = x.lid /\ n \in Standing(r) /\ els'[r][l] = q[n]
    BY <1>10
  <2> QED
    BY <2>1, <2>2 DEF Alone
<1>13. Types'
  BY <1>1, <1>2, <1>3, <1>5, <1>6 DEF VInv, Types
<1>14. Together' /\ Paced'
  BY <1>2 DEF VInv, Together, Paced
<1>15. Contents'
  <2> SUFFICES ASSUME NEW s \in Rank, NEW k \in DOMAIN els'[s]
               PROVE  /\ els'[s][k] = Marked =>
                            /\ mode[s] = "balance"
                            /\ pc[s] \in {"pack", "post", "receive", "compact"}
                            /\ pc[s] = "compact" => i[s] <= k
                      /\ els'[s][k] # Marked /\ home[els'[s][k]] # s =>
                            \/ pc[s] = "moved"
                            \/ mode[s] = "cells"
                            \/ pc[s] = "extract" /\ i[s] <= k
                            \/ /\ pc[s] \in {"drop", "pack"}
                               /\ \E y \in todo'[s] : y.lid = k
    BY <1>2 DEF Contents
  <2>1. CASE s = r
    <3>1. \A l \in 1..n : /\ q[l] # Marked
                          /\ home[q[l]] # r /\ mode[r] # "cells" =>
                                \E y \in todo[r] : y.lid = l
      BY <1>2, <1>3 DEF VInv, Contents
    <3>2. k \in 1..(n - 1) /\ k \in 1..n /\ n \in 1..n
      BY <1>3, <1>6, <2>1
    <3>3. els'[s][k] = IF k = x.lid THEN q[n] ELSE q[k]
      BY <1>6, <2>1, <3>2
    <3>4. els'[s][k] # Marked
      BY <3>1, <3>2, <3>3
    <3>5. ASSUME home[els'[s][k]] # s, mode[s] # "cells"
          PROVE  \E y \in todo'[s] : y.lid = k
      <4>1. CASE k = x.lid
        <5>1. PICK y \in todo[r] : y.lid = n
          BY <2>1, <3>1, <3>2, <3>3, <3>5, <4>1
        <5>2. n <= x.lid
          BY <1>4, <5>1
        <5> QED
          BY <1>3, <3>2, <4>1, <5>2
      <4>2. CASE k # x.lid
        <5>1. PICK y \in todo[r] : y.lid = k
          BY <2>1, <3>1, <3>2, <3>3, <3>5, <4>2
        <5> QED
          BY <1>5, <2>1, <4>2, <5>1
      <4> QED
        BY <4>1, <4>2
    <3> QED
      BY <1>2, <2>1, <3>4, <3>5
  <2>2. CASE s # r
    <3>1. els'[s] = els[s] /\ todo'[s] = todo[s]
      BY <1>5, <2>2
    <3> QED
      BY <3>1 DEF VInv, Contents
  <2> QED
    BY <2>1, <2>2
<1>16. Tasks'
  <2> SUFFICES ASSUME NEW s \in Rank, NEW y \in todo'[s]
               PROVE  /\ y.lid \in DOMAIN els'[s] /\ els'[s][y.lid] = y.gid
                      /\ home[y.gid] # s
                      /\ pc[s] \in {"drop", "pack"}
    BY <1>2 DEF Tasks
  <2>1. CASE s = r
    <3>1. y \in todo[r] /\ y # x
      BY <1>5, <2>1
    <3>2. y.lid \in 1..n /\ y.lid <= x.lid /\ y.lid # x.lid /\ q[y.lid] = y.gid
      BY <1>4, <3>1
    <3>3. y.lid \in 1..(n - 1)
      BY <1>3, <1>9, <3>2
    <3>4. home[y.gid] # r
      BY <3>1 DEF VInv, Tasks
    <3> QED
      BY <1>2, <1>6, <2>1, <3>2, <3>3, <3>4
  <2>2. CASE s # r
    BY <1>5, <2>2 DEF VInv, Tasks
  <2> QED
    BY <2>1, <2>2
<1>17. Buffers' /\ Wires'
  BY <1>2 DEF VInv, Buffers, Wires
<1>18. Announced'
  <2>1. \A s \in Rank : pc[s] \in {"pack", "post"} => todo'[s] = todo[s]
    BY <1>2, <1>5
  <2> QED
    BY <1>2, <2>1 DEF VInv, Announced
<1>19. Books'
  BY <1>2, SameBooks DEF VInv, Owes, Sent
<1>20. \A s \in Rank : s # r => (Standing(s))' = Standing(s)
  BY <1>2, <1>5 DEF Standing
<1>21. Distinct'
  <2>1. \A s \in Rank : Alone(els'[s], (Standing(s))')
    BY <1>5, <1>12, <1>20 DEF VInv, Distinct
  <2> QED
    BY <1>2, <2>1 DEF VInv, Distinct
<1>22. Apart' /\ Somewhere'
  <2>1. \A y \in Particle, s \in Rank : (InVector(y, s))' <=> InVector(y, s)
    <3>1. \A y \in Particle : (InVector(y, r))' <=> InVector(y, r)
      BY <1>11 DEF InVector, Element
    <3> QED
      BY <1>5, <1>20, <3>1 DEF InVector
  <2>2. \A y \in Particle, s \in Rank : (InBuffer(y, s))' <=> InBuffer(y, s)
    BY <1>2 DEF InBuffer
  <2>3. \A y \in Particle, s \in Rank : ~(InVector(y, s) /\ InBuffer(y, s))
    BY DEF VInv, Apart
  <2> QED
    BY <1>2, <2>1, <2>2, <2>3, SameRanks DEF VInv
<1> QED
  BY <1>13, <1>14, <1>15, <1>16, <1>17, <1>18, <1>19, <1>21, <1>22 DEF VInv

-----------------------------------------------------------------------------
(***************************************************************************)
(* Packing, sending and receiving.                                         *)
(***************************************************************************)
LEMMA PackKeeps ==
    ASSUME VInv, NEW r \in Rank, Pack(r)
    PROVE  VInv'
<1> DEFINE q == els[r]
           n == Len(els[r])
<1>1. PICK x \in todo[r] :
          /\ buf' = [buf EXCEPT ![r][home[x.gid]] = Append(@, q[x.lid])]
          /\ els' = [els EXCEPT ![r] = [@ EXCEPT ![x.lid] = Marked]]
          /\ todo' = [todo EXCEPT ![r] = @ \ {x}]
  BY DEF Pack, Packed
<1>2. /\ pc[r] = "pack"
      /\ home' = home /\ counts' = counts
      /\ wire' = wire /\ due' = due /\ i' = i /\ mode' = mode /\ iter' = iter
      /\ pc' = pc
  BY DEF Pack
<1>3. /\ els \in [Rank -> Seq(Element)]
      /\ todo \in [Rank -> SUBSET [gid : Particle, lid : Nat]]
      /\ buf \in [Rank -> [Rank -> Seq(Particle)]]
      /\ home \in [Particle -> Rank]
  BY DEF VInv, Types
<1>4. q \in Seq(Element) /\ DOMAIN q = 1..n /\ n \in Nat
  BY ElementsOf DEF VInv
<1>5. mode[r] = "balance" /\ Standing(r) = DOMAIN q /\ Alone(q, DOMAIN q)
  BY <1>2 DEF VInv, Together, Standing, Distinct
<1> DEFINE p == x.gid
<1>6. p \in Particle /\ home[p] \in Rank /\ home[p] # r
      /\ x.lid \in 1..n /\ q[x.lid] = p
  <2>1. p \in Particle
    BY <1>3
  <2> QED
    BY <1>3, <1>4, <2>1 DEF VInv, Tasks
<1>7. \A y \in todo[r] : /\ y.lid \in 1..n /\ q[y.lid] = y.gid
                         /\ y.lid = x.lid => y = x
  <2>1. \A y \in todo[r] : y.lid \in 1..n /\ q[y.lid] = y.gid
    BY <1>4 DEF VInv, Tasks
  <2>2. \A y \in todo[r] : y \in [gid : Particle, lid : Nat]
    BY <1>3
  <2>3. \A y \in todo[r] : y.lid = x.lid => y.gid = x.gid
    BY <2>1
  <2> QED
    BY <2>1, <2>2, <2>3
<1>8. /\ els'[r] = [q EXCEPT ![x.lid] = Marked]
      /\ todo'[r] = todo[r] \ {x}
      /\ \A d \in Rank : buf'[r][d] = IF d = home[p] THEN Append(buf[r][d], p)
                                      ELSE buf[r][d]
      /\ \A s \in Rank : s # r => els'[s] = els[s] /\ todo'[s] = todo[s]
                                  /\ buf'[s] = buf[s]
  BY <1>1, <1>3, <1>6
<1>9. /\ els'[r] \in Seq(Element) /\ DOMAIN els'[r] = 1..n
      /\ \A l \in 1..n : els'[r][l] = IF l = x.lid THEN Marked ELSE q[l]
  <2>1. Marked \in Element
    BY DEF Element
  <2> QED
    BY <1>4, <1>6, <1>8, <2>1, ExceptSeq, LenProperties
<1>10. /\ InVector(p, r)
       /\ \A d \in Rank : p \notin ToSet(buf[r][d])
  <2>1. InVector(p, r)
    BY <1>4, <1>5, <1>6 DEF InVector
  <2> QED
    BY <1>6, <2>1 DEF VInv, Apart, InBuffer
<1>11. /\ Alone(els'[r], DOMAIN els'[r])
       /\ \A y \in Particle :
             y \in ToSet(els'[r]) <=> y \in ToSet(q) /\ y # p
  <2>1. \A j, l \in 1..n : q[j] = q[l] /\ q[j] # Marked => j = l
    BY <1>4, <1>5 DEF Alone
  <2>2. Alone(els'[r], DOMAIN els'[r])
    BY <1>9, <2>1 DEF Alone
  <2>3. p # Marked
    BY <1>6, NoMarks
  <2>4. ASSUME NEW y \in Particle
        PROVE  y \in ToSet(els'[r]) <=> y \in ToSet(q) /\ y # p
    <3>1. y # Marked
      BY NoMarks
    <3>2. ASSUME NEW l \in 1..n, els'[r][l] = y
          PROVE  q[l] = y /\ y # p
      BY <1>6, <1>9, <2>1, <2>3, <3>1, <3>2
    <3>3. ASSUME NEW l \in 1..n, q[l] = y, y # p
          PROVE  els'[r][l] = y
      BY <1>6, <1>9, <3>3
    <3> QED
      BY <1>4, <1>9, <3>2, <3>3 DEF ToSet
  <2> QED
    BY <2>2, <2>4
<1>12. \A d \in Rank :
          /\ buf'[r][d] \in Seq(Particle)
          /\ Alone(buf'[r][d], DOMAIN buf'[r][d])
          /\ \A y : y \in ToSet(buf'[r][d]) <=>
                        y \in ToSet(buf[r][d]) \/ (y = p /\ d = home[p])
          /\ buf'[r][d] # <<>> <=> buf[r][d] # <<>> \/ d = home[p]
  <2> TAKE d \in Rank
  <2>1. buf[r][d] \in Seq(Particle) /\ Alone(buf[r][d], DOMAIN buf[r][d])
    BY DEF VInv, Types, Distinct
  <2>2. CASE d = home[p]
    <3>1. buf'[r][d] = Append(buf[r][d], p)
      BY <1>8, <2>2
    <3>2. p \notin ToSet(buf[r][d])
      BY <1>10
    <3>3. LET out == Append(buf[r][d], p) IN
          /\ out \in Seq(Particle) /\ out # <<>>
          /\ \A y : y \in ToSet(out) <=> y \in ToSet(buf[r][d]) \/ y = p
          /\ Alone(out, DOMAIN out)
      BY <1>6, <2>1, <3>2, AppendHolds
    <3> HIDE DEF p
    <3> QED
      BY <2>2, <3>1, <3>3
  <2>3. CASE d # home[p]
    <3>1. buf'[r][d] = buf[r][d]
      BY <1>8, <2>3
    <3> QED
      BY <2>1, <2>3, <3>1
  <2> QED
    BY <2>2, <2>3
<1>13. Types'
  <2>1. els' \in [Rank -> Seq(Element)]
    BY <1>1, <1>3, <1>8, <1>9
  <2>2. todo' \in [Rank -> SUBSET [gid : Particle, lid : Nat]]
    BY <1>1, <1>3
  <2>3. buf' \in [Rank -> [Rank -> Seq(Particle)]]
    <3>1. buf'[r] \in [Rank -> Seq(Particle)]
      <4>1. buf'[r] = [d \in Rank |-> buf'[r][d]]
        BY <1>1, <1>3
      <4> QED
        BY <1>12, <4>1
    <3> QED
      BY <1>1, <1>3, <1>8, <3>1
  <2> QED
    BY <1>2, <2>1, <2>2, <2>3 DEF VInv, Types
<1>14. Together' /\ Paced'
  BY <1>2 DEF VInv, Together, Paced
<1>15. Contents'
  <2> SUFFICES ASSUME NEW s \in Rank, NEW k \in DOMAIN els'[s]
               PROVE  /\ els'[s][k] = Marked =>
                            /\ mode[s] = "balance"
                            /\ pc[s] \in {"pack", "post", "receive", "compact"}
                            /\ pc[s] = "compact" => i[s] <= k
                      /\ els'[s][k] # Marked /\ home[els'[s][k]] # s =>
                            \/ pc[s] = "moved"
                            \/ mode[s] = "cells"
                            \/ pc[s] = "extract" /\ i[s] <= k
                            \/ /\ pc[s] \in {"drop", "pack"}
                               /\ \E y \in todo'[s] : y.lid = k
    BY <1>2 DEF Contents
  <2>1. CASE s = r
    <3>1. \A l \in 1..n : q[l] # Marked /\ home[q[l]] # r =>
                              \E y \in todo[r] : y.lid = l
      BY <1>2, <1>4 DEF VInv, Contents, Together
    <3>2. k \in 1..n
      BY <1>9, <2>1
    <3>3. ASSUME els'[s][k] # Marked, home[els'[s][k]] # s
          PROVE  \E y \in todo'[s] : y.lid = k
      <4>1. k # x.lid /\ els'[s][k] = q[k]
        BY <1>9, <2>1, <3>2, <3>3
      <4>2. PICK y \in todo[r] : y.lid = k
        BY <2>1, <3>1, <3>2, <3>3, <4>1
      <4> QED
        BY <1>8, <2>1, <4>1, <4>2
    <3> QED
      BY <1>2, <1>5, <2>1, <3>3
  <2>2. CASE s # r
    <3>1. els'[s] = els[s] /\ todo'[s] = todo[s]
      BY <1>8, <2>2
    <3> QED
      BY <3>1 DEF VInv, Contents
  <2> QED
    BY <2>1, <2>2
<1>16. Tasks'
  <2> SUFFICES ASSUME NEW s \in Rank, NEW y \in todo'[s]
               PROVE  /\ y.lid \in DOMAIN els'[s] /\ els'[s][y.lid] = y.gid
                      /\ home[y.gid] # s
                      /\ pc[s] \in {"drop", "pack"}
    BY <1>2 DEF Tasks
  <2>1. CASE s = r
    <3>1. y \in todo[r] /\ y # x
      BY <1>8, <2>1
    <3>2. y.lid \in 1..n /\ y.lid # x.lid /\ q[y.lid] = y.gid
      BY <1>7, <3>1
    <3>3. home[y.gid] # r
      BY <3>1 DEF VInv, Tasks
    <3> QED
      BY <1>2, <1>9, <2>1, <3>2, <3>3
  <2>2. CASE s # r
    BY <1>8, <2>2 DEF VInv, Tasks
  <2> QED
    BY <2>1, <2>2
<1>17. Buffers'
  <2> SUFFICES ASSUME NEW s \in Rank, NEW d \in Rank, buf'[s][d] # <<>>
               PROVE  /\ pc[s] \in {"extract", "drop", "pack", "post"}
                      /\ pc[s] = "extract" => mode[s] # "cells"
                      /\ d # s
                      /\ \A k \in DOMAIN buf'[s][d] : home[buf'[s][d][k]] = d
    BY <1>2 DEF Buffers
  <2>1. CASE s = r
    <3>1. d # r
      BY <1>6, <1>12, <2>1 DEF VInv, Buffers
    <3>2. \A y \in ToSet(buf[r][d]) : home[y] = d
      <4>1. ASSUME buf[r][d] = <<>> PROVE ToSet(buf[r][d]) = {}
        BY <4>1 DEF ToSet
      <4> QED
        BY <4>1 DEF VInv, Buffers, ToSet
    <3>3. \A y \in ToSet(buf'[r][d]) : home[y] = d
      BY <1>12, <3>2
    <3>4. \A k \in DOMAIN buf'[r][d] : home[buf'[r][d][k]] = d
      BY <3>3 DEF ToSet
    <3> QED
      BY <1>2, <2>1, <3>1, <3>4
  <2>2. CASE s # r
    <3>1. buf'[s] = buf[s]
      BY <1>8, <2>2
    <3> QED
      BY <3>1 DEF VInv, Buffers
  <2> QED
    BY <2>1, <2>2
<1>18. Wires'
  BY <1>2 DEF VInv, Wires
<1>19. Announced'
  <2> SUFFICES ASSUME NEW s \in Rank, NEW d \in Rank, pc[s] \in {"pack", "post"}
               PROVE  counts[s][d] > 0 <=>
                          \/ buf'[s][d] # <<>>
                          \/ \E y \in todo'[s] : home[y.gid] = d
    BY <1>2 DEF Announced
  <2>0. counts[s][d] > 0 <=> \/ buf[s][d] # <<>>
                             \/ \E y \in todo[s] : home[y.gid] = d
    BY DEF VInv, Announced
  <2>1. CASE s = r
    <3>1. buf'[r][d] # <<>> <=> buf[r][d] # <<>> \/ d = home[p]
      BY <1>12
    <3>2. CASE d = home[p]
      BY <2>0, <2>1, <3>1, <3>2
    <3>3. CASE d # home[p]
      <4>1. (\E y \in todo'[r] : home[y.gid] = d) <=>
            (\E y \in todo[r] : home[y.gid] = d)
        BY <1>8, <3>3
      <4> QED
        BY <2>0, <2>1, <3>1, <3>3, <4>1
    <3> QED
      BY <3>2, <3>3
  <2>2. CASE s # r
    <3>1. buf'[s] = buf[s] /\ todo'[s] = todo[s]
      BY <1>8, <2>2
    <3> QED
      BY <2>0, <3>1
  <2> QED
    BY <2>1, <2>2
<1>20. Books'
  BY <1>2, SameBooks DEF VInv, Owes, Sent
<1>21. \A s \in Rank : s # r => (Standing(s))' = Standing(s)
  BY <1>2, <1>8 DEF Standing
<1>22. (Standing(r))' = DOMAIN els'[r]
  BY <1>2 DEF Standing
<1>23. Distinct'
  <2>1. \A s \in Rank : Alone(els'[s], (Standing(s))')
    BY <1>8, <1>11, <1>21, <1>22 DEF VInv, Distinct
  <2>2. \A s, d \in Rank : Alone(buf'[s][d], DOMAIN buf'[s][d])
    BY <1>8, <1>12 DEF VInv, Distinct
  <2> QED
    BY <1>2, <2>1, <2>2 DEF VInv, Distinct
<1>24. Apart' /\ Somewhere'
  <2>1. \A y \in Particle, s \in Rank : s # r =>
            /\ (InVector(y, s))' <=> InVector(y, s)
            /\ (InBuffer(y, s))' <=> InBuffer(y, s)
    BY <1>8, <1>21 DEF InVector, InBuffer
  <2>2. \A y \in Particle :
            /\ InVector(y, r) <=> y \in ToSet(q)
            /\ (InVector(y, r))' <=> y \in ToSet(q) /\ y # p
    <3>1. \A y \in Particle : /\ InVector(y, r) <=> y \in ToSet(q)
                              /\ (InVector(y, r))' <=> y \in ToSet(els'[r])
      BY <1>5, <1>22 DEF InVector, ToSet
    <3> QED
      BY <1>11, <3>1
  <2>3. \A y \in Particle : (InBuffer(y, r))' <=> InBuffer(y, r) \/ y = p
    BY <1>6, <1>12 DEF InBuffer
  <2>4. p \in ToSet(q) /\ ~InBuffer(p, r)
    BY <1>6, <1>10, <2>2 DEF InBuffer
  <2>5. \A y \in Particle : ~(InVector(y, r) /\ InBuffer(y, r))
    BY DEF VInv, Apart
  <2> HIDE DEF q, p
  <2>6. \A y \in Particle :
            /\ (InVector(y, r) \/ InBuffer(y, r))' <=>
                   InVector(y, r) \/ InBuffer(y, r)
            /\ ~(InVector(y, r) /\ InBuffer(y, r))'
    BY <2>2, <2>3, <2>4, <2>5
  <2> QED
    BY <1>2, <2>1, <2>6, SameRanks DEF VInv
<1> QED
  BY <1>13, <1>14, <1>15, <1>16, <1>17, <1>18, <1>19, <1>20, <1>23, <1>24
  DEF VInv

LEMMA PostKeeps ==
    ASSUME VInv, NEW r \in Rank, Post(r)
    PROVE  VInv'
<1>1. /\ pc[r] = "post"
      /\ wire' = wire \cup Messages(r)
      /\ buf' = [buf EXCEPT ![r] = NoBuffer]
      /\ due' = [due EXCEPT ![r] = Cardinality(Senders(r))]
      /\ pc' = [pc EXCEPT ![r] = "receive"]
      /\ els' = els /\ home' = home /\ todo' = todo /\ counts' = counts
      /\ i' = i /\ mode' = mode /\ iter' = iter
  BY DEF Post
<1>2. \A s \in Rank : pc[s] \notin {"extract", "moved", "drop"}
  BY <1>1 DEF VInv, Together, Post
<1>3. /\ pc \in [Rank -> Stages] /\ due \in [Rank -> Nat]
      /\ buf \in [Rank -> [Rank -> Seq(Particle)]]
      /\ \A m \in wire : m.from \in Rank /\ m.to \in Rank
  BY DEF VInv, Types
<1>4. /\ \A s \in Rank : pc'[s] = IF s = r THEN "receive" ELSE pc[s]
      /\ \A s \in Rank : s # r => buf'[s] = buf[s] /\ due'[s] = due[s]
      /\ \A d \in Rank : buf'[r][d] = <<>>
      /\ due'[r] = Cardinality(Senders(r))
      /\ pc' \in [Rank -> Stages]
  <2>1. pc' \in [Rank -> Stages]
    BY <1>1, <1>3 DEF Stages
  <2>2. \A d \in Rank : buf'[r][d] = <<>>
    BY <1>1, <1>3 DEF NoBuffer
  <2> QED
    BY <1>1, <1>3, <2>1, <2>2
<1>5. todo[r] = {}
  BY <1>1 DEF VInv, Tasks
<1>6. \A m : m \in Messages(r) <=>
          \E d \in Rank : /\ buf[r][d] # <<>>
                          /\ m = [from |-> r, to |-> d, data |-> buf[r][d]]
  BY DEF Messages
<1>7. \A m \in Messages(r) :
          /\ m.from = r /\ m.to \in Rank /\ m.to # r
          /\ m.data = buf[r][m.to] /\ m.data # <<>>
          /\ m = [from |-> r, to |-> m.to, data |-> buf[r][m.to]]
          /\ m \in [from : Rank, to : Rank, data : Seq(Particle)]
          /\ \A k \in DOMAIN m.data : home[m.data[k]] = m.to
  <2> SUFFICES ASSUME NEW d \in Rank, buf[r][d] # <<>>
               PROVE  LET m == [from |-> r, to |-> d, data |-> buf[r][d]] IN
                      /\ m.from = r /\ m.to \in Rank /\ m.to # r
                      /\ m.data = buf[r][m.to] /\ m.data # <<>>
                      /\ m = [from |-> r, to |-> m.to, data |-> buf[r][m.to]]
                      /\ m \in [from : Rank, to : Rank, data : Seq(Particle)]
                      /\ \A k \in DOMAIN m.data : home[m.data[k]] = m.to
    BY <1>6
  <2>1. d # r /\ \A k \in DOMAIN buf[r][d] : home[buf[r][d][k]] = d
    BY DEF VInv, Buffers
  <2> QED
    BY <1>3, <2>1
<1>8. \A m \in wire : m.from # r
  BY <1>1 DEF VInv, Wires
<1>9. \A d \in Rank : (Sent(r, d))' <=> buf[r][d] # <<>>
  <2> TAKE d \in Rank
  <2>1. ASSUME NEW m \in wire', m.from = r, m.to = d PROVE buf[r][d] # <<>>
    BY <1>1, <1>7, <1>8, <2>1
  <2>2. ASSUME buf[r][d] # <<>>
        PROVE  \E m \in wire' : m.from = r /\ m.to = d
    <3> DEFINE m == [from |-> r, to |-> d, data |-> buf[r][d]]
    <3>1. m \in wire' /\ m.from = r /\ m.to = d
      BY <1>1, <1>6, <2>2
    <3> HIDE DEF m
    <3> QED
      BY <3>1
  <2> QED
    BY <2>1, <2>2 DEF Sent
<1>10. \A s, d \in Rank : (Owes(s, d))' <=> Owes(s, d)
  <2> TAKE s, d \in Rank
  <2>1. CASE s = r
    <3>1. Owes(r, d) <=> counts[r][d] > 0
      BY <1>1, <1>8 DEF Owes, Sent
    <3>2. counts[r][d] > 0 <=> buf[r][d] # <<>>
      BY <1>1, <1>5 DEF VInv, Announced
    <3>3. (Owes(r, d))' <=> (Sent(r, d))'
      BY <1>4 DEF Owes
    <3> QED
      BY <1>9, <2>1, <3>1, <3>2, <3>3
  <2>2. CASE s # r
    <3>1. (Sent(s, d))' <=> Sent(s, d)
      BY <1>1, <1>7, <2>2 DEF Sent
    <3> QED
      BY <1>1, <1>4, <2>2, <3>1 DEF Owes
  <2> QED
    BY <2>1, <2>2
<1>11. Types'
  <2>1. wire' \in SUBSET [from : Rank, to : Rank, data : Seq(Particle)]
    BY <1>1, <1>7 DEF VInv, Types
  <2>2. buf' \in [Rank -> [Rank -> Seq(Particle)]]
    <3>1. NoBuffer \in [Rank -> Seq(Particle)]
      BY EmptySeq DEF NoBuffer
    <3> QED
      BY <1>1, <1>3, <3>1
  <2>3. due' \in [Rank -> Nat]
    <3>1. IsFiniteSet(Senders(r))
      BY FiniteAssumption, FS_Subset DEF Senders
    <3>2. Cardinality(Senders(r)) \in Nat
      BY <3>1, FS_CardinalityType
    <3> QED
      BY <1>1, <1>3, <3>2
  <2> QED
    BY <1>1, <1>4, <2>1, <2>2, <2>3 DEF VInv, Types
<1>12. Together'
  BY <1>1, <1>2, <1>4 DEF VInv, Together
<1>13. Paced'
  BY <1>1, <1>2, <1>4 DEF VInv, Paced
<1>14. Contents'
  <2>1. \A s \in Rank : s # r => pc'[s] = pc[s]
    BY <1>4
  <2>2. pc'[r] = "receive"
    BY <1>4
  <2> QED
    BY <1>1, <2>1, <2>2 DEF VInv, Contents
<1>15. Tasks'
  BY <1>1, <1>4, <1>5 DEF VInv, Tasks
<1>16. Buffers'
  <2> SUFFICES ASSUME NEW s \in Rank, NEW d \in Rank, buf'[s][d] # <<>>
               PROVE  /\ pc'[s] \in {"extract", "drop", "pack", "post"}
                      /\ pc'[s] = "extract" => mode[s] # "cells"
                      /\ d # s
                      /\ \A k \in DOMAIN buf'[s][d] : home[buf'[s][d][k]] = d
    BY <1>1 DEF Buffers
  <2>1. s # r /\ buf'[s] = buf[s] /\ pc'[s] = pc[s]
    BY <1>4
  <2> QED
    BY <2>1 DEF VInv, Buffers
<1>17. Wires'
  <2> SUFFICES ASSUME NEW m \in wire'
               PROVE  /\ pc'[m.from] \in {"receive", "compact", "ready"}
                      /\ pc'[m.to] \in {"pack", "post", "receive"}
                      /\ m.data # <<>>
                      /\ \A k \in DOMAIN m.data : home[m.data[k]] = m.to
                      /\ \A n \in wire' : n.from = m.from /\ n.to = m.to => n = m
    BY <1>1 DEF Wires
  <2>1. CASE m \in wire
    <3>1. /\ pc'[m.from] \in {"receive", "compact", "ready"}
          /\ pc'[m.to] \in {"pack", "post", "receive"}
      BY <1>3, <1>4, <2>1 DEF VInv, Wires
    <3>2. \A n \in wire' : n.from = m.from /\ n.to = m.to => n = m
      BY <1>1, <1>7, <1>8, <2>1 DEF VInv, Wires
    <3> QED
      BY <2>1, <3>1, <3>2 DEF VInv, Wires
  <2>2. CASE m \in Messages(r)
    <3>1. pc[m.to] \in {"pack", "post", "receive"}
      <4>1. Owes(r, m.to)
        <5>1. counts[r][m.to] > 0
          BY <1>1, <1>7, <2>2 DEF VInv, Announced
        <5> QED
          BY <1>1, <5>1 DEF Owes
      <4>2. m.to \in Rank /\ pc[m.to] \in Stages
        BY <1>3, <1>7, <2>2
      <4>3. pc[m.to] \notin {"compact", "ready"}
        BY <4>1, <4>2 DEF VInv, Books
      <4>4. pc[m.to] \notin {"extract", "moved", "drop"}
        BY <1>2, <4>2
      <4> QED
        BY <4>2, <4>3, <4>4 DEF Stages
    <3>2. \A n \in wire' : n.from = m.from /\ n.to = m.to => n = m
      <4>1. \A n \in Messages(r) : n.to = m.to => n = m
        BY <1>7, <2>2
      <4> QED
        BY <1>1, <1>7, <1>8, <2>2, <4>1
    <3> QED
      BY <1>4, <1>7, <2>2, <3>1, <3>2
  <2> QED
    BY <1>1, <2>1, <2>2
<1>18. Announced'
  BY <1>1, <1>4 DEF VInv, Announced
<1>19. Books'
  <2>1. \A d \in Rank : {s \in Rank : (Owes(s, d))'} = {s \in Rank : Owes(s, d)}
    BY <1>10
  <2> SUFFICES ASSUME NEW d \in Rank
               PROVE  /\ pc'[d] \in {"pack", "post"} =>
                            \A s \in Rank : pc'[s] # "extract" =>
                                (counts[s][d] > 0 <=> (Owes(s, d))')
                      /\ pc'[d] = "receive" =>
                            due'[d] = Cardinality({s \in Rank : (Owes(s, d))'})
                      /\ pc'[d] \in {"compact", "ready"} =>
                            \A s \in Rank : ~(Owes(s, d))'
    BY <1>1 DEF Books
  <2>2. CASE d = r
    <3>1. \A s \in Rank : counts[s][r] > 0 <=> Owes(s, r)
      BY <1>1, <1>2 DEF VInv, Books
    <3>2. Senders(r) = {s \in Rank : Owes(s, r)}
      BY <3>1 DEF Senders
    <3> QED
      BY <1>4, <2>1, <2>2, <3>2
  <2>3. CASE d # r
    <3>1. pc'[d] = pc[d] /\ due'[d] = due[d] /\ \A s \in Rank : pc[s] # "extract"
      BY <1>2, <1>4, <2>3
    <3> QED
      BY <1>10, <2>1, <3>1 DEF VInv, Books
  <2> QED
    BY <2>2, <2>3
<1>20. \A s \in Rank : (Standing(s))' = Standing(s)
  BY <1>1, <1>4 DEF Standing
<1>21. Distinct'
  <2>1. \A s, d \in Rank : Alone(buf'[s][d], DOMAIN buf'[s][d])
    <3>1. \A d \in Rank : DOMAIN buf'[r][d] = {}
      BY <1>4
    <3> QED
      BY <1>4, <3>1 DEF VInv, Distinct, Alone
  <2>2. \A m \in wire' : Alone(m.data, DOMAIN m.data)
    BY <1>1, <1>7 DEF VInv, Distinct
  <2> QED
    BY <1>1, <1>20, <2>1, <2>2 DEF VInv, Distinct
<1>22. /\ \A x \in Particle, s \in Rank : (InVector(x, s))' <=> InVector(x, s)
       /\ \A x \in Particle, s \in Rank :
             (InBuffer(x, s))' <=> InBuffer(x, s) /\ s # r
  <2>1. \A x : x \notin ToSet(<<>>)
    BY DEF ToSet
  <2> QED
    BY <1>1, <1>4, <1>20, <2>1 DEF InVector, InBuffer
<1>23. \A x \in Particle : InBuffer(x, r) <=>
           \E m \in Messages(r) : InMessage(x, m)
  <2> TAKE x \in Particle
  <2>1. ASSUME NEW d \in Rank, x \in ToSet(buf[r][d])
        PROVE  \E m \in Messages(r) : InMessage(x, m)
    <3> DEFINE m == [from |-> r, to |-> d, data |-> buf[r][d]]
    <3>1. buf[r][d] # <<>>
      BY <2>1 DEF ToSet
    <3>2. m \in Messages(r) /\ m.data = buf[r][d]
      BY <1>6, <3>1
    <3> HIDE DEF m
    <3> QED
      BY <2>1, <3>2 DEF InMessage
  <2>2. ASSUME NEW m \in Messages(r), InMessage(x, m)
        PROVE  InBuffer(x, r)
    BY <1>7, <2>2 DEF InMessage, InBuffer
  <2> QED
    BY <2>1, <2>2 DEF InBuffer
<1>24. \A x \in Particle : \A m, n \in Messages(r) :
           InMessage(x, m) /\ InMessage(x, n) => m = n
  <2>1. \A x \in Particle : \A m \in Messages(r) :
            InMessage(x, m) => home[x] = m.to
    BY <1>7 DEF InMessage, ToSet
  <2> QED
    BY <1>7, <2>1
<1>25. Apart'
  <2> SUFFICES ASSUME NEW x \in Particle
               PROVE  /\ \A s, t \in Rank :
                            (InVector(x, s))' /\ (InVector(x, t))' => s = t
                      /\ \A s, t \in Rank :
                            (InBuffer(x, s))' /\ (InBuffer(x, t))' => s = t
                      /\ \A m, n \in wire' :
                            InMessage(x, m) /\ InMessage(x, n) => m = n
                      /\ \A s, t \in Rank :
                            ~((InVector(x, s))' /\ (InBuffer(x, t))')
                      /\ \A s \in Rank, m \in wire' :
                            ~((InVector(x, s))' /\ InMessage(x, m))
                      /\ \A s \in Rank, m \in wire' :
                            ~((InBuffer(x, s))' /\ InMessage(x, m))
    BY DEF Apart
  <2>1. /\ \A s, t \in Rank : InVector(x, s) /\ InVector(x, t) => s = t
        /\ \A s, t \in Rank : InBuffer(x, s) /\ InBuffer(x, t) => s = t
        /\ \A m, n \in wire : InMessage(x, m) /\ InMessage(x, n) => m = n
        /\ \A s, t \in Rank : ~(InVector(x, s) /\ InBuffer(x, t))
        /\ \A s \in Rank, m \in wire : ~(InVector(x, s) /\ InMessage(x, m))
        /\ \A s \in Rank, m \in wire : ~(InBuffer(x, s) /\ InMessage(x, m))
    BY DEF VInv, Apart
  <2>2. \A m \in wire' : m \in wire \/ (m \in Messages(r) /\
                                        (InMessage(x, m) => InBuffer(x, r)))
    BY <1>1, <1>23
  <2>3. \A m, n \in wire' : InMessage(x, m) /\ InMessage(x, n) => m = n
    BY <1>24, <2>1, <2>2
  <2>4. \A s \in Rank, m \in wire' : ~((InVector(x, s))' /\ InMessage(x, m))
    BY <1>22, <2>1, <2>2
  <2>5. \A s \in Rank, m \in wire' : ~((InBuffer(x, s))' /\ InMessage(x, m))
    BY <1>22, <2>1, <2>2
  <2> QED
    BY <1>22, <2>1, <2>3, <2>4, <2>5
<1>26. Somewhere'
  <2> SUFFICES ASSUME NEW x \in Particle
               PROVE  \/ \E s \in Rank : (InVector(x, s))' \/ (InBuffer(x, s))'
                      \/ \E m \in wire' : InMessage(x, m)
    BY DEF Somewhere
  <2>1. \/ \E s \in Rank : InVector(x, s) \/ InBuffer(x, s)
        \/ \E m \in wire : InMessage(x, m)
    BY DEF VInv, Somewhere
  <2>2. InBuffer(x, r) => \E m \in wire' : InMessage(x, m)
    BY <1>1, <1>23
  <2>3. (\E m \in wire : InMessage(x, m)) => \E m \in wire' : InMessage(x, m)
    BY <1>1
  <2> QED
    BY <1>22, <2>1, <2>2, <2>3
<1> QED
  BY <1>11, <1>12, <1>13, <1>14, <1>15, <1>16, <1>17, <1>18, <1>19, <1>21,
     <1>25, <1>26 DEF VInv

LEMMA ReceiveKeeps ==
    ASSUME VInv, NEW r \in Rank, NEW m \in wire, Receive(r, m)
    PROVE  VInv'
<1>1. /\ pc[r] = "receive" /\ due[r] > 0 /\ m.to = r
      /\ els' = [els EXCEPT ![r] = @ \o m.data]
      /\ wire' = wire \ {m}
      /\ due' = [due EXCEPT ![r] = @ - 1]
      /\ home' = home /\ todo' = todo /\ buf' = buf /\ counts' = counts
      /\ i' = i /\ mode' = mode /\ pc' = pc /\ iter' = iter
  BY DEF Receive
<1>2. /\ els \in [Rank -> Seq(Element)] /\ due \in [Rank -> Nat]
      /\ m \in [from : Rank, to : Rank, data : Seq(Particle)]
      /\ \A n \in wire : n.from \in Rank /\ n.to \in Rank
  BY DEF VInv, Types
<1>3. /\ m.from \in Rank /\ m.data \in Seq(Particle)
      /\ pc[m.from] \in {"receive", "compact", "ready"}
      /\ \A k \in DOMAIN m.data : home[m.data[k]] = r
      /\ \A n \in wire : n.from = m.from /\ n.to = r => n = m
  BY <1>1, <1>2 DEF VInv, Wires
<1>4. /\ els'[r] = els[r] \o m.data /\ due'[r] = due[r] - 1
      /\ \A s \in Rank : s # r => els'[s] = els[s] /\ due'[s] = due[s]
  BY <1>1, <1>2
<1>5. /\ \A s \in Rank : pc[s] # "drop"
      /\ \A s \in Rank : Standing(s) = DOMAIN els[s]
      /\ \A s \in Rank : (Standing(s))' = DOMAIN els'[s]
      /\ todo[r] = {}
  <2>1. \A s \in Rank : pc[s] # "drop"
    BY <1>1 DEF VInv, Together
  <2> QED
    BY <1>1, <2>1 DEF VInv, Tasks, Standing
<1>6. /\ els[r] \in Seq(Element)
      /\ Alone(els[r], DOMAIN els[r]) /\ Alone(m.data, DOMAIN m.data)
      /\ \A x \in Particle : InVector(x, r) <=> x \in ToSet(els[r])
      /\ \A x \in Particle : ~(x \in ToSet(els[r]) /\ x \in ToSet(m.data))
  <2>1. \A x \in Particle : InVector(x, r) <=> x \in ToSet(els[r])
    BY <1>5 DEF InVector, ToSet
  <2>2. \A x \in Particle : ~(InVector(x, r) /\ InMessage(x, m))
    BY DEF VInv, Apart
  <2>3. \A x \in Particle : ~(x \in ToSet(els[r]) /\ x \in ToSet(m.data))
    BY <2>1, <2>2 DEF InMessage
  <2>4. Alone(els[r], DOMAIN els[r]) /\ Alone(m.data, DOMAIN m.data)
    BY <1>5 DEF VInv, Distinct
  <2> QED
    BY <1>2, <2>1, <2>3, <2>4
<1>7. /\ els'[r] \in Seq(Element)
      /\ \A k \in DOMAIN els'[r] :
            \/ k \in DOMAIN els[r] /\ els'[r][k] = els[r][k]
            \/ \E l \in DOMAIN m.data : els'[r][k] = m.data[l]
      /\ \A x : x \in ToSet(els'[r]) <=> x \in ToSet(els[r])
                                         \/ x \in ToSet(m.data)
      /\ Alone(els'[r], DOMAIN els'[r])
  <2>1. LET out == els[r] \o m.data IN
        /\ out \in Seq(Element)
        /\ \A k \in DOMAIN out :
              \/ k \in DOMAIN els[r] /\ out[k] = els[r][k]
              \/ \E l \in DOMAIN m.data : out[k] = m.data[l]
        /\ \A x : x \in ToSet(out) <=> x \in ToSet(els[r]) \/ x \in ToSet(m.data)
        /\ Alone(out, DOMAIN out)
    BY <1>3, <1>6, ConcatHolds
  <2> QED
    BY <1>4, <2>1
<1>8. /\ Owes(m.from, r)
      /\ \A s, d \in Rank :
            (Owes(s, d))' <=> Owes(s, d) /\ ~(s = m.from /\ d = r)
  <2>1. Sent(m.from, r)
    BY <1>1 DEF Sent
  <2>2. \A s, d \in Rank :
            (Sent(s, d))' <=> Sent(s, d) /\ ~(s = m.from /\ d = r)
    BY <1>1, <1>3 DEF Sent
  <2>3. pc[m.from] \notin {"pack", "post"}
    BY <1>3
  <2> QED
    BY <1>1, <2>1, <2>2, <2>3 DEF Owes
<1>9. Types'
  <2>1. els' \in [Rank -> Seq(Element)]
    BY <1>1, <1>2, <1>4, <1>7
  <2>2. due' \in [Rank -> Nat]
    <3>1. due[r] - 1 \in Nat
      BY <1>1, <1>2
    <3> QED
      BY <1>1, <1>2, <3>1
  <2>3. wire' \in SUBSET [from : Rank, to : Rank, data : Seq(Particle)]
    BY <1>1 DEF VInv, Types
  <2> QED
    BY <1>1, <2>1, <2>2, <2>3 DEF VInv, Types
<1>10. Together' /\ Paced'
  BY <1>1 DEF VInv, Together, Paced
<1>11. Contents'
  <2> SUFFICES ASSUME NEW s \in Rank, NEW k \in DOMAIN els'[s]
               PROVE  /\ els'[s][k] = Marked =>
                            /\ mode[s] = "balance"
                            /\ pc[s] \in {"pack", "post", "receive", "compact"}
                            /\ pc[s] = "compact" => i[s] <= k
                      /\ els'[s][k] # Marked /\ home[els'[s][k]] # s =>
                            \/ pc[s] = "moved"
                            \/ mode[s] = "cells"
                            \/ pc[s] = "extract" /\ i[s] <= k
                            \/ /\ pc[s] \in {"drop", "pack"}
                               /\ \E x \in todo[s] : x.lid = k
    <3>1. pc' = pc /\ mode' = mode /\ home' = home /\ i' = i /\ todo' = todo
      BY <1>1
    <3> QED
      BY <3>1 DEF Contents
  <2>1. CASE s = r
    <3>1. \A l \in DOMAIN els[r] :
              /\ els[r][l] = Marked => mode[r] = "balance"
              /\ els[r][l] # Marked =>
                     home[els[r][l]] = r \/ mode[r] = "cells"
      BY <1>1 DEF VInv, Contents
    <3>2. \A l \in DOMAIN m.data : m.data[l] \in Particle
      BY <1>3, LenProperties, ElementOfSeq
    <3>3. \/ k \in DOMAIN els[r] /\ els'[r][k] = els[r][k]
          \/ \E l \in DOMAIN m.data : els'[r][k] = m.data[l]
      BY <1>7, <2>1
    <3> QED
      BY <1>1, <1>3, <2>1, <3>1, <3>2, <3>3, NoMarks
  <2>2. CASE s # r
    <3>1. els'[s] = els[s]
      BY <1>4, <2>2
    <3> QED
      BY <3>1 DEF VInv, Contents
  <2> QED
    BY <2>1, <2>2
<1>12. Tasks'
  <2>1. \A s \in Rank : \A x \in todo[s] : els'[s] = els[s]
    BY <1>4, <1>5
  <2> SUFFICES ASSUME NEW s \in Rank, NEW x \in todo[s]
               PROVE  /\ x.lid \in DOMAIN els'[s] /\ els'[s][x.lid] = x.gid
                      /\ home[x.gid] # s
                      /\ pc[s] \in {"drop", "pack"}
    BY <1>1 DEF Tasks
  <2> QED
    BY <2>1 DEF VInv, Tasks
<1>13. Buffers' /\ Wires' /\ Announced'
  BY <1>1 DEF VInv, Buffers, Wires, Announced
<1>14. Books'
  <2> SUFFICES ASSUME NEW d \in Rank
               PROVE  /\ pc[d] \in {"pack", "post"} =>
                            \A s \in Rank : pc[s] # "extract" =>
                                (counts[s][d] > 0 <=> (Owes(s, d))')
                      /\ pc[d] = "receive" =>
                            due'[d] = Cardinality({s \in Rank : (Owes(s, d))'})
                      /\ pc[d] \in {"compact", "ready"} =>
                            \A s \in Rank : ~(Owes(s, d))'
    BY <1>1 DEF Books
  <2>1. CASE d = r
    <3> DEFINE owing == {s \in Rank : Owes(s, r)}
    <3>1. {s \in Rank : (Owes(s, r))'} = owing \ {m.from} /\ m.from \in owing
      BY <1>3, <1>8
    <3>2. IsFiniteSet(owing)
      BY FiniteAssumption, FS_Subset
    <3>3. due[r] = Cardinality(owing)
      BY <1>1 DEF VInv, Books
    <3> HIDE DEF owing
    <3>4. Cardinality(owing \ {m.from}) = Cardinality(owing) - 1
      BY <3>1, <3>2, FS_RemoveElement
    <3> QED
      BY <1>1, <1>4, <2>1, <3>1, <3>3, <3>4
  <2>2. CASE d # r
    <3>1. \A s \in Rank : (Owes(s, d))' <=> Owes(s, d)
      BY <1>8, <2>2
    <3>2. {s \in Rank : (Owes(s, d))'} = {s \in Rank : Owes(s, d)}
      BY <3>1
    <3>3. due'[d] = due[d]
      BY <1>4, <2>2
    <3> QED
      BY <3>1, <3>2, <3>3 DEF VInv, Books
  <2> QED
    BY <2>1, <2>2
<1>15. Distinct'
  <2>1. \A s \in Rank : Alone(els'[s], DOMAIN els'[s])
    BY <1>4, <1>5, <1>7, ZenonT(60) DEF VInv, Distinct
  <2> QED
    BY <1>1, <1>5, <2>1 DEF VInv, Distinct
<1>16. /\ \A x \in Particle, s \in Rank :
             (InVector(x, s))' <=> InVector(x, s) \/ (s = r /\ InMessage(x, m))
       /\ \A x \in Particle, s \in Rank : (InBuffer(x, s))' <=> InBuffer(x, s)
  <2>1. \A x \in Particle, s \in Rank :
            /\ InVector(x, s) <=> x \in ToSet(els[s])
            /\ (InVector(x, s))' <=> x \in ToSet(els'[s])
    BY <1>5 DEF InVector, ToSet
  <2>2. \A x \in Particle, s \in Rank : (InBuffer(x, s))' <=> InBuffer(x, s)
    BY <1>1 DEF InBuffer
  <2> QED
    BY <1>4, <1>7, <2>1, <2>2 DEF InMessage
<1>17. Apart' /\ Somewhere'
  <2>1. ASSUME NEW x \in Particle
        PROVE  /\ \A s, t \in Rank :
                     (InVector(x, s))' /\ (InVector(x, t))' => s = t
               /\ \A s, t \in Rank :
                     (InBuffer(x, s))' /\ (InBuffer(x, t))' => s = t
               /\ \A n, o \in wire' :
                     InMessage(x, n) /\ InMessage(x, o) => n = o
               /\ \A s, t \in Rank :
                     ~((InVector(x, s))' /\ (InBuffer(x, t))')
               /\ \A s \in Rank, n \in wire' :
                     ~((InVector(x, s))' /\ InMessage(x, n))
               /\ \A s \in Rank, n \in wire' :
                     ~((InBuffer(x, s))' /\ InMessage(x, n))
    <3>1. /\ \A s, t \in Rank : InVector(x, s) /\ InVector(x, t) => s = t
          /\ \A s, t \in Rank : InBuffer(x, s) /\ InBuffer(x, t) => s = t
          /\ \A n, o \in wire : InMessage(x, n) /\ InMessage(x, o) => n = o
          /\ \A s, t \in Rank : ~(InVector(x, s) /\ InBuffer(x, t))
          /\ \A s \in Rank, n \in wire : ~(InVector(x, s) /\ InMessage(x, n))
          /\ \A s \in Rank, n \in wire : ~(InBuffer(x, s) /\ InMessage(x, n))
      BY DEF VInv, Apart
    <3>2. \A n \in wire' : n \in wire /\ n # m
      BY <1>1
    <3> QED
      BY <1>16, <3>1, <3>2
  <2>2. ASSUME NEW x \in Particle
        PROVE  \/ \E s \in Rank : (InVector(x, s))' \/ (InBuffer(x, s))'
               \/ \E n \in wire' : InMessage(x, n)
    <3>1. \/ \E s \in Rank : InVector(x, s) \/ InBuffer(x, s)
          \/ \E n \in wire : InMessage(x, n)
      BY DEF VInv, Somewhere
    <3>2. (\E n \in wire : InMessage(x, n)) =>
              InMessage(x, m) \/ \E n \in wire' : InMessage(x, n)
      BY <1>1
    <3> QED
      BY <1>16, <3>1, <3>2
  <2> QED
    BY <2>1, <2>2 DEF Apart, Somewhere
<1> QED
  BY <1>9, <1>10, <1>11, <1>12, <1>13, <1>14, <1>15, <1>17 DEF VInv

LEMMA SameKeeps ==
    ASSUME VInv, UNCHANGED vars
    PROVE  VInv'
<1>1. /\ els' = els /\ home' = home /\ todo' = todo /\ buf' = buf
      /\ counts' = counts /\ wire' = wire /\ due' = due /\ i' = i
      /\ mode' = mode /\ pc' = pc /\ iter' = iter
  BY DEF vars
<1>2. Types' /\ Together' /\ Paced' /\ Contents' /\ Tasks' /\ Buffers' /\ Wires'
  BY <1>1 DEF VInv, Types, Together, Paced, Contents, Tasks, Buffers, Wires
<1>3. Announced' /\ Books'
  BY <1>1, SameBooks DEF VInv, Announced, Owes, Sent
<1>4. Distinct' /\ Apart' /\ Somewhere'
  <2>1. \A s \in Rank : (Standing(s))' = Standing(s)
    BY <1>1 DEF Standing
  <2> QED
    BY <1>1, <2>1, SamePlaces DEF VInv
<1> QED
  BY <1>2, <1>3, <1>4 DEF VInv

-----------------------------------------------------------------------------
LEMMA NextKeeps ==
    ASSUME VInv, [Next]_vars
    PROVE  VInv'
<1>1. ASSUME NEW r \in Rank, RankStep(r) PROVE VInv'
  <2>1. CASE ComputeOneStep(r)
    BY <2>1, ComputeKeeps
  <2>2. CASE Extract(r)
    BY <2>2, ExtractKeeps
  <2>3. CASE Announce(r)
    BY <2>3, AnnounceKeeps
  <2>4. CASE Listed(r)
    BY <2>4, ListedKeeps
  <2>5. CASE Collect(r)
    BY <2>5, CollectKeeps
  <2>6. CASE Drop(r)
    BY <2>6, DropKeeps
  <2>7. CASE Pack(r)
    BY <2>7, PackKeeps
  <2>8. CASE PackedAll(r)
    BY <2>8, PackedAllKeeps
  <2>9. CASE Post(r)
    BY <2>9, PostKeeps
  <2>10. CASE \E m \in wire : Receive(r, m)
    BY <2>10, ReceiveKeeps
  <2>11. CASE ReceivedAll(r)
    BY <2>11, ReceivedAllKeeps
  <2>12. CASE Compact(r)
    BY <2>12, CompactKeeps
  <2>13. CASE Compacted(r)
    BY <2>13, CompactedKeeps
  <2> QED
    BY <1>1, <2>1, <2>2, <2>3, <2>4, <2>5, <2>6, <2>7, <2>8, <2>9, <2>10,
       <2>11, <2>12, <2>13 DEF RankStep
<1>2. CASE Collective
  BY <1>2, MigrationKeeps, BalancingKeeps, InvertKeeps DEF Collective
<1>3. CASE Finished
  BY <1>3, SameKeeps DEF Finished
<1>4. CASE UNCHANGED vars
  BY <1>4, SameKeeps
<1> QED
  BY <1>1, <1>2, <1>3, <1>4 DEF Next

(* The invariant holds in every state.                                     *)
THEOREM AlwaysVInv == Spec => []VInv
<1>1. VInv /\ [Next]_vars => VInv'
  BY NextKeeps
<1> QED
  BY <1>1, InitVInv, PTL DEF Spec

(* An index that Zoltan was given, or that was noted, still is the index of*)
(* its element when the element is packed or dropped: pack_particles marks *)
(* instead of erasing, and the highest id goes first                       *)
(* (zoltan_fn.hpp, pack_particles and zoltan_migrate_particles).           *)
THEOREM LidsStayValid == Spec => []LocalIdsValid
<1>1. VInv => LocalIdsValid
  BY DEF VInv, Tasks, LocalIdsValid
<1> QED
  BY <1>1, AlwaysVInv, PTL

LEMMA VectorsAreOwn == VInv => OnlyItsOwn
<1> SUFFICES ASSUME VInv, NEW r \in Rank,
                    \A s \in Rank : pc[s] = "ready" /\ mode[s] # "cells"
             PROVE  ToSet(els[r]) = {p \in Particle : home[p] = r}
  BY DEF OnlyItsOwn
<1>1. /\ wire = {}
      /\ \A s, d \in Rank : buf[s][d] = <<>>
      /\ \A s \in Rank : \A k \in DOMAIN els[s] : els[s][k] \in Particle
  BY Quiet
<1>2. \A s \in Rank : \A k \in DOMAIN els[s] : home[els[s][k]] = s
  BY <1>1, NoMarks DEF VInv, Contents
<1>3. ASSUME NEW p \in ToSet(els[r])
      PROVE  p \in Particle /\ home[p] = r
  BY <1>1, <1>2 DEF ToSet
<1>4. ASSUME NEW p \in Particle, home[p] = r
      PROVE  p \in ToSet(els[r])
  <2>1. \A x : x \notin ToSet(<<>>)
    BY DEF ToSet
  <2>2. PICK s \in Rank : InVector(p, s)
    BY <1>1, <2>1 DEF VInv, Somewhere, InBuffer
  <2>3. p \in ToSet(els[s])
    BY <2>2, OutOfDrop
  <2>4. home[p] = s
    BY <1>2, <2>3 DEF ToSet
  <2> QED
    BY <1>4, <2>3, <2>4
<1> QED
  BY <1>3, <1>4

(* Out of a collective that looks at every element a rank's vector has     *)
(* exactly the elements of its region, and no marked one: what a rank      *)
(* waited for was all it was sent, and the loops left nothing behind       *)
(* (migrate_data in parallel_utils.hpp, Zoltan_Migrate_Particles,          *)
(* Zoltan_Do_LB and post_migrate_particles in zoltan_fn.hpp), not even what*)
(* zoltan_migrate_particles had missed in an earlier iteration.            *)
THEOREM AlwaysOnlyItsOwn == Spec => []OnlyItsOwn
BY VectorsAreOwn, AlwaysVInv, PTL

(* No particle is ever lost or doubled: whatever is swapped, popped,       *)
(* marked, packed or appended (migrate_data, pack_particles,               *)
(* unpack_particles, post_migrate_particles and the two migrations of      *)
(* zoltan_fn.hpp), each is at one index of one vector, one buffer or one   *)
(* message.                                                                *)
THEOREM AlwaysOncePerParticle == Spec => []OncePerParticle
<1>1. VInv => OncePerParticle
  <2> SUFFICES ASSUME VInv, NEW p \in Particle
               PROVE  Cardinality(Places(p)) = 1
    BY DEF OncePerParticle
  <2>0. p # Marked
    BY NoMarks
  <2> DEFINE InV(x) == \E r \in Rank : \E k \in Standing(r) :
                           els[r][k] = p /\ x = <<<<"vector", r>>, k>>
             InB(x) == \E r, d \in Rank : \E k \in DOMAIN buf[r][d] :
                           buf[r][d][k] = p /\ x = <<<<"buffer", r, d>>, k>>
             InM(x) == \E m \in wire : \E k \in DOMAIN m.data :
                           m.data[k] = p /\ x = <<<<"message", m>>, k>>
  <2>1. \A x : x \in Places(p) <=> InV(x) \/ InB(x) \/ InM(x)
    <3> DEFINE PV == UNION {At(p, els[r], Standing(r), <<"vector", r>>) :
                               r \in Rank}
               PB == UNION {UNION {At(p, buf[r][d], DOMAIN buf[r][d],
                                      <<"buffer", r, d>>) : d \in Rank} :
                               r \in Rank}
               PM == UNION {At(p, m.data, DOMAIN m.data, <<"message", m>>) :
                               m \in wire}
    <3>1. \A x : x \in PV <=> InV(x)
      BY DEF At
    <3>2. \A x : x \in PB <=> InB(x)
      BY DEF At
    <3>3. \A x : x \in PM <=> InM(x)
      BY DEF At
    <3>4. Places(p) = PV \cup PB \cup PM
      BY DEF Places
    <3> HIDE DEF PV, PB, PM, InV, InB, InM
    <3> QED
      BY <3>1, <3>2, <3>3, <3>4
  <2>2. /\ \A x : InV(x) => \E r \in Rank : InVector(p, r)
        /\ \A x : InB(x) => \E r \in Rank : InBuffer(p, r)
        /\ \A x : InM(x) => \E m \in wire : InMessage(p, m)
    BY DEF InVector, InBuffer, InMessage, ToSet
  <2>3. \A x, y : InV(x) /\ InV(y) => x = y
    <3> SUFFICES ASSUME NEW r \in Rank, NEW k \in Standing(r), els[r][k] = p,
                        NEW s \in Rank, NEW l \in Standing(s), els[s][l] = p
                 PROVE  r = s /\ k = l
      OBVIOUS
    <3>1. r = s
      BY DEF VInv, Apart, InVector
    <3> QED
      BY <2>0, <3>1 DEF VInv, Distinct, Alone
  <2>4. \A x, y : InB(x) /\ InB(y) => x = y
    <3> SUFFICES ASSUME NEW r \in Rank, NEW d \in Rank,
                        NEW k \in DOMAIN buf[r][d], buf[r][d][k] = p,
                        NEW s \in Rank, NEW e \in Rank,
                        NEW l \in DOMAIN buf[s][e], buf[s][e][l] = p
                 PROVE  r = s /\ d = e /\ k = l
      OBVIOUS
    <3>1. InBuffer(p, r) /\ InBuffer(p, s)
      BY DEF InBuffer, ToSet
    <3>2. r = s
      BY <3>1 DEF VInv, Apart
    <3>3. home[p] = d /\ home[p] = e
      <4>1. buf[r][d] # <<>> /\ buf[s][e] # <<>>
        OBVIOUS
      <4> QED
        BY <4>1 DEF VInv, Buffers
    <3> QED
      BY <2>0, <3>2, <3>3 DEF VInv, Distinct, Alone
  <2>5. \A x, y : InM(x) /\ InM(y) => x = y
    <3> SUFFICES ASSUME NEW m \in wire, NEW k \in DOMAIN m.data, m.data[k] = p,
                        NEW n \in wire, NEW l \in DOMAIN n.data, n.data[l] = p
                 PROVE  m = n /\ k = l
      OBVIOUS
    <3>1. InMessage(p, m) /\ InMessage(p, n)
      BY DEF InMessage, ToSet
    <3>2. m = n
      BY <3>1 DEF VInv, Apart
    <3> QED
      BY <2>0, <3>2 DEF VInv, Distinct, Alone
  <2>6. \E x : InV(x) \/ InB(x) \/ InM(x)
    <3>1. CASE \E r \in Rank : InVector(p, r)
      BY <3>1 DEF InVector
    <3>2. CASE \E r \in Rank : InBuffer(p, r)
      BY <3>2 DEF InBuffer, ToSet
    <3>3. CASE \E m \in wire : InMessage(p, m)
      BY <3>3 DEF InMessage, ToSet
    <3> QED
      BY <3>1, <3>2, <3>3 DEF VInv, Somewhere
  <2> HIDE DEF InV, InB, InM
  <2>7. \A x, y \in Places(p) : x = y
    <3>1. \A r, s \in Rank : ~(InVector(p, r) /\ InBuffer(p, s))
      BY DEF VInv, Apart
    <3>2. \A r \in Rank, m \in wire : ~(InVector(p, r) /\ InMessage(p, m))
      BY DEF VInv, Apart
    <3>3. \A r \in Rank, m \in wire : ~(InBuffer(p, r) /\ InMessage(p, m))
      BY DEF VInv, Apart
    <3> QED
      BY <2>1, <2>2, <2>3, <2>4, <2>5, <3>1, <3>2, <3>3
  <2>8. PICK x : Places(p) = {x}
    BY <2>1, <2>6, <2>7
  <2> QED
    BY <2>8, FS_Singleton
<1> QED
  BY <1>1, AlwaysVInv, PTL

-----------------------------------------------------------------------------
(***************************************************************************)
(* The refinement mapping, particle by particle.                           *)
(***************************************************************************)
OwnBy(p, r) ==
    IF Balancing(r) THEN home[p] = r
    ELSE InVector(p, r) \/ (pc[r] = "extract" /\ InBuffer(p, r))

StageOf(r) ==
    IF Balancing(r) \/ pc[r] = "ready" THEN "ready"
    ELSE IF pc[r] \in {"moved", "extract"} THEN "moved"
    ELSE "inside"

MissedBy(p, r) ==
    mode[r] = "cells" /\ StageOf(r) # "moved" /\ OwnBy(p, r) /\ home[p] # r

(* Who is done waiting has received everything, and has it alone unless    *)
(* elements were overlooked.                                               *)
Thorough(s) == mode[s] # "cells" \/ Rank = {s}

LEMMA Gathered ==
    VInv => \A s \in Rank :
        pc[s] \in {"compact", "ready"} /\ (\A t \in Rank : pc[t] # "moved") =>
            \A x \in Particle :
                /\ home[x] = s => \E t \in Rank : InVector(x, t)
                /\ Thorough(s) => (InVector(x, s) <=> home[x] = s)
<1> SUFFICES ASSUME VInv, NEW r \in Rank, pc[r] \in {"compact", "ready"},
                    \A s \in Rank : pc[s] # "moved", NEW p \in Particle
             PROVE  /\ home[p] = r => \E t \in Rank : InVector(p, t)
                    /\ Thorough(r) => (InVector(p, r) <=> home[p] = r)
  OBVIOUS
<1>1. \A s \in Rank : pc[s] \notin {"extract", "drop"}
  BY DEF VInv, Together
<1>2. \A s \in Rank : ~Owes(s, r)
  BY DEF VInv, Books
<1>3. p # Marked
  BY NoMarks
<1>4. ASSUME Thorough(r), InVector(p, r) PROVE home[p] = r
  <2>1. PICK k \in DOMAIN els[r] : els[r][k] = p
    BY <1>4 DEF InVector, Standing
  <2>2. home[p] \in Rank
    BY DEF VInv, Types
  <2> QED
    BY <1>3, <1>4, <2>1, <2>2 DEF VInv, Contents, Thorough
<1>5. ASSUME Thorough(r), home[p] = r, NEW s \in Rank, InVector(p, s)
      PROVE  s = r
  <2>1. PICK k \in DOMAIN els[s] : els[s][k] = p
    BY <1>5 DEF InVector, Standing
  <2> SUFFICES ASSUME s # r PROVE FALSE
    OBVIOUS
  <2>2. mode[s] # "cells"
    BY <1>5 DEF Thorough, VInv, Together
  <2>3. pc[s] = "pack" /\ \E x \in todo[s] : x.lid = k
    BY <1>1, <1>3, <1>5, <2>1, <2>2 DEF VInv, Contents
  <2>4. \E x \in todo[s] : home[x.gid] = r
    BY <1>5, <2>1, <2>3 DEF VInv, Tasks
  <2>5. counts[s][r] > 0
    BY <2>3, <2>4 DEF VInv, Announced
  <2> QED
    BY <1>2, <2>3, <2>5 DEF Owes
<1>6. ASSUME home[p] = r PROVE \E t \in Rank : InVector(p, t)
  <2>2. ASSUME NEW s \in Rank, InBuffer(p, s) PROVE FALSE
    <3>1. PICK d \in Rank : p \in ToSet(buf[s][d])
      BY <2>2 DEF InBuffer
    <3>2. PICK k \in DOMAIN buf[s][d] : buf[s][d][k] = p
      BY <3>1 DEF ToSet
    <3>3. buf[s][d] # <<>>
      BY <3>2
    <3>4. d = r /\ pc[s] \in {"pack", "post"}
      BY <1>1, <1>6, <3>2, <3>3 DEF VInv, Buffers
    <3>5. counts[s][r] > 0
      BY <3>3, <3>4 DEF VInv, Announced
    <3> QED
      BY <1>2, <3>4, <3>5 DEF Owes
  <2>3. ASSUME NEW m \in wire, InMessage(p, m) PROVE FALSE
    <3>1. m.to = r
      BY <1>6, <2>3 DEF VInv, Wires, InMessage, ToSet
    <3>2. m.from \in Rank
      BY DEF VInv, Types
    <3> QED
      BY <1>2, <3>1, <3>2 DEF Owes, Sent
  <2> QED
    BY <2>2, <2>3 DEF VInv, Somewhere
<1> QED
  BY <1>4, <1>5, <1>6

LEMMA HoldsIs ==
    ASSUME VInv, NEW r \in Rank, NEW p
    PROVE  p \in Holds(r) <=> p \in Particle /\ InVector(p, r)
<1>1. p \in Holds(r) <=> p # Marked /\ InVector(p, r)
  BY DEF Holds, InVector
<1>2. ASSUME p # Marked, InVector(p, r) PROVE p \in Particle
  <2>1. PICK k \in DOMAIN els[r] : els[r][k] = p
    BY <1>2 DEF InVector, Standing
  <2> QED
    BY <1>2, <2>1, ElementsOf DEF VInv
<1> QED
  BY <1>1, <1>2, NoMarks

LEMMA OwnIs ==
    VInv => \A r \in Rank : \A p :
                p \in ownBar[r] <=> p \in Particle /\ OwnBy(p, r)
<1> SUFFICES ASSUME VInv, NEW r \in Rank, NEW p
             PROVE  p \in ownBar[r] <=> p \in Particle /\ OwnBy(p, r)
  OBVIOUS
<1>1. p \in Holds(r) <=> p \in Particle /\ InVector(p, r)
  BY HoldsIs
<1>2. p \in Given(r) <=> p \in Particle /\ InBuffer(p, r)
  <2>1. \A d \in Rank : Contains(buf[r][d], p) <=> p \in ToSet(buf[r][d])
    <3> TAKE d \in Rank
    <3>1. buf[r][d] \in Seq(Particle)
      BY DEF VInv, Types
    <3>2. DOMAIN buf[r][d] = 1..Len(buf[r][d])
      BY <3>1, LenProperties
    <3> QED
      BY <3>2 DEF Contains, ToSet
  <2> QED
    BY <2>1 DEF Given, InBuffer
<1>3. ownBar[r] = IF Balancing(r) THEN {x \in Particle : home[x] = r}
                  ELSE Holds(r) \cup (IF pc[r] = "extract" THEN Given(r) ELSE {})
  BY DEF ownBar
<1> QED
  BY <1>1, <1>2, <1>3 DEF OwnBy

LEMMA MissedIs ==
    VInv => \A r \in Rank : \A p :
                p \in missedBar[r] <=> p \in Particle /\ MissedBy(p, r)
<1> SUFFICES ASSUME VInv, NEW r \in Rank, NEW p
             PROVE  p \in missedBar[r] <=> p \in Particle /\ MissedBy(p, r)
  OBVIOUS
<1>1. p \in Holds(r) <=> p \in Particle /\ InVector(p, r)
  BY HoldsIs
<1>2. stageBar[r] = StageOf(r)
  BY DEF stageBar, StageOf
<1>3. missedBar[r] = IF mode[r] = "cells" /\ StageOf(r) # "moved"
                     THEN {x \in Holds(r) : home[x] # r} ELSE {}
  BY <1>2 DEF missedBar
<1>4. ASSUME mode[r] = "cells", StageOf(r) # "moved"
      PROVE  OwnBy(p, r) <=> InVector(p, r)
  BY <1>4 DEF OwnBy, StageOf, Balancing
<1> QED
  BY <1>1, <1>3, <1>4 DEF MissedBy

LEMMA OwnOnce ==
    VInv => \A p \in Particle : \A r, s \in Rank :
                OwnBy(p, r) /\ OwnBy(p, s) => r = s
<1> SUFFICES ASSUME VInv, NEW p \in Particle, NEW r \in Rank, NEW s \in Rank,
                    OwnBy(p, r), OwnBy(p, s)
             PROVE  r = s
  OBVIOUS
<1>1. CASE mode[r] = "balance"
  <2>1. mode[s] = "balance" /\ pc[r] # "extract" /\ pc[s] # "extract"
        /\ pc[r] # "drop" /\ pc[s] # "drop"
    BY <1>1 DEF VInv, Together
  <2>2. ASSUME NEW t \in Rank, pc[t] = "ready", InVector(p, t)
        PROVE  home[p] = t
    <3>1. PICK k \in DOMAIN els[t] : els[t][k] = p
      BY <2>2 DEF InVector, Standing
    <3> QED
      BY <1>1, <2>2, <3>1, NoMarks DEF VInv, Contents, Together
  <2>3. CASE Balancing(r)
    <3>1. home[p] = r /\ pc[s] # "moved"
      BY <2>3 DEF OwnBy, Balancing, VInv, Together
    <3>2. home[p] = s
      BY <2>1, <2>2, <3>1 DEF OwnBy, Balancing
    <3> QED
      BY <3>1, <3>2
  <2>4. CASE Balancing(s)
    <3>1. home[p] = s /\ pc[r] # "moved"
      BY <2>4 DEF OwnBy, Balancing, VInv, Together
    <3>2. home[p] = r
      BY <1>1, <2>1, <2>2, <3>1 DEF OwnBy, Balancing
    <3> QED
      BY <3>1, <3>2
  <2>5. CASE ~Balancing(r) /\ ~Balancing(s)
    BY <2>1, <2>5 DEF OwnBy, VInv, Apart
  <2> QED
    BY <2>3, <2>4, <2>5
<1>2. CASE mode[r] # "balance"
  <2>1. ~Balancing(r) /\ ~Balancing(s)
    BY <1>2 DEF Balancing, VInv, Together
  <2> QED
    BY <2>1 DEF OwnBy, VInv, Apart
<1> QED
  BY <1>1, <1>2

(* In transit is what no rank owns.                                        *)
LEMMA TransitIs ==
    VInv => \A p : p \in transitBar <=>
                /\ p \in Particle
                /\ \A r \in Rank : ~OwnBy(p, r)
<1> SUFFICES ASSUME VInv, NEW p \in Particle
             PROVE  p \in transitBar <=> \A r \in Rank : ~OwnBy(p, r)
  BY DEF transitBar
<1>1. p \in transitBar <=>
          \/ \E r \in Rank : /\ pc[r] \in {"drop", "post"}
                             /\ ~Balancing(r) /\ InBuffer(p, r)
          \/ \E m \in wire : ~Balancing(m.to) /\ InMessage(p, m)
  <2>1. \A q \in Seq(Particle) : Contains(q, p) <=> p \in ToSet(q)
    <3> TAKE q \in Seq(Particle)
    <3>1. DOMAIN q = 1..Len(q)
      BY LenProperties
    <3> QED
      BY <3>1 DEF Contains, ToSet
  <2>2. /\ \A r, d \in Rank : buf[r][d] \in Seq(Particle)
        /\ \A m \in wire : m.data \in Seq(Particle)
    BY ZenonT(60) DEF VInv, Types
  <2>3. \A r \in Rank : p \in Given(r) <=> InBuffer(p, r)
    BY <2>1, <2>2 DEF Given, InBuffer
  <2>4. \A m \in wire : Contains(m.data, p) <=> InMessage(p, m)
    BY <2>1, <2>2 DEF InMessage
  <2> QED
    BY <2>3, <2>4 DEF transitBar
<1>2. CASE \E r \in Rank : mode[r] = "balance"
  <2>1. \A r \in Rank : mode[r] = "balance"
    BY <1>2 DEF VInv, Together
  <2>2. p \notin transitBar
    <3>1. \A r \in Rank : pc[r] \in {"drop", "post"} => Balancing(r)
      BY <2>1 DEF Balancing
    <3>2. \A m \in wire : m.to \in Rank /\ Balancing(m.to)
      <4>1. \A m \in wire : m.to \in Rank
        BY DEF VInv, Types
      <4> QED
        BY <2>1, <4>1 DEF VInv, Wires, Balancing
    <3> QED
      BY <1>1, <3>1, <3>2
  <2>3. CASE \E s \in Rank : pc[s] = "moved"
    <3>1. \A r \in Rank : pc[r] \in {"ready", "moved"}
      BY <2>3 DEF VInv, Together
    <3>2. wire = {} /\ \A r, d \in Rank : buf[r][d] = <<>>
      BY <3>1, Quiet
    <3>3. \A x : x \notin ToSet(<<>>)
      BY DEF ToSet
    <3>4. PICK r \in Rank : InVector(p, r)
      BY <3>2, <3>3 DEF VInv, Somewhere, InBuffer
    <3>5. OwnBy(p, r)
      BY <3>1, <3>4 DEF OwnBy, Balancing
    <3> QED
      BY <2>2, <3>5
  <2>4. CASE \A s \in Rank : pc[s] # "moved"
    <3>1. home[p] \in Rank
      BY DEF VInv, Types
    <3>2. OwnBy(p, home[p])
      <4>1. CASE Balancing(home[p])
        BY <4>1 DEF OwnBy
      <4>2. CASE ~Balancing(home[p])
        <5>1. pc[home[p]] = "ready"
          BY <2>1, <2>4, <3>1, <4>2 DEF Balancing
        <5> QED
          BY <2>1, <2>4, <3>1, <4>2, <5>1, Gathered DEF OwnBy, Thorough
      <4> QED
        BY <4>1, <4>2
    <3> QED
      BY <2>2, <3>1, <3>2
  <2> QED
    BY <2>3, <2>4
<1>3. CASE \A r \in Rank : mode[r] # "balance"
  <2>1. /\ \A r \in Rank : ~Balancing(r) /\ pc[r] # "pack"
        /\ \A m \in wire : ~Balancing(m.to)
    <3>1. \A m \in wire : m.to \in Rank
      BY DEF VInv, Types
    <3> QED
      BY <1>3, <3>1 DEF Balancing, VInv, Together
  <2>2. \A r \in Rank : InBuffer(p, r) => pc[r] \in {"extract", "drop", "post"}
    <3> SUFFICES ASSUME NEW r \in Rank, NEW d \in Rank, p \in ToSet(buf[r][d])
                 PROVE  pc[r] \in {"extract", "drop", "post"}
      BY DEF InBuffer
    <3>1. buf[r][d] # <<>>
      BY DEF ToSet
    <3> QED
      BY <2>1, <3>1 DEF VInv, Buffers
  <2> QED
    BY <1>1, <2>1, <2>2 DEF OwnBy, VInv, Apart, Somewhere
<1> QED
  BY <1>2, <1>3

LEMMA Mapped ==
    ASSUME VInv, VInv'
    PROVE  /\ \A r \in Rank : \A p :
                 /\ p \in ownBar[r] <=> p \in Particle /\ OwnBy(p, r)
                 /\ p \in ownBar'[r] <=> p \in Particle /\ (OwnBy(p, r))'
           /\ \A p : p \in transitBar <=>
                 p \in Particle /\ \A r \in Rank : ~OwnBy(p, r)
           /\ \A p : p \in transitBar' <=>
                 p \in Particle /\ \A r \in Rank : ~(OwnBy(p, r))'
           /\ \A r \in Rank : \A p :
                 /\ p \in missedBar[r] <=> p \in Particle /\ MissedBy(p, r)
                 /\ p \in missedBar'[r] <=> p \in Particle /\ (MissedBy(p, r))'
           /\ missedBar = [r \in Rank |-> missedBar[r]]
           /\ missedBar' = [r \in Rank |-> missedBar'[r]]
           /\ ownBar = [r \in Rank |-> ownBar[r]]
           /\ ownBar' = [r \in Rank |-> ownBar'[r]]
           /\ stageBar = [r \in Rank |-> StageOf(r)]
           /\ stageBar' = [r \in Rank |-> (StageOf(r))']
<1>1. (\A r \in Rank : \A p :
           p \in ownBar[r] <=> p \in Particle /\ OwnBy(p, r))'
  BY OwnIs, PTL
<1>2. (\A p : p \in transitBar <=>
           /\ p \in Particle
           /\ \A r \in Rank : ~OwnBy(p, r))'
  BY TransitIs, PTL
<1>3. /\ ownBar = [r \in Rank |-> ownBar[r]]
      /\ ownBar' = [r \in Rank |-> ownBar'[r]]
  BY DEF ownBar
<1>4. /\ stageBar = [r \in Rank |-> StageOf(r)]
      /\ stageBar' = [r \in Rank |-> (StageOf(r))']
  BY DEF stageBar, StageOf
<1>5. \A r \in Rank : \A p : p \in ownBar[r] <=> p \in Particle /\ OwnBy(p, r)
  BY OwnIs
<1>6. \A p : p \in transitBar <=>
          p \in Particle /\ \A r \in Rank : ~OwnBy(p, r)
  BY TransitIs
<1>7. \A r \in Rank : \A p :
          p \in ownBar'[r] <=> p \in Particle /\ (OwnBy(p, r))'
  BY <1>1
<1>8. \A p : p \in transitBar' <=>
          p \in Particle /\ \A r \in Rank : ~(OwnBy(p, r))'
  BY <1>2
<1>9. (\A r \in Rank : \A p :
           p \in missedBar[r] <=> p \in Particle /\ MissedBy(p, r))'
  BY MissedIs, PTL
<1>10. \A r \in Rank : \A p :
          /\ p \in missedBar[r] <=> p \in Particle /\ MissedBy(p, r)
          /\ p \in missedBar'[r] <=> p \in Particle /\ (MissedBy(p, r))'
  BY <1>9, MissedIs
<1>11. /\ missedBar = [r \in Rank |-> missedBar[r]]
       /\ missedBar' = [r \in Rank |-> missedBar'[r]]
  BY DEF missedBar
<1> QED
  BY <1>3, <1>4, <1>5, <1>6, <1>7, <1>8, <1>10, <1>11

LEMMA SameOwners ==
    ASSUME VInv, VInv',
           \A p \in Particle, r \in Rank : (OwnBy(p, r))' <=> OwnBy(p, r)
    PROVE  UNCHANGED <<ownBar, transitBar>>
<1>1. \A r \in Rank : ownBar'[r] = ownBar[r]
  <2>1. \A r \in Rank : \A p : p \in ownBar'[r] <=> p \in ownBar[r]
    BY Mapped
  <2> QED
    BY <2>1
<1>2. transitBar' = transitBar
  <2>1. \A p : p \in transitBar' <=> p \in transitBar
    BY Mapped
  <2> QED
    BY <2>1
<1>3. ownBar' = ownBar
  BY <1>1, Mapped
<1> QED
  BY <1>2, <1>3

LEMMA SameMissed ==
    ASSUME VInv, VInv', \A p \in Particle, r \in Rank :
                            (MissedBy(p, r))' <=> MissedBy(p, r)
    PROVE  missedBar' = missedBar
<1>1. \A r \in Rank : missedBar'[r] = missedBar[r]
  <2>1. \A r \in Rank : \A p : p \in missedBar'[r] <=> p \in missedBar[r]
    BY Mapped
  <2> QED
    BY <2>1
<1> QED
  BY <1>1, Mapped

LEMMA NoneMissed ==
    ASSUME VInv, VInv', \A p \in Particle, r \in Rank : ~(MissedBy(p, r))'
    PROVE  missedBar' = [r \in Rank |-> {}]
<1>1. \A r \in Rank : missedBar'[r] = {}
  <2>1. \A r \in Rank : \A p : p \notin missedBar'[r]
    BY Mapped
  <2> QED
    BY <2>1
<1> QED
  BY <1>1, Mapped

LEMMA Stutters ==
    ASSUME VInv, VInv', home' = home, iter' = iter,
           \A r \in Rank : mode'[r] = mode[r] \/ StageOf(r) = "moved",
           \A p \in Particle, r \in Rank : (OwnBy(p, r))' <=> OwnBy(p, r),
           \A r \in Rank : (StageOf(r))' = StageOf(r)
    PROVE  UNCHANGED R!vars
<1>1. UNCHANGED <<ownBar, transitBar>>
  BY SameOwners
<1>2. stageBar' = stageBar
  BY Mapped
<1>3. missedBar' = missedBar
  <2>1. \A p \in Particle, r \in Rank : (MissedBy(p, r))' <=> MissedBy(p, r)
    BY DEF MissedBy
  <2> QED
    BY <2>1, SameMissed
<1> QED
  BY <1>1, <1>2, <1>3 DEF R!vars

(* What no other rank and no message has is with this rank.                *)
LEMMA OnlyThis ==
    ASSUME VInv, VInv', NEW r \in Rank, wire' = wire,
           \A x \in Particle, s \in Rank : s # r =>
               /\ (InVector(x, s))' <=> InVector(x, s)
               /\ (InBuffer(x, s))' <=> InBuffer(x, s)
    PROVE  \A x \in Particle : (InVector(x, r))' \/ (InBuffer(x, r))' <=>
                                   InVector(x, r) \/ InBuffer(x, r)
<1> TAKE x \in Particle
<1> DEFINE Elsewhere == \/ \E s \in Rank : s # r /\ (\/ InVector(x, s)
                                                      \/ InBuffer(x, s))
                        \/ \E m \in wire : InMessage(x, m)
<1>1. InVector(x, r) \/ InBuffer(x, r) <=> ~Elsewhere
  BY DEF VInv, Apart, Somewhere
<1>2. (InVector(x, r))' \/ (InBuffer(x, r))' <=> ~Elsewhere
  <2>1. /\ \A s, t \in Rank : (InVector(x, s))' /\ (InVector(x, t))' => s = t
        /\ \A s, t \in Rank : (InBuffer(x, s))' /\ (InBuffer(x, t))' => s = t
        /\ \A s, t \in Rank : ~((InVector(x, s))' /\ (InBuffer(x, t))')
        /\ \A s \in Rank, m \in wire :
              ~((InVector(x, s))' /\ InMessage(x, m))
        /\ \A s \in Rank, m \in wire :
              ~((InBuffer(x, s))' /\ InMessage(x, m))
    BY DEF VInv, Apart
  <2>2. \/ \E s \in Rank : (InVector(x, s))' \/ (InBuffer(x, s))'
        \/ \E m \in wire : InMessage(x, m)
    BY DEF VInv, Somewhere
  <2> QED
    BY <2>1, <2>2
<1> QED
  BY <1>1, <1>2

LEMMA ComputeMaps ==
    ASSUME VInv, VInv', NEW r \in Rank, ComputeOneStep(r)
    PROVE  R!Move(r)
<1>1. /\ pc[r] = "ready" /\ pc \in [Rank -> Stages]
      /\ \A s \in Rank : pc[s] \in {"ready", "moved"}
      /\ iter[r] < MaxIter
      /\ pc' = [pc EXCEPT ![r] = "moved"]
      /\ iter' = [iter EXCEPT ![r] = @ + 1]
      /\ els' = els /\ buf' = buf /\ todo' = todo /\ wire' = wire
      /\ mode' = mode
  BY DEF ComputeOneStep, VInv, Types
<1>2. \A s \in Rank : pc'[s] = IF s = r THEN "moved" ELSE pc[s]
  BY <1>1
<1>3. \A s \in Rank : ~Balancing(s) /\ ~(Balancing(s))'
  BY <1>1, <1>2 DEF Balancing
<1>4. \A p \in Particle, s \in Rank :
          /\ OwnBy(p, s) <=> InVector(p, s)
          /\ (OwnBy(p, s))' <=> InVector(p, s)
  <2>1. \A s \in Rank : (Standing(s))' = Standing(s)
    BY <1>1, <1>2 DEF Standing
  <2>2. \A p \in Particle, s \in Rank : (InVector(p, s))' <=> InVector(p, s)
    BY <1>1, <2>1 DEF InVector
  <2>3. \A s \in Rank : pc[s] # "extract" /\ pc'[s] # "extract"
    BY <1>1, <1>2
  <2> QED
    BY <1>3, <2>2, <2>3 DEF OwnBy
<1>5. UNCHANGED <<ownBar, transitBar>>
  BY <1>4, SameOwners
<1>6. ownBar[r] = ToSet(els[r])
  <2>1. \A k \in DOMAIN els[r] : els[r][k] \in Particle
    BY <1>1, Quiet
  <2>2. \A p : p \in ToSet(els[r]) => p \in Particle
    BY <2>1 DEF ToSet
  <2>3. \A p \in Particle : InVector(p, r) <=> p \in ToSet(els[r])
    BY <1>1, OutOfDrop
  <2> QED
    BY <1>4, <2>2, <2>3, Mapped
<1>7. \E h \in [ownBar[r] -> Rank] :
          home' = [p \in Particle |-> IF p \in ownBar[r] THEN h[p] ELSE home[p]]
  <2>1. PICK h \in [ToSet(els[r]) -> Rank] :
            home' = [p \in Particle |-> IF p \in DOMAIN h THEN h[p]
                                        ELSE home[p]]
    BY DEF ComputeOneStep
  <2>2. DOMAIN h = ToSet(els[r])
    OBVIOUS
  <2>3. home' = [p \in Particle |-> IF p \in ToSet(els[r]) THEN h[p]
                                    ELSE home[p]]
    BY <2>1, <2>2
  <2> QED
    BY <1>6, <2>3
<1>8. /\ \A s \in Rank : /\ StageOf(s) = IF pc[s] = "ready" THEN "ready"
                                         ELSE "moved"
                         /\ (StageOf(s))' = IF s = r THEN "moved"
                                            ELSE StageOf(s)
  BY <1>1, <1>2, <1>3 DEF StageOf
<1>9. /\ stageBar[r] = "ready" /\ \A s \in Rank : stageBar[s] # "inside"
      /\ stageBar' = [stageBar EXCEPT ![r] = "moved"]
  <2>1. /\ stageBar = [s \in Rank |-> StageOf(s)]
        /\ stageBar' = [s \in Rank |-> (StageOf(s))']
    BY Mapped
  <2>2. stageBar[r] = "ready" /\ \A s \in Rank : stageBar[s] # "inside"
    BY <1>1, <1>8, <2>1
  <2>3. stageBar' = [stageBar EXCEPT ![r] = "moved"]
    BY <1>8, <2>1
  <2> QED
    BY <2>2, <2>3
<1>10. missedBar' = [missedBar EXCEPT ![r] = {}]
  <2>1. \A x \in Particle : ~(MissedBy(x, r))'
    BY <1>8 DEF MissedBy
  <2>2. ASSUME NEW s \in Rank, s # r, NEW x \in Particle
        PROVE  (MissedBy(x, s))' <=> MissedBy(x, s)
    <3>1. (OwnBy(x, s))' <=> OwnBy(x, s)
      BY <1>4
    <3>2. OwnBy(x, s) => x \notin ownBar[r]
      BY <2>2, OwnOnce, Mapped
    <3>3. OwnBy(x, s) => home'[x] = home[x]
      BY <1>7, <3>2
    <3>4. (StageOf(s))' = StageOf(s)
      BY <1>8, <2>2
    <3> QED
      BY <1>1, <3>1, <3>3, <3>4 DEF MissedBy
  <2>3. \A x : x \notin missedBar'[r]
    BY <2>1, Mapped
  <2>4. \A s \in Rank : s # r => \A x : x \in missedBar'[s] <=>
                                         x \in missedBar[s]
    BY <2>2, Mapped
  <2>5. missedBar'[r] = {} /\ \A s \in Rank : s # r =>
                                   missedBar'[s] = missedBar[s]
    BY <2>3, <2>4
  <2>6. /\ missedBar = [s \in Rank |-> missedBar[s]]
        /\ missedBar' = [s \in Rank |-> missedBar'[s]]
    BY Mapped
  <2> QED
    BY <2>5, <2>6
<1> QED
  BY <1>1, <1>5, <1>7, <1>9, <1>10 DEF R!Move

LEMMA RepartitionMaps ==
    ASSUME VInv, VInv', \A r \in Rank : pc[r] = "moved", iter' = iter,
           home' \in [Particle -> Rank],
           \A r \in Rank : (StageOf(r))' = "ready",
           \A p \in Particle, r \in Rank : (OwnBy(p, r))' <=> home'[p] = r
    PROVE  R!Repartition
<1>1. \A r \in Rank : StageOf(r) = "moved"
  BY DEF StageOf, Balancing
<1>2. \A r \in Rank : stageBar[r] = "moved"
  <2>1. stageBar = [r \in Rank |-> StageOf(r)]
    BY Mapped
  <2> QED
    BY <1>1, <2>1
<1>3. stageBar' = [r \in Rank |-> "ready"]
  <2>1. stageBar' = [r \in Rank |-> (StageOf(r))']
    BY Mapped
  <2> QED
    BY <2>1
<1>4. \A r, s \in Rank : iter[r] = iter[s]
  BY DEF VInv, Paced
<1>5. ownBar' = [r \in Rank |-> R!Held(home', r)]
  <2>1. \A r \in Rank : \A p : p \in ownBar'[r] <=>
                                   p \in Particle /\ home'[p] = r
    BY Mapped
  <2>2. \A r \in Rank : ownBar'[r] = {p \in Particle : home'[p] = r}
    BY <2>1
  <2>3. ownBar' = [r \in Rank |-> ownBar'[r]]
    BY Mapped
  <2> QED
    BY <2>2, <2>3 DEF R!Held
<1>6. transitBar' = transitBar
  <2>1. ASSUME NEW p \in Particle PROVE \E r \in Rank : OwnBy(p, r)
    <3>1. wire = {} /\ \A r, d \in Rank : buf[r][d] = <<>>
      BY Quiet
    <3>2. \A x : x \notin ToSet(<<>>)
      BY DEF ToSet
    <3>3. PICK r \in Rank : InVector(p, r)
      BY <3>1, <3>2 DEF VInv, Somewhere, InBuffer
    <3>4. ~Balancing(r)
      BY DEF Balancing
    <3> QED
      BY <3>3, <3>4 DEF OwnBy
  <2>2. \A p : p \notin transitBar
    BY <2>1, Mapped
  <2>3. \A p : p \notin transitBar'
    BY Mapped
  <2> QED
    BY <2>2, <2>3
<1>7. missedBar' = [r \in Rank |-> {}]
  BY NoneMissed DEF MissedBy
<1> QED
  BY <1>2, <1>3, <1>4, <1>5, <1>6, <1>7 DEF R!Repartition

LEMMA ReadyOwn ==
    VInv => ((\A r \in Rank : pc[r] = "ready" /\ Thorough(r)) =>
                \A p \in Particle, r \in Rank : OwnBy(p, r) <=> home[p] = r)
<1> SUFFICES ASSUME VInv, \A r \in Rank : pc[r] = "ready" /\ Thorough(r),
                    NEW p \in Particle, NEW r \in Rank
             PROVE  OwnBy(p, r) <=> home[p] = r
  OBVIOUS
<1>1. OwnBy(p, r) <=> InVector(p, r)
  BY DEF OwnBy, Balancing
<1> QED
  BY <1>1, Gathered

LEMMA MigrationMaps ==
    ASSUME VInv, VInv', DecideMigration
    PROVE  R!Repartition \/ UNCHANGED R!vars
<1>1. /\ \A s \in Rank : pc[s] = "moved"
      /\ pc' = [r \in Rank |-> IF Cardinality(Rank) = 1 THEN "ready"
                               ELSE "extract"]
      /\ buf' = [s \in Rank |-> NoBuffer]
      /\ els' = els /\ home' = home /\ todo' = todo /\ wire' = wire
      /\ iter' = iter
  BY DEF DecideMigration
<1>2. \A s \in Rank : mode'[s] # "balance"
  BY DEF DecideMigration
<1>3. \A s \in Rank : ~(Balancing(s))' /\ ~Balancing(s)
  BY <1>1, <1>2 DEF Balancing
<1>4. CASE Cardinality(Rank) = 1
  <2>1. \A r \in Rank : pc'[r] = "ready" /\ Rank = {r}
    <3>1. PICK x : Rank = {x}
      BY <1>4, FiniteAssumption, FS_Singleton
    <3> QED
      BY <1>1, <1>4, <3>1
  <2>2. \A p \in Particle, r \in Rank : (OwnBy(p, r))' <=> home'[p] = r
    <3>1. ((\A r \in Rank : pc[r] = "ready" /\ Thorough(r)) =>
              \A p \in Particle, r \in Rank : OwnBy(p, r) <=> home[p] = r)'
      BY ReadyOwn, PTL
    <3>2. \A r \in Rank : (Thorough(r))'
      BY <2>1 DEF Thorough
    <3> QED
      BY <2>1, <3>1, <3>2
  <2>3. \A r \in Rank : (StageOf(r))' = "ready"
    BY <2>1 DEF StageOf
  <2>4. home' \in [Particle -> Rank]
    BY DEF VInv, Types
  <2> QED
    BY <1>1, <2>2, <2>3, <2>4, RepartitionMaps
<1>5. CASE Cardinality(Rank) # 1
  <2>1. \A r \in Rank : pc'[r] = "extract"
    BY <1>1, <1>5
  <2>2. \A r \in Rank : (StageOf(r))' = StageOf(r)
    BY <1>1, <1>3, <2>1 DEF StageOf
  <2>3. \A p \in Particle, r \in Rank : ~(InBuffer(p, r))'
    <3>1. \A x : x \notin ToSet(<<>>)
      BY DEF ToSet
    <3> QED
      BY <1>1, <3>1 DEF InBuffer, NoBuffer
  <2>4. \A p \in Particle, r \in Rank : (InVector(p, r))' <=> InVector(p, r)
    BY <1>1, <2>1 DEF InVector, Standing
  <2>5. \A p \in Particle, r \in Rank : (OwnBy(p, r))' <=> OwnBy(p, r)
    BY <1>1, <1>3, <2>3, <2>4 DEF OwnBy
  <2>6. \A r \in Rank : StageOf(r) = "moved"
    BY <1>1, <1>3 DEF StageOf
  <2> QED
    BY <1>1, <2>2, <2>5, <2>6, Stutters
<1> QED
  BY <1>4, <1>5

LEMMA BalancingMaps ==
    ASSUME VInv, VInv', DecideBalancing
    PROVE  R!Repartition
<1>1. /\ \A s \in Rank : pc[s] = "moved"
      /\ home' \in [Particle -> Rank]
      /\ pc' = Partitioned(els, home').pc
      /\ mode' = [s \in Rank |-> "balance"]
      /\ els' = els /\ iter' = iter
  BY DEF DecideBalancing
<1>2. \/ \A r \in Rank : pc'[r] = "pack"
      \/ \A r \in Rank : pc'[r] = "ready"
  BY <1>1 DEF Partitioned
<1>3. \A r \in Rank : (StageOf(r))' = "ready"
  BY <1>1, <1>2 DEF StageOf, Balancing
<1>4. \A p \in Particle, r \in Rank : (OwnBy(p, r))' <=> home'[p] = r
  <2>1. CASE \A r \in Rank : pc'[r] = "pack"
    <3>1. \A r \in Rank : (Balancing(r))'
      BY <1>1, <2>1 DEF Balancing
    <3> QED
      BY <3>1 DEF OwnBy
  <2>2. CASE \A r \in Rank : pc'[r] = "ready"
    <3>1. ((\A r \in Rank : pc[r] = "ready" /\ Thorough(r)) =>
              \A p \in Particle, r \in Rank : OwnBy(p, r) <=> home[p] = r)'
      BY ReadyOwn, PTL
    <3>2. \A r \in Rank : (Thorough(r))'
      BY <1>1 DEF Thorough
    <3> QED
      BY <2>2, <3>1, <3>2
  <2> QED
    BY <1>2, <2>1, <2>2
<1> QED
  BY <1>1, <1>3, <1>4, RepartitionMaps

(* A rank enters when its loop is over.                                    *)
LEMMA EnterMaps ==
    ASSUME VInv, VInv', NEW r \in Rank,
           Announce(r) \/ Listed(r) \/ Collect(r)
    PROVE  \E found \in SUBSET R!Left(r) : R!Enter(r, found)
<1>1. /\ pc[r] = "extract" /\ mode[r] # "balance"
      /\ \E stage \in {"drop", "post"} : pc' = [pc EXCEPT ![r] = stage]
      /\ els' = els /\ home' = home /\ wire' = wire /\ mode' = mode
      /\ iter' = iter
  BY DEF Announce, Listed, Collect
<1>2. pc \in [Rank -> Stages]
  BY DEF VInv, Types
<1>3. /\ pc'[r] \in {"drop", "post"}
      /\ \A s \in Rank : s # r => pc'[s] = pc[s] /\ buf'[s] = buf[s]
                                  /\ todo'[s] = todo[s]
  <2>1. pc'[r] \in {"drop", "post"} /\ \A s \in Rank : s # r => pc'[s] = pc[s]
    BY <1>1, <1>2
  <2>2. \A s \in Rank : s # r => buf'[s] = buf[s]
    BY ZenonT(60) DEF Announce, Listed, Collect, VInv, Types
  <2>3. \A s \in Rank : s # r => todo'[s] = todo[s]
    BY ZenonT(60) DEF Announce, Listed, Collect, VInv, Types
  <2> QED
    BY <2>1, <2>2, <2>3
<1>4. \A s \in Rank : ~Balancing(s) /\ ~(Balancing(s))'
  BY <1>1 DEF Balancing, VInv, Together
<1>5. \A x \in Particle, s \in Rank : s # r =>
          /\ (InVector(x, s))' <=> InVector(x, s)
          /\ (InBuffer(x, s))' <=> InBuffer(x, s)
  <2>1. \A s \in Rank : s # r => (Standing(s))' = Standing(s)
    BY <1>1, <1>3 DEF Standing
  <2> QED
    BY <1>1, <1>3, <2>1 DEF InVector, InBuffer
<1>6. \A x \in Particle : (InVector(x, r))' \/ (InBuffer(x, r))' <=>
                              InVector(x, r) \/ InBuffer(x, r)
  BY <1>1, <1>5, OnlyThis
<1>7. ASSUME NEW x \in Particle, (InVector(x, r))', mode[r] # "cells"
      PROVE  home[x] = r
  <2>1. PICK k \in (Standing(r))' : els[r][k] = x
    BY <1>1, <1>7 DEF InVector
  <2>2. k \in DOMAIN els[r] /\ (pc'[r] = "drop" => \A y \in todo'[r] : y.lid # k)
    BY <1>1, <2>1 DEF Standing
  <2>3. x # Marked
    BY NoMarks
  <2> QED
    BY <1>1, <1>3, <1>7, <2>1, <2>2, <2>3 DEF VInv, Contents
<1>8. ASSUME NEW x \in Particle, (InBuffer(x, r))' PROVE home[x] # r
  <2>1. PICK d \in Rank : x \in ToSet(buf'[r][d])
    BY <1>8 DEF InBuffer
  <2>2. PICK k \in DOMAIN buf'[r][d] : buf'[r][d][k] = x
    BY <2>1 DEF ToSet
  <2>3. buf'[r][d] # <<>>
    BY <2>2
  <2> QED
    BY <1>1, <2>2, <2>3 DEF VInv, Buffers
<1>8a. PICK found : found = {x \in ownBar[r] : ~(OwnBy(x, r))'}
  OBVIOUS
<1>9. \A x \in Particle :
          /\ (OwnBy(x, r))' => OwnBy(x, r)
          /\ (OwnBy(x, r))' /\ home[x] # r => mode[r] = "cells"
          /\ OwnBy(x, r) /\ ~(OwnBy(x, r))' => home[x] # r
  <2>1. \A x \in Particle : /\ (OwnBy(x, r))' <=> (InVector(x, r))'
                            /\ OwnBy(x, r) <=> InVector(x, r) \/ InBuffer(x, r)
    BY <1>1, <1>3, <1>4 DEF OwnBy
  <2> QED
    BY <1>6, <1>7, <1>8, <2>1
<1>10. \A x \in Particle, s \in Rank : s # r => ((OwnBy(x, s))' <=> OwnBy(x, s))
  BY <1>3, <1>4, <1>5 DEF OwnBy
<1>10a. \A x : /\ x \in found <=> x \in ownBar[r] /\ x \notin ownBar'[r]
               /\ x \in ownBar'[r] => x \in ownBar[r]
               /\ x \in found => x \in Particle /\ home[x] # r
  BY <1>8a, <1>9, Mapped
<1>11. ownBar' = [ownBar EXCEPT ![r] = @ \ found]
  <2>1. ownBar'[r] = ownBar[r] \ found
    BY <1>10a
  <2>2. \A s \in Rank : s # r => ownBar'[s] = ownBar[s]
    <3>1. \A s \in Rank : s # r =>
              \A x : x \in ownBar'[s] <=> x \in ownBar[s]
      BY <1>10, Mapped
    <3> QED
      BY <3>1
  <2>3. /\ ownBar = [s \in Rank |-> ownBar[s]]
        /\ ownBar' = [s \in Rank |-> ownBar'[s]]
    BY Mapped
  <2> QED
    BY <2>1, <2>2, <2>3
<1>12. transitBar' = transitBar \cup found
  <2>1. \A x \in Particle : (\A s \in Rank : ~(OwnBy(x, s))') <=>
            (\A s \in Rank : ~OwnBy(x, s)) \/ (OwnBy(x, r) /\ ~(OwnBy(x, r))')
    BY <1>9, <1>10, OwnOnce
  <2>2. \A x : x \in found <=> /\ x \in Particle
                               /\ OwnBy(x, r) /\ ~(OwnBy(x, r))'
    BY <1>10a, Mapped
  <2>3. \A x : x \in transitBar' <=> x \in transitBar \/ x \in found
    BY <2>1, <2>2, Mapped
  <2> QED
    BY <2>3
<1>13. /\ stageBar[r] = "moved"
       /\ stageBar' = [stageBar EXCEPT ![r] = "inside"]
  <2>1. /\ stageBar = [s \in Rank |-> StageOf(s)]
        /\ stageBar' = [s \in Rank |-> (StageOf(s))']
    BY Mapped
  <2>2. StageOf(r) = "moved" /\ (StageOf(r))' = "inside"
    BY <1>1, <1>3, <1>4 DEF StageOf
  <2>3. \A s \in Rank : s # r => (StageOf(s))' = StageOf(s)
    BY <1>3, <1>4 DEF StageOf
  <2>4. stageBar[r] = "moved"
    BY <2>1, <2>2
  <2>5. stageBar' = [stageBar EXCEPT ![r] = "inside"]
    BY <2>1, <2>2, <2>3
  <2> QED
    BY <2>4, <2>5
<1>14. missedBar' = [missedBar EXCEPT ![r] = R!Left(r) \ found]
  <2>1. (StageOf(r))' = "inside"
    BY <1>1, <1>3, <1>4 DEF StageOf
  <2>2. \A x : x \in missedBar'[r] <=> x \in R!Left(r) /\ x \notin found
    <3>1. \A x : x \in missedBar'[r] <=>
                  x \in Particle /\ (OwnBy(x, r))' /\ home[x] # r
      BY <1>1, <1>9, <2>1, Mapped DEF MissedBy
    <3>2. \A x : x \in missedBar'[r] <=> x \in ownBar'[r] /\ home[x] # r
      BY <3>1, Mapped
    <3> QED
      BY <1>10a, <3>2 DEF R!Left
  <2>3. missedBar'[r] = R!Left(r) \ found
    BY <2>2
  <2>4. \A s \in Rank : s # r => missedBar'[s] = missedBar[s]
    <3>1. \A s \in Rank : s # r => (StageOf(s))' = StageOf(s)
      BY <1>3, <1>4 DEF StageOf
    <3>2. \A s \in Rank : s # r => \A x \in Particle :
              (MissedBy(x, s))' <=> MissedBy(x, s)
      BY <1>1, <1>10, <3>1 DEF MissedBy
    <3>3. \A s \in Rank : s # r => \A x : x \in missedBar'[s] <=>
                                           x \in missedBar[s]
      BY <3>2, Mapped
    <3> QED
      BY <3>3
  <2>5. /\ missedBar = [s \in Rank |-> missedBar[s]]
        /\ missedBar' = [s \in Rank |-> missedBar'[s]]
    BY Mapped
  <2> QED
    BY <2>3, <2>4, <2>5
<1>15. found \in SUBSET R!Left(r)
  BY <1>10a DEF R!Left
<1> QED
  BY <1>1, <1>11, <1>12, <1>13, <1>14, <1>15 DEF R!Enter

(* A loop that takes out or puts in changes nobody's particles.            *)
LEMMA LoopMaps ==
    ASSUME VInv, VInv', NEW r \in Rank,
           Extract(r) \/ Drop(r) \/ Pack(r) \/ Compact(r)
    PROVE  UNCHANGED R!vars
<1>1. /\ home' = home /\ pc' = pc /\ mode' = mode /\ wire' = wire
      /\ iter' = iter
      /\ pc[r] \in {"extract", "drop", "pack", "compact"}
      /\ pc[r] = "drop" => buf' = buf
  BY DEF Extract, Drop, Pack, Compact
<1>2. \A s \in Rank : s # r => /\ els'[s] = els[s] /\ buf'[s] = buf[s]
                               /\ todo'[s] = todo[s]
  <2>1. /\ els \in [Rank -> Seq(Element)]
        /\ buf \in [Rank -> [Rank -> Seq(Particle)]]
        /\ todo \in [Rank -> SUBSET [gid : Particle, lid : Nat]]
    BY DEF VInv, Types
  <2> TAKE s \in Rank
  <2> HAVE s # r
  <2>2. CASE Extract(r)
    BY <2>1, <2>2 DEF Extract
  <2>3. CASE Drop(r)
    BY <2>1, <2>3 DEF Drop
  <2>4. CASE Pack(r)
    BY <2>1, <2>4 DEF Pack
  <2>5. CASE Compact(r)
    BY <2>1, <2>5 DEF Compact
  <2> QED
    BY <2>2, <2>3, <2>4, <2>5
<1>3. \A s \in Rank : (Balancing(s))' <=> Balancing(s)
  BY <1>1 DEF Balancing
<1>4. \A x \in Particle, s \in Rank : s # r =>
          /\ (InVector(x, s))' <=> InVector(x, s)
          /\ (InBuffer(x, s))' <=> InBuffer(x, s)
  <2>1. \A s \in Rank : s # r => (Standing(s))' = Standing(s)
    BY <1>1, <1>2 DEF Standing
  <2> QED
    BY <1>2, <2>1 DEF InVector, InBuffer
<1>5. \A x \in Particle : (InVector(x, r))' \/ (InBuffer(x, r))' <=>
                              InVector(x, r) \/ InBuffer(x, r)
  BY <1>1, <1>4, OnlyThis
<1>6. \A x \in Particle : (OwnBy(x, r))' <=> OwnBy(x, r)
  <2> TAKE x \in Particle
  <2>1. CASE pc[r] \in {"pack", "compact"}
    <3>1. Balancing(r)
      BY <2>1 DEF Balancing, VInv, Together
    <3> QED
      BY <1>1, <1>3, <3>1 DEF OwnBy
  <2>2. CASE pc[r] = "extract"
    <3>1. ~Balancing(r)
      BY <2>2 DEF Balancing, VInv, Together
    <3> QED
      BY <1>1, <1>3, <1>5, <2>2, <3>1 DEF OwnBy
  <2>3. CASE pc[r] = "drop"
    <3>1. ~Balancing(r)
      BY <2>3 DEF Balancing, VInv, Together
    <3>2. (InBuffer(x, r))' <=> InBuffer(x, r)
      BY <1>1, <2>3 DEF InBuffer
    <3>3. /\ ~(InVector(x, r) /\ InBuffer(x, r))
          /\ ~((InVector(x, r))' /\ (InBuffer(x, r))')
      BY DEF VInv, Apart
    <3>4. (InVector(x, r))' <=> InVector(x, r)
      BY <1>5, <3>2, <3>3
    <3> QED
      BY <1>1, <1>3, <2>3, <3>1, <3>4 DEF OwnBy
  <2> QED
    BY <1>1, <2>1, <2>2, <2>3
<1>7. \A x \in Particle, s \in Rank : (OwnBy(x, s))' <=> OwnBy(x, s)
  <2>1. \A x \in Particle, s \in Rank : s # r =>
            ((OwnBy(x, s))' <=> OwnBy(x, s))
    BY <1>1, <1>3, <1>4 DEF OwnBy
  <2> QED
    BY <1>6, <2>1
<1>8. \A s \in Rank : (StageOf(s))' = StageOf(s)
  BY <1>1, <1>3 DEF StageOf
<1> QED
  BY <1>1, <1>7, <1>8, Stutters

(* A rank stays inside, and its vector as it is.                           *)
LEMMA PassMaps ==
    ASSUME VInv, VInv', NEW r \in Rank,
           PackedAll(r) \/ Post(r)
    PROVE  UNCHANGED R!vars
<1>1. /\ pc[r] \in {"pack", "post"}
      /\ \E stage \in {"post", "receive"} : pc' = [pc EXCEPT ![r] = stage]
      /\ els' = els /\ home' = home /\ mode' = mode /\ iter' = iter
      /\ todo' = todo
      /\ pc[r] = "pack" => buf' = buf
  BY DEF PackedAll, Post
<1>2. pc \in [Rank -> Stages]
  BY DEF VInv, Types
<1>3. /\ pc'[r] \in {"post", "receive"}
      /\ \A s \in Rank : s # r => pc'[s] = pc[s] /\ buf'[s] = buf[s]
  <2>1. pc'[r] \in {"post", "receive"} /\ \A s \in Rank : s # r => pc'[s] = pc[s]
    BY <1>1, <1>2
  <2>2. \A s \in Rank : s # r => buf'[s] = buf[s]
    BY ZenonT(60) DEF PackedAll, Post, VInv, Types
  <2> QED
    BY <2>1, <2>2
<1>4. /\ \A s \in Rank : (Balancing(s))' <=> Balancing(s)
      /\ pc[r] = "pack" => Balancing(r)
  BY <1>1, <1>3 DEF Balancing, VInv, Together
<1>5. \A x \in Particle, s \in Rank : (InVector(x, s))' <=> InVector(x, s)
  <2>1. \A s \in Rank : (Standing(s))' = Standing(s)
    BY <1>1, <1>3 DEF Standing
  <2> QED
    BY <1>1, <2>1 DEF InVector
<1>6. \A x \in Particle, s \in Rank : (OwnBy(x, s))' <=> OwnBy(x, s)
  <2> TAKE x \in Particle, s \in Rank
  <2>1. CASE s = r
    <3>1. pc[r] # "extract" /\ pc'[r] # "extract"
      BY <1>1, <1>3
    <3> QED
      BY <1>1, <1>4, <1>5, <2>1, <3>1 DEF OwnBy
  <2>2. CASE s # r
    <3>1. pc'[s] = pc[s] /\ buf'[s] = buf[s]
      BY <1>3, <2>2
    <3>2. (InBuffer(x, s))' <=> InBuffer(x, s)
      BY <3>1 DEF InBuffer
    <3> QED
      BY <1>1, <1>4, <1>5, <3>1, <3>2 DEF OwnBy
  <2> QED
    BY <2>1, <2>2
<1>7. \A s \in Rank : (StageOf(s))' = StageOf(s)
  <2> TAKE s \in Rank
  <2>1. CASE s = r
    BY <1>1, <1>3, <1>4, <2>1 DEF StageOf
  <2>2. CASE s # r
    BY <1>3, <1>4, <2>2 DEF StageOf
  <2> QED
    BY <2>1, <2>2
<1> QED
  BY <1>1, <1>6, <1>7, Stutters

LEMMA InvertMaps ==
    ASSUME VInv, VInv', InvertLists
    PROVE  UNCHANGED R!vars
<1>1. /\ \A s \in Rank : pc[s] = "drop" /\ todo[s] = {}
      /\ pc' = [s \in Rank |-> "post"]
      /\ els' = els /\ home' = home /\ mode' = mode /\ iter' = iter
  BY DEF InvertLists
<1>2. \A s \in Rank : pc'[s] = "post" /\ ~Balancing(s) /\ ~(Balancing(s))'
  BY <1>1 DEF Balancing, VInv, Together
<1>3. \A x \in Particle, s \in Rank : (InVector(x, s))' <=> InVector(x, s)
  BY <1>1, <1>2 DEF InVector, Standing
<1>4. \A x \in Particle, s \in Rank : (OwnBy(x, s))' <=> OwnBy(x, s)
  BY <1>1, <1>2, <1>3 DEF OwnBy
<1>5. \A s \in Rank : (StageOf(s))' = StageOf(s)
  BY <1>1, <1>2 DEF StageOf
<1> QED
  BY <1>1, <1>4, <1>5, Stutters

(* After a balancing everything is where Zoltan wants it.                  *)
LEMMA CompactedMaps ==
    ASSUME VInv, VInv', NEW r \in Rank, Compacted(r)
    PROVE  UNCHANGED R!vars
<1>1. /\ pc[r] = "compact" /\ pc' = [pc EXCEPT ![r] = "ready"]
      /\ els' = els /\ home' = home /\ mode' = mode /\ iter' = iter
      /\ todo' = todo /\ buf' = buf
  BY DEF Compacted
<1>2. /\ pc'[r] = "ready"
      /\ \A s \in Rank : s # r => pc'[s] = pc[s]
  <2>1. pc \in [Rank -> Stages]
    BY DEF VInv, Types
  <2> QED
    BY <1>1, <2>1
<1>3. /\ Balancing(r) /\ ~(Balancing(r))'
      /\ \A s \in Rank : s # r => ((Balancing(s))' <=> Balancing(s))
  BY <1>1, <1>2 DEF Balancing, VInv, Together
<1>4. \A x \in Particle, s \in Rank :
          /\ (InVector(x, s))' <=> InVector(x, s)
          /\ (InBuffer(x, s))' <=> InBuffer(x, s)
  <2>1. \A s \in Rank : (Standing(s))' = Standing(s)
    BY <1>1, <1>2 DEF Standing
  <2> QED
    BY <1>1, <2>1 DEF InVector, InBuffer
<1>5. \A x \in Particle : (OwnBy(x, r))' <=> OwnBy(x, r)
  <2>1. \A s \in Rank : pc[s] # "moved"
    BY <1>1 DEF VInv, Together
  <2>2. \A x \in Particle : InVector(x, r) <=> home[x] = r
    BY <1>1, <1>3, <2>1, Gathered DEF Thorough, Balancing
  <2> QED
    BY <1>2, <1>3, <1>4, <2>2 DEF OwnBy
<1>6. \A x \in Particle, s \in Rank : (OwnBy(x, s))' <=> OwnBy(x, s)
  <2>1. \A x \in Particle, s \in Rank : s # r =>
            ((OwnBy(x, s))' <=> OwnBy(x, s))
    BY <1>1, <1>2, <1>3, <1>4 DEF OwnBy
  <2> QED
    BY <1>5, <2>1
<1>7. \A s \in Rank : (StageOf(s))' = StageOf(s)
  <2> TAKE s \in Rank
  <2>1. CASE s = r
    BY <1>2, <1>3, <2>1 DEF StageOf
  <2>2. CASE s # r
    BY <1>2, <1>3, <2>2 DEF StageOf
  <2> QED
    BY <2>1, <2>2
<1> QED
  BY <1>1, <1>6, <1>7, Stutters

LEMMA ReceiveMaps ==
    ASSUME VInv, VInv', NEW r \in Rank, NEW m \in wire, Receive(r, m)
    PROVE  \/ \E a \in SUBSET {p \in transitBar : home[p] = r} : R!Take(r, a)
           \/ UNCHANGED R!vars
<1>1. /\ pc[r] = "receive" /\ m.to = r
      /\ els' = [els EXCEPT ![r] = @ \o m.data]
      /\ wire' = wire \ {m}
      /\ home' = home /\ todo' = todo /\ buf' = buf /\ mode' = mode
      /\ pc' = pc /\ iter' = iter
  BY DEF Receive
<1>2. \A s \in Rank : s # r => els'[s] = els[s]
  BY <1>1 DEF VInv, Types
<1>3. \A s \in Rank : (Balancing(s))' <=> Balancing(s)
  BY <1>1 DEF Balancing
<1>4. /\ \A x \in Particle, s \in Rank : s # r =>
             ((InVector(x, s))' <=> InVector(x, s))
      /\ \A x \in Particle, s \in Rank : (InBuffer(x, s))' <=> InBuffer(x, s)
  <2>1. \A s \in Rank : s # r => (Standing(s))' = Standing(s)
    BY <1>1, <1>2 DEF Standing
  <2> QED
    BY <1>1, <1>2, <2>1 DEF InVector, InBuffer
<1>5. \A s \in Rank : (StageOf(s))' = StageOf(s)
  BY <1>1, <1>3 DEF StageOf
<1>6. \A x \in Particle, s \in Rank : s # r => ((OwnBy(x, s))' <=> OwnBy(x, s))
  BY <1>1, <1>3, <1>4 DEF OwnBy
<1>7. CASE Balancing(r)
  <2>1. \A x \in Particle : (OwnBy(x, r))' <=> OwnBy(x, r)
    BY <1>1, <1>3, <1>7 DEF OwnBy
  <2>2. \A x \in Particle, s \in Rank : (OwnBy(x, s))' <=> OwnBy(x, s)
    BY <1>6, <2>1
  <2> QED
    BY <1>1, <1>5, <2>2, Stutters
<1>8. CASE ~Balancing(r)
  <2> DEFINE arrived == ToSet(m.data)
  <2>1. /\ m.data \in Seq(Particle) /\ arrived # {} /\ arrived \subseteq Particle
        /\ \A x \in arrived : home[x] = r
    <3>1. m.data \in Seq(Particle)
      BY DEF VInv, Types
    <3>2. m.data # <<>> /\ \A k \in DOMAIN m.data : home[m.data[k]] = r
      BY <1>1 DEF VInv, Wires
    <3>3. /\ DOMAIN m.data = 1..Len(m.data) /\ Len(m.data) \in Nat
          /\ Len(m.data) > 0
          /\ \A k \in 1..Len(m.data) : m.data[k] \in Particle
      BY <3>1, <3>2, LenProperties, EmptySeq, ElementOfSeq
    <3>4. 1 \in DOMAIN m.data
      BY <3>3
    <3> QED
      BY <3>1, <3>2, <3>3, <3>4 DEF ToSet
  <2>2. \A x \in Particle : /\ OwnBy(x, r) <=> InVector(x, r)
                            /\ (OwnBy(x, r))' <=> (InVector(x, r))'
    BY <1>1, <1>3, <1>8 DEF OwnBy
  <2>3. \A x \in Particle :
            (InVector(x, r))' <=> InVector(x, r) \/ InMessage(x, m)
    <3> TAKE x \in Particle
    <3> DEFINE Elsewhere ==
            \/ \E s \in Rank : s # r /\ InVector(x, s)
            \/ \E s \in Rank : InBuffer(x, s)
            \/ \E n \in wire' : InMessage(x, n)
    <3>1. \A n : n \in wire <=> n \in wire' \/ n = m
      BY <1>1
    <3>2. InVector(x, r) \/ InMessage(x, m) <=> ~Elsewhere
      <4>1. m \notin wire'
        BY <1>1
      <4> QED
        BY <3>1, <4>1 DEF VInv, Apart, Somewhere
    <3>3. (InVector(x, r))' <=> ~Elsewhere
      <4>1. /\ \A s, t \in Rank :
                  (InVector(x, s))' /\ (InVector(x, t))' => s = t
            /\ \A s, t \in Rank : ~((InVector(x, s))' /\ (InBuffer(x, t))')
            /\ \A s \in Rank, n \in wire' :
                  ~((InVector(x, s))' /\ InMessage(x, n))
        BY DEF VInv, Apart
      <4>2. \/ \E s \in Rank : (InVector(x, s))' \/ (InBuffer(x, s))'
            \/ \E n \in wire' : InMessage(x, n)
        BY DEF VInv, Somewhere
      <4> QED
        BY <1>4, <4>1, <4>2
    <3> QED
      BY <3>2, <3>3
  <2>4. \A x \in Particle : InMessage(x, m) <=> x \in arrived
    BY DEF InMessage
  <2>5. \A x \in Particle : (OwnBy(x, r))' <=> OwnBy(x, r) \/ x \in arrived
    BY <2>2, <2>3, <2>4
  <2>6. \A x \in arrived : \A s \in Rank : ~OwnBy(x, s)
    <3>1. \A s \in Rank : ~Balancing(s)
      <4>1. mode[r] # "balance"
        BY <1>1, <1>8 DEF Balancing
      <4> QED
        BY <4>1 DEF Balancing, VInv, Together
    <3>2. \A x \in Particle, s \in Rank :
              OwnBy(x, s) => InVector(x, s) \/ InBuffer(x, s)
      BY <3>1 DEF OwnBy
    <3> QED
      BY <2>1, <2>4, <3>2 DEF VInv, Apart
  <2> HIDE DEF arrived
  <2>7. arrived \in SUBSET {p \in transitBar : home[p] = r}
    BY <2>1, <2>6, Mapped
  <2>8. ownBar' = [ownBar EXCEPT ![r] = @ \cup arrived]
    <3>1. \A x : x \in ownBar'[r] <=> x \in ownBar[r] \cup arrived
      BY <2>1, <2>5, Mapped
    <3>2. ownBar'[r] = ownBar[r] \cup arrived
      BY <3>1
    <3>3. \A s \in Rank : s # r => ownBar'[s] = ownBar[s]
      <4>1. \A s \in Rank : s # r =>
                \A x : x \in ownBar'[s] <=> x \in ownBar[s]
        BY <1>6, Mapped
      <4> QED
        BY <4>1
    <3>4. /\ ownBar = [s \in Rank |-> ownBar[s]]
          /\ ownBar' = [s \in Rank |-> ownBar'[s]]
      BY Mapped
    <3> QED
      BY <3>2, <3>3, <3>4
  <2>9. transitBar' = transitBar \ arrived
    <3>1. \A x \in Particle : (\A s \in Rank : ~(OwnBy(x, s))') <=>
              (\A s \in Rank : ~OwnBy(x, s)) /\ x \notin arrived
      BY <1>6, <2>5
    <3>2. \A x : x \in transitBar' <=> x \in transitBar /\ x \notin arrived
      BY <3>1, Mapped
    <3> QED
      BY <3>2
  <2>10. stageBar[r] = "inside" /\ stageBar' = stageBar
    <3>1. /\ stageBar = [s \in Rank |-> StageOf(s)]
          /\ stageBar' = [s \in Rank |-> (StageOf(s))']
      BY Mapped
    <3>2. StageOf(r) = "inside"
      BY <1>1, <1>8 DEF StageOf
    <3>3. stageBar[r] = "inside"
      BY <3>1, <3>2
    <3>4. stageBar' = stageBar
      BY <1>5, <3>1
    <3> QED
      BY <3>3, <3>4
  <2>11. missedBar' = missedBar
    <3>1. \A x \in Particle, s \in Rank : (MissedBy(x, s))' <=> MissedBy(x, s)
      BY <1>1, <1>5, <1>6, <2>1, <2>5 DEF MissedBy
    <3> QED
      BY <3>1, SameMissed
  <2>12. R!Take(r, arrived)
    BY <1>1, <2>1, <2>8, <2>9, <2>10, <2>11 DEF R!Take
  <2> QED
    BY <2>7, <2>12
<1> QED
  BY <1>7, <1>8

LEMMA ReceivedAllMaps ==
    ASSUME VInv, VInv', NEW r \in Rank, ReceivedAll(r)
    PROVE  R!Leave(r) \/ UNCHANGED R!vars
<1>1. /\ pc[r] = "receive"
      /\ pc' = [pc EXCEPT ![r] = WhenReceived(mode[r])]
      /\ els' = els /\ home' = home /\ mode' = mode /\ iter' = iter
      /\ todo' = todo /\ buf' = buf
  BY DEF ReceivedAll
<1>2. /\ pc'[r] = IF mode[r] = "balance" THEN "compact" ELSE "ready"
      /\ \A s \in Rank : s # r => pc'[s] = pc[s]
  <2>1. pc \in [Rank -> Stages]
    BY DEF VInv, Types
  <2> QED
    BY <1>1, <2>1 DEF WhenReceived
<1>3. \A s \in Rank : pc[s] \notin {"moved", "extract", "drop"}
  BY <1>1 DEF VInv, Together
<1>4. \A s \in Rank : (Balancing(s))' <=> Balancing(s)
  BY <1>1, <1>2 DEF Balancing
<1>5. \A x \in Particle, s \in Rank :
          /\ (InVector(x, s))' <=> InVector(x, s)
          /\ (InBuffer(x, s))' <=> InBuffer(x, s)
  <2>1. \A s \in Rank : (Standing(s))' = Standing(s)
    BY <1>1, <1>2 DEF Standing
  <2> QED
    BY <1>1, <2>1 DEF InVector, InBuffer
<1>6. \A x \in Particle, s \in Rank : (OwnBy(x, s))' <=> OwnBy(x, s)
  <2>1. \A s \in Rank : pc[s] # "extract" /\ pc'[s] # "extract"
    BY <1>2, <1>3
  <2> QED
    BY <1>1, <1>4, <1>5, <2>1 DEF OwnBy
<1>7. \A s \in Rank : s # r => (StageOf(s))' = StageOf(s)
  BY <1>2, <1>4 DEF StageOf
<1>8. CASE mode[r] = "balance"
  <2>1. (StageOf(r))' = StageOf(r)
    BY <1>1, <1>2, <1>4, <1>8 DEF StageOf, Balancing
  <2> QED
    BY <1>1, <1>6, <1>7, <2>1, Stutters
<1>9. CASE mode[r] # "balance"
  <2>1. UNCHANGED <<ownBar, transitBar>>
    BY <1>6, SameOwners
  <2>2. \A s \in Rank : ~Balancing(s)
    BY <1>9 DEF Balancing, VInv, Together
  <2>3. /\ stageBar[r] = "inside" /\ \A s \in Rank : stageBar[s] # "moved"
        /\ stageBar' = [stageBar EXCEPT ![r] = "ready"]
    <3>1. /\ stageBar = [s \in Rank |-> StageOf(s)]
          /\ stageBar' = [s \in Rank |-> (StageOf(s))']
      BY Mapped
    <3>2. StageOf(r) = "inside" /\ (StageOf(r))' = "ready"
      BY <1>1, <1>2, <1>9, <2>2 DEF StageOf
    <3>3. \A s \in Rank : StageOf(s) # "moved"
      BY <1>3, <2>2 DEF StageOf
    <3>4. stageBar[r] = "inside" /\ \A s \in Rank : stageBar[s] # "moved"
      BY <3>1, <3>2, <3>3
    <3>5. stageBar' = [stageBar EXCEPT ![r] = "ready"]
      BY <1>7, <3>1, <3>2
    <3> QED
      BY <3>4, <3>5
  <2>4. \A s \in Rank : iter[s] >= iter[r]
    <3>1. \A s \in Rank : iter[s] = iter[r]
      BY <1>3 DEF VInv, Paced
    <3>2. iter[r] \in Nat
      BY DEF VInv, Types
    <3> QED
      BY <3>1, <3>2
  <2>5. R!AllTaken(r)
    <3> SUFFICES ASSUME NEW p \in transitBar, home[p] = r PROVE FALSE
      BY DEF R!AllTaken
    <3>1. p \in Particle /\ \A s \in Rank : ~OwnBy(p, s)
      BY Mapped
    <3>2. pc'[r] = "ready" /\ \A s \in Rank : pc'[s] # "moved"
      BY <1>2, <1>3, <1>9
    <3>3. (VInv => \A s \in Rank :
        pc[s] \in {"compact", "ready"} /\ (\A t \in Rank : pc[t] # "moved") =>
            \A x \in Particle :
                /\ home[x] = s => \E t \in Rank : InVector(x, t)
                /\ Thorough(s) => (InVector(x, s) <=> home[x] = s))'
      BY Gathered, PTL
    <3>4. PICK t \in Rank : (InVector(p, t))'
      BY <1>1, <3>1, <3>2, <3>3
    <3>5. OwnBy(p, t)
      BY <1>5, <2>2, <3>1, <3>4 DEF OwnBy
    <3> QED
      BY <3>1, <3>5
  <2>6. missedBar' = missedBar
    <3>1. \A s \in Rank : StageOf(s) # "moved" /\ (StageOf(s))' # "moved"
      BY <1>1, <1>2, <1>3, <1>7, <1>9, <2>2 DEF StageOf
    <3>2. \A x \in Particle, s \in Rank : (MissedBy(x, s))' <=> MissedBy(x, s)
      BY <1>1, <1>6, <3>1 DEF MissedBy
    <3> QED
      BY <3>2, SameMissed
  <2> QED
    BY <1>1, <2>1, <2>3, <2>4, <2>5, <2>6 DEF R!Leave
<1> QED
  BY <1>8, <1>9

LEMMA InitMaps == Init => R!Init
<1> SUFFICES ASSUME Init PROVE R!Init
  OBVIOUS
<1>1. VInv
  BY InitVInv
<1>2. /\ \A r \in Rank : mode[r] = "balance"
      /\ iter = [r \in Rank |-> 0]
      /\ home \in [Particle -> Rank]
      /\ pc = Partitioned(els, home).pc
  BY DEF Init
<1>3. \/ \A r \in Rank : pc[r] = "pack"
      \/ \A r \in Rank : pc[r] = "ready"
  BY <1>2 DEF Partitioned
<1>4. \A p \in Particle, r \in Rank : OwnBy(p, r) <=> home[p] = r
  <2>1. CASE \A r \in Rank : pc[r] = "pack"
    BY <1>2, <2>1 DEF OwnBy, Balancing
  <2>2. CASE \A r \in Rank : pc[r] = "ready"
    BY <1>1, <1>2, <2>2, ReadyOwn DEF Thorough
  <2> QED
    BY <1>3, <2>1, <2>2
<1>5. \A r \in Rank : StageOf(r) = "ready"
  BY <1>2, <1>3 DEF StageOf, Balancing
<1>6. stageBar = [r \in Rank |-> "ready"]
  BY <1>5 DEF stageBar, StageOf
<1>7. ownBar = [r \in Rank |-> R!Held(home, r)]
  <2>1. \A r \in Rank : \A p : p \in ownBar[r] <=> p \in Particle /\ home[p] = r
    BY <1>1, <1>4, OwnIs
  <2>2. \A r \in Rank : ownBar[r] = {p \in Particle : home[p] = r}
    BY <2>1
  <2>3. ownBar = [r \in Rank |-> ownBar[r]]
    BY DEF ownBar
  <2> QED
    BY <2>2, <2>3 DEF R!Held
<1>8. transitBar = {}
  <2>1. \A p : p \notin transitBar
    BY <1>1, <1>2, <1>4, TransitIs
  <2> QED
    BY <2>1
<1>9. missedBar = [r \in Rank |-> {}]
  BY <1>2 DEF missedBar
<1> QED
  BY <1>2, <1>6, <1>7, <1>8, <1>9 DEF R!Init

LEMMA NextMaps ==
    ASSUME VInv, VInv', [Next]_vars
    PROVE  [R!Next]_(R!vars)
<1>1. ASSUME NEW r \in Rank, RankStep(r) PROVE R!Next \/ UNCHANGED R!vars
  <2>1. CASE ComputeOneStep(r)
    BY <2>1, ComputeMaps DEF R!Next
  <2>2. CASE Extract(r) \/ Drop(r) \/ Pack(r) \/ Compact(r)
    BY <2>2, LoopMaps
  <2>3. CASE Announce(r) \/ Listed(r) \/ Collect(r)
    BY <2>3, EnterMaps DEF R!Next
  <2>4. CASE PackedAll(r) \/ Post(r)
    BY <2>4, PassMaps
  <2>5. CASE \E m \in wire : Receive(r, m)
    BY <2>5, ReceiveMaps DEF R!Next
  <2>6. CASE ReceivedAll(r)
    BY <2>6, ReceivedAllMaps DEF R!Next
  <2>7. CASE Compacted(r)
    BY <2>7, CompactedMaps
  <2> QED
    BY <1>1, <2>1, <2>2, <2>3, <2>4, <2>5, <2>6, <2>7 DEF RankStep
<1>2. CASE Collective
  <2>1. CASE DecideMigration
    BY <2>1, MigrationMaps DEF R!Next
  <2>2. CASE DecideBalancing
    BY <2>2, BalancingMaps DEF R!Next
  <2>3. CASE InvertLists
    BY <2>3, InvertMaps
  <2> QED
    BY <1>2, <2>1, <2>2, <2>3 DEF Collective
<1>3. ASSUME UNCHANGED vars PROVE UNCHANGED R!vars
  <2>1. /\ els' = els /\ home' = home /\ buf' = buf /\ wire' = wire
        /\ mode' = mode /\ pc' = pc /\ iter' = iter /\ todo' = todo
    BY <1>3 DEF vars
  <2>2. \A r \in Rank : (Balancing(r))' <=> Balancing(r)
    BY <2>1 DEF Balancing
  <2>3. \A x \in Particle, s \in Rank : (OwnBy(x, s))' <=> OwnBy(x, s)
    BY <2>1, <2>2 DEF OwnBy, InVector, InBuffer, Standing
  <2>4. \A s \in Rank : (StageOf(s))' = StageOf(s)
    BY <2>1, <2>2 DEF StageOf
  <2> QED
    BY <2>1, <2>3, <2>4, Stutters
<1>4. CASE Finished
  BY <1>3, <1>4 DEF Finished
<1> QED
  BY <1>1, <1>2, <1>3, <1>4 DEF Next

(* Element by element, the vectors do what Redistribution promises under   *)
(* all four ways in which particles change hands: every step of simulate,  *)
(* of its migrations and of Zoltan_Do_LB is a step of Redistribution or    *)
(* unseen by it.                                                           *)
THEOREM VectorsRefine == Spec => ImplementsRedistribution
<1>1. VInv /\ VInv' /\ [Next]_vars => [R!Next]_(R!vars)
  BY NextMaps
<1> QED
  BY <1>1, InitMaps, AlwaysVInv, PTL DEF Spec, ImplementsRedistribution, R!Spec
-----------------------------------------------------------------------------
(***************************************************************************)
(* What Redistribution promises, for any number of ranks, particles and    *)
(* iterations: no particle is lost or doubled, and a rank that is out of   *)
(* the collective has what is its own, but for what was missed.  The       *)
(* vectors keep it, since they implement Redistribution.                   *)
(*                                                                         *)
(* The difficulty is Repartition, which gives every particle to its new    *)
(* holder and forgets what is in transit: nothing may be.  Bound says why. *)
(***************************************************************************)
Promised ==
    /\ ownBar \in [Rank -> SUBSET Particle]
    /\ transitBar \in SUBSET Particle
    /\ missedBar \in [Rank -> SUBSET Particle]
    /\ home \in [Particle -> Rank]
    /\ stageBar \in [Rank -> {"ready", "moved", "inside"}]
    /\ iter \in [Rank -> Nat]

(* A rank that is ready is behind every other, and strictly behind those   *)
(* that have computed; nobody is ahead of a rank that has computed; nobody *)
(* is two iterations ahead.                                                *)
Abreast ==
    \A r, s \in Rank :
        /\ stageBar[r] = "ready" =>
              /\ iter[r] <= iter[s]
              /\ stageBar[s] = "moved" => iter[r] < iter[s]
        /\ stageBar[s] = "moved" => iter[r] <= iter[s]
        /\ iter[r] <= iter[s] + 1

(* The rank h will still be, or come, inside a collective s is in.         *)
Awaits(h, s) ==
    /\ stageBar[s] = "inside"
    /\ \/ iter[h] < iter[s]
       \/ iter[h] = iter[s] /\ stageBar[h] = "moved"

(* A particle in transit keeps its rank in the collective: either that is  *)
(* inside, or another one is and cannot leave before it.                   *)
Bound ==
    \A p \in transitBar :
        stageBar[home[p]] = "inside" \/ \E s \in Rank : Awaits(home[p], s)

(* Only a rank that has computed holds particles of other regions, but for *)
(* those it missed, which it still has.                                    *)
Residents ==
    \A r \in Rank :
        /\ missedBar[r] \subseteq ownBar[r]
        /\ stageBar[r] # "moved" =>
               ownBar[r] \ missedBar[r] \subseteq R!Held(home, r)

(* What a ready rank misses was missed by the rank that has it, or is with *)
(* a rank ahead of it, or in transit.                                      *)
Reachable(p, x) ==
    \E s \in Rank :
        \/ p \in missedBar[s]
        \/ iter[s] > iter[x] /\ p \in ownBar[s] \cup transitBar

Missing ==
    \A r \in Rank : stageBar[r] = "ready" =>
        \A p \in R!Held(home, r) \ ownBar[r] : Reachable(p, r)

PromiseInv == /\ Promised /\ Abreast /\ R!NothingLostOrDoubled
              /\ Bound /\ Residents /\ Missing

-----------------------------------------------------------------------------
(* The invariant holds when every particle is with the rank of its region. *)
LEMMA PromiseInit == R!Init => PromiseInv
<1> SUFFICES ASSUME R!Init PROVE PromiseInv
  OBVIOUS
<1> USE DEF R!Init, R!Held
<1>1. Promised
  BY DEF Promised
<1>2. Abreast
  BY DEF Abreast
<1>3. R!NothingLostOrDoubled
  BY DEF R!NothingLostOrDoubled
<1>4. Bound /\ Residents /\ Missing
  BY DEF Bound, Residents, Missing, Reachable
<1> QED
  BY <1>1, <1>2, <1>3, <1>4 DEF PromiseInv

(* Computing: only the homes of the rank's own particles change.           *)
LEMMA PromiseMove ==
  ASSUME PromiseInv, NEW r \in Rank, R!Move(r)
  PROVE  PromiseInv'
<1> USE DEF R!Held
<1>0. /\ Promised /\ Abreast /\ R!NothingLostOrDoubled
      /\ Bound /\ Residents /\ Missing
  BY DEF PromiseInv
<1>1. /\ stageBar[r] = "ready" /\ ownBar' = ownBar /\ transitBar' = transitBar
      /\ stageBar' = [stageBar EXCEPT ![r] = "moved"]
      /\ iter' = [iter EXCEPT ![r] = @ + 1]
      /\ \A s \in Rank : stageBar[s] = "inside" => iter[s] > iter[r]
      /\ missedBar' = [missedBar EXCEPT ![r] = {}]
  BY DEF R!Move
<1>2. PICK h \in [ownBar[r] -> Rank] :
        home' = [p \in Particle |-> IF p \in ownBar[r] THEN h[p] ELSE home[p]]
  BY DEF R!Move
<1>3. Promised'
  BY <1>0, <1>1, <1>2 DEF Promised
<1>4. Abreast'
  <2> SUFFICES ASSUME NEW x \in Rank, NEW y \in Rank
               PROVE  /\ stageBar'[x] = "ready" =>
                            /\ iter'[x] <= iter'[y]
                            /\ stageBar'[y] = "moved" => iter'[x] < iter'[y]
                      /\ stageBar'[y] = "moved" => iter'[x] <= iter'[y]
                      /\ iter'[x] <= iter'[y] + 1
    BY DEF Abreast
  <2>1. /\ iter[x] \in Nat /\ iter[y] \in Nat /\ iter[r] \in Nat
        /\ iter'[x] = IF x = r THEN iter[r] + 1 ELSE iter[x]
        /\ iter'[y] = IF y = r THEN iter[r] + 1 ELSE iter[y]
        /\ stageBar'[x] = IF x = r THEN "moved" ELSE stageBar[x]
        /\ stageBar'[y] = IF y = r THEN "moved" ELSE stageBar[y]
    BY <1>0, <1>1 DEF Promised
  <2> QED
    BY <1>0, <1>1, <2>1 DEF Abreast
<1>5. R!NothingLostOrDoubled'
  BY <1>0, <1>1 DEF R!NothingLostOrDoubled
<1>6. ASSUME NEW p \in Particle, p \notin ownBar[r] PROVE home'[p] = home[p]
  BY <1>2, <1>6
<1>7. Bound'
  <2> SUFFICES ASSUME NEW p \in transitBar
               PROVE  (\/ stageBar[home[p]] = "inside"
                       \/ \E s \in Rank : Awaits(home[p], s))'
    BY <1>1 DEF Bound
  <2>1. p \in Particle /\ home'[p] = home[p] /\ home[p] \in Rank
    BY <1>0, <1>6 DEF Promised, R!NothingLostOrDoubled
  <2>2. CASE stageBar[home[p]] = "inside"
    BY <1>0, <1>1, <2>1, <2>2 DEF Promised
  <2>3. ASSUME NEW s \in Rank, Awaits(home[p], s)
        PROVE  Awaits(home[p], s)'
    BY <1>0, <1>1, <1>3, <2>1, <2>3 DEF Promised, Awaits
  <2> QED
    BY <1>0, <2>1, <2>2, <2>3 DEF Bound, Awaits
<1>8. Residents'
  <2>0. \A s \in Rank : missedBar'[s] \subseteq ownBar'[s]
    BY <1>0, <1>1 DEF Promised, Residents
  <2> SUFFICES ASSUME NEW s \in Rank, stageBar'[s] # "moved",
                      NEW p \in ownBar[s], p \notin missedBar'[s]
               PROVE  p \in Particle /\ home'[p] = s
    BY <1>1, <2>0 DEF Residents
  <2>1. s # r /\ stageBar[s] # "moved" /\ missedBar'[s] = missedBar[s]
    BY <1>0, <1>1 DEF Promised
  <2>2. p \in Particle /\ p \notin ownBar[r] /\ home[p] = s
    BY <1>0, <2>1 DEF Promised, R!NothingLostOrDoubled, Residents
  <2> QED
    BY <1>6, <2>2
<1>9. Missing'
  <2> SUFFICES ASSUME NEW x \in Rank, stageBar'[x] = "ready",
                      NEW p \in Particle,
                      home'[p] = x, p \notin ownBar[x]
               PROVE  \E s \in Rank : \/ p \in missedBar'[s]
                                     \/ /\ iter'[s] > iter'[x]
                                        /\ p \in ownBar[s] \cup transitBar
    BY <1>1 DEF Missing, Reachable
  <2>1. x # r /\ stageBar[x] = "ready" /\ iter'[x] = iter[x]
    BY <1>0, <1>1 DEF Promised
  <2>2. CASE p \in ownBar[r]
    <3>1. iter'[r] > iter'[x]
      BY <1>0, <1>1, <2>1 DEF Promised, Abreast
    <3> QED
      BY <2>2, <3>1
  <2>3. CASE p \notin ownBar[r]
    <3>1. PICK s \in Rank :
              \/ p \in missedBar[s]
              \/ iter[s] > iter[x] /\ p \in ownBar[s] \cup transitBar
      BY <1>0, <1>6, <2>1, <2>3 DEF Missing, Reachable
    <3>2. iter[s] > iter[x] => iter'[s] > iter'[x]
      BY <1>0, <1>1, <2>1, <3>1 DEF Promised
    <3>3. p \in missedBar[s] => p \in missedBar'[s]
      BY <1>0, <1>1, <2>3 DEF Promised, Residents
    <3> QED
      BY <3>1, <3>2, <3>3
  <2> QED
    BY <2>2, <2>3
<1> QED
  BY <1>3, <1>4, <1>5, <1>7, <1>8, <1>9 DEF PromiseInv

(* Entering: what leaves the vector is in transit, and the rank itself     *)
(* holds its receivers back.                                               *)
LEMMA PromiseEnter ==
  ASSUME PromiseInv, NEW r \in Rank,
         NEW found \in SUBSET R!Left(r), R!Enter(r, found)
  PROVE  PromiseInv'
<1> USE DEF R!Held
<1>0. /\ Promised /\ Abreast /\ R!NothingLostOrDoubled
      /\ Bound /\ Residents /\ Missing
  BY DEF PromiseInv
<1>1. /\ stageBar[r] = "moved" /\ home' = home /\ iter' = iter
      /\ transitBar' = transitBar \cup found
      /\ ownBar' = [ownBar EXCEPT ![r] = ownBar[r] \ found]
      /\ missedBar' = [missedBar EXCEPT
                          ![r] = {p \in ownBar[r] : home[p] # r} \ found]
      /\ stageBar' = [stageBar EXCEPT ![r] = "inside"]
      /\ \A p \in found : p \in ownBar[r] /\ home[p] # r
  BY DEF R!Enter, R!Left
<1>2. /\ ownBar'[r] = ownBar[r] \ found
      /\ missedBar'[r] = {p \in ownBar[r] : home[p] # r} \ found
      /\ stageBar'[r] = "inside"
      /\ \A s \in Rank \ {r} :
            /\ ownBar'[s] = ownBar[s] /\ stageBar'[s] = stageBar[s]
            /\ missedBar'[s] = missedBar[s]
  BY <1>0, <1>1 DEF Promised
<1>3. Promised'
  BY <1>0, <1>1 DEF Promised
<1>4. Abreast'
  BY <1>0, <1>1, <1>2 DEF Promised, Abreast
<1>5. R!NothingLostOrDoubled'
  BY <1>0, <1>1, <1>2 DEF Promised, R!NothingLostOrDoubled
<1>6. Bound'
  <2> SUFFICES ASSUME NEW p \in transitBar'
               PROVE  \/ stageBar'[home[p]] = "inside"
                      \/ \E s \in Rank : Awaits(home[p], s)'
    BY <1>1 DEF Bound
  <2>0. p \in Particle /\ home[p] \in Rank
    BY <1>0, <1>3 DEF Promised
  <2>1. CASE p \in transitBar
    <3>1. ASSUME NEW s \in Rank, Awaits(home[p], s), home[p] # r
          PROVE  Awaits(home[p], s)'
      BY <1>1, <1>2, <2>0, <3>1 DEF Awaits
    <3> QED
      BY <1>0, <1>2, <2>0, <2>1, <3>1 DEF Bound
  <2>2. CASE p \in found
    <3>1. /\ iter[home[p]] <= iter[r]
          /\ stageBar[home[p]] = "ready" => iter[home[p]] < iter[r]
          /\ iter[home[p]] \in Nat /\ iter[r] \in Nat
          /\ stageBar[home[p]] \in {"ready", "moved", "inside"}
      BY <1>0, <1>1, <2>0 DEF Promised, Abreast
    <3>2. stageBar[home[p]] = "inside" \/ Awaits(home[p], r)'
      BY <1>1, <1>2, <2>0, <2>2, <3>1 DEF Awaits
    <3> QED
      BY <1>1, <1>2, <2>0, <2>2, <3>2
  <2> QED
    BY <1>1, <2>1, <2>2
<1>7. Residents'
  BY <1>0, <1>1, <1>2 DEF Promised, Residents
<1>8. Missing'
  <2> SUFFICES ASSUME NEW x \in Rank, stageBar'[x] = "ready",
                      NEW p \in Particle,
                      home[p] = x, p \notin ownBar'[x]
               PROVE  \E s \in Rank : \/ p \in missedBar'[s]
                                     \/ /\ iter[s] > iter[x]
                                        /\ p \in ownBar'[s] \cup transitBar'
    BY <1>1 DEF Missing, Reachable
  <2>1. x # r /\ stageBar[x] = "ready" /\ p \notin ownBar[x]
    BY <1>2
  <2>2. PICK s \in Rank :
            \/ p \in missedBar[s]
            \/ iter[s] > iter[x] /\ p \in ownBar[s] \cup transitBar
    BY <1>0, <2>1 DEF Missing, Reachable
  <2>3. p \in missedBar[s] /\ s = r => iter[s] > iter[x] /\ p \in ownBar[s]
    BY <1>0, <1>1, <2>1 DEF Promised, Abreast, Residents
  <2>4. p \in ownBar[s] \cup transitBar => p \in ownBar'[s] \cup transitBar'
    BY <1>1, <1>2, <2>1, <2>2
  <2> QED
    BY <1>2, <2>2, <2>3, <2>4
<1> QED
  BY <1>3, <1>4, <1>5, <1>6, <1>7, <1>8 DEF PromiseInv

(* Receiving.                                                              *)
LEMMA PromiseTake ==
  ASSUME PromiseInv, NEW r \in Rank,
         NEW a \in SUBSET {p \in transitBar : home[p] = r}, R!Take(r, a)
  PROVE  PromiseInv'
<1> USE DEF R!Held
<1>0. /\ Promised /\ Abreast /\ R!NothingLostOrDoubled
      /\ Bound /\ Residents /\ Missing
  BY DEF PromiseInv
<1>1. /\ stageBar[r] = "inside" /\ home' = home /\ iter' = iter
      /\ stageBar' = stageBar /\ transitBar' = transitBar \ a
      /\ missedBar' = missedBar
      /\ ownBar' = [ownBar EXCEPT ![r] = ownBar[r] \cup a]
  BY DEF R!Take
<1>2. /\ ownBar'[r] = ownBar[r] \cup a
      /\ \A s \in Rank \ {r} : ownBar'[s] = ownBar[s]
  BY <1>0, <1>1 DEF Promised
<1>3. Promised'
  BY <1>0, <1>1 DEF Promised
<1>4. Abreast'
  BY <1>0, <1>1 DEF Abreast
<1>5. R!NothingLostOrDoubled'
  <2>1. ASSUME NEW p \in Particle, NEW s \in Rank
        PROVE  p \in ownBar'[s] <=> p \in ownBar[s] \/ (s = r /\ p \in a)
    BY <1>2
  <2> QED
    BY <1>0, <1>1, <2>1 DEF R!NothingLostOrDoubled
<1>6. Bound'
  BY <1>0, <1>1 DEF Bound, Awaits
<1>7. Residents'
  BY <1>0, <1>1, <1>2 DEF Promised, Residents
<1>8. Missing'
  <2> SUFFICES ASSUME NEW x \in Rank, stageBar[x] = "ready",
                      NEW p \in Particle,
                      home[p] = x, p \notin ownBar'[x]
               PROVE  \E s \in Rank : \/ p \in missedBar'[s]
                                     \/ /\ iter[s] > iter[x]
                                        /\ p \in ownBar'[s] \cup transitBar'
    BY <1>1 DEF Missing, Reachable
  <2>1. x # r /\ p \notin ownBar[x] /\ p \notin a
    BY <1>1, <1>2
  <2>2. PICK s \in Rank :
            \/ p \in missedBar[s]
            \/ iter[s] > iter[x] /\ p \in ownBar[s] \cup transitBar
    BY <1>0, <2>1 DEF Missing, Reachable
  <2>3. p \in ownBar[s] \cup transitBar => p \in ownBar'[s] \cup transitBar'
    BY <1>1, <1>2, <2>1, <2>2
  <2> QED
    BY <1>1, <2>2, <2>3
<1> QED
  BY <1>3, <1>4, <1>5, <1>6, <1>7, <1>8 DEF PromiseInv

(* Leaving: everybody is inside or already out, so every vector holds only *)
(* its own, and what is not in transit is where it belongs.                *)
LEMMA PromiseLeave ==
  ASSUME PromiseInv, NEW r \in Rank, R!Leave(r)
  PROVE  PromiseInv'
<1> USE DEF R!Held
<1>0. /\ Promised /\ Abreast /\ R!NothingLostOrDoubled
      /\ Bound /\ Residents /\ Missing
  BY DEF PromiseInv
<1>1. /\ stageBar[r] = "inside" /\ home' = home /\ iter' = iter
      /\ ownBar' = ownBar /\ transitBar' = transitBar
      /\ missedBar' = missedBar
      /\ stageBar' = [stageBar EXCEPT ![r] = "ready"]
      /\ \A s \in Rank : iter[s] >= iter[r] /\ stageBar[s] # "moved"
      /\ \A p \in transitBar : home[p] # r
  BY DEF R!Leave, R!AllTaken
<1>2. /\ stageBar'[r] = "ready"
      /\ \A s \in Rank \ {r} : stageBar'[s] = stageBar[s]
  BY <1>0, <1>1 DEF Promised
<1>3. Promised'
  BY <1>0, <1>1 DEF Promised
<1>4. Abreast'
  BY <1>0, <1>1, <1>2 DEF Promised, Abreast
<1>5. R!NothingLostOrDoubled'
  BY <1>0, <1>1 DEF R!NothingLostOrDoubled
<1>6. Bound'
  <2> SUFFICES ASSUME NEW p \in transitBar
               PROVE  \/ stageBar'[home[p]] = "inside"
                      \/ \E s \in Rank : Awaits(home[p], s)'
    BY <1>1 DEF Bound
  <2>1. home[p] \in Rank /\ home[p] # r
    BY <1>0, <1>1 DEF Promised
  <2>2. ASSUME NEW s \in Rank, Awaits(home[p], s)
        PROVE  Awaits(home[p], s)'
    <3>1. s # r
      BY <1>0, <1>1, <2>1, <2>2 DEF Promised, Awaits
    <3> QED
      BY <1>1, <1>2, <2>1, <2>2, <3>1 DEF Awaits
  <2> QED
    BY <1>0, <1>2, <2>1, <2>2 DEF Bound
<1>7. Residents'
  BY <1>0, <1>1 DEF Residents
<1>8. Missing'
  <2> SUFFICES ASSUME NEW x \in Rank, stageBar'[x] = "ready",
                      NEW p \in Particle,
                      home[p] = x, p \notin ownBar[x]
               PROVE  \E s \in Rank : \/ p \in missedBar[s]
                                     \/ /\ iter[s] > iter[x]
                                        /\ p \in ownBar[s] \cup transitBar
    BY <1>1 DEF Missing, Reachable
  <2>1. CASE x = r
    <3>1. PICK s \in Rank : p \in ownBar[s]
      BY <1>0, <1>1, <2>1 DEF R!NothingLostOrDoubled
    <3>2. p \in missedBar[s]
      BY <1>0, <1>1, <2>1, <3>1 DEF Residents
    <3> QED
      BY <3>2
  <2>2. CASE x # r
    BY <1>0, <1>2, <2>2 DEF Missing, Reachable
  <2> QED
    BY <2>1, <2>2
<1> QED
  BY <1>3, <1>4, <1>5, <1>6, <1>7, <1>8 DEF PromiseInv

(* New regions: nothing is in transit, as nobody is inside.                *)
LEMMA PromiseRepartition ==
  ASSUME PromiseInv, R!Repartition
  PROVE  PromiseInv'
<1> USE DEF R!Held
<1>0. Promised /\ Bound
  BY DEF PromiseInv
<1>1. /\ \A r \in Rank : stageBar[r] = "moved"
      /\ \A r, s \in Rank : iter[r] = iter[s]
      /\ home' \in [Particle -> Rank]
      /\ ownBar' = [r \in Rank |-> {p \in Particle : home'[p] = r}]
      /\ missedBar' = [r \in Rank |-> {}]
      /\ stageBar' = [r \in Rank |-> "ready"]
      /\ transitBar' = transitBar /\ iter' = iter
  BY DEF R!Repartition
<1>2. transitBar = {}
  BY <1>0, <1>1 DEF Promised, Bound, Awaits
<1>3. Promised'
  BY <1>0, <1>1 DEF Promised
<1>4. Abreast'
  BY <1>0, <1>1 DEF Promised, Abreast
<1>5. R!NothingLostOrDoubled'
  BY <1>1, <1>2 DEF R!NothingLostOrDoubled
<1>6. Bound' /\ Residents' /\ Missing'
  BY <1>1, <1>2 DEF Bound, Residents, Missing
<1> QED
  BY <1>3, <1>4, <1>5, <1>6 DEF PromiseInv

(* The invariant is inductive.                                             *)
LEMMA PromiseNext == PromiseInv /\ [R!Next]_(R!vars) => PromiseInv'
<1> SUFFICES ASSUME PromiseInv, [R!Next]_(R!vars) PROVE PromiseInv'
  OBVIOUS
<1>1. CASE UNCHANGED R!vars
  BY <1>1 DEF R!vars, PromiseInv, Promised, Abreast, Bound, Awaits, Residents,
              Missing, Reachable, R!NothingLostOrDoubled, R!Held
<1>2. ASSUME NEW r \in Rank, R!Move(r) PROVE PromiseInv'
  BY <1>2, PromiseMove
<1>3. ASSUME NEW r \in Rank,
             NEW found \in SUBSET R!Left(r), R!Enter(r, found)
      PROVE  PromiseInv'
  BY <1>3, PromiseEnter
<1>4. ASSUME NEW r \in Rank, R!Leave(r) PROVE PromiseInv'
  BY <1>4, PromiseLeave
<1>5. ASSUME NEW r \in Rank,
             NEW a \in SUBSET {p \in transitBar : home[p] = r}, R!Take(r, a)
      PROVE  PromiseInv'
  BY <1>5, PromiseTake
<1>6. CASE R!Repartition
  BY <1>6, PromiseRepartition
<1> QED
  BY <1>1, <1>2, <1>3, <1>4, <1>5, <1>6 DEF R!Next, R!Finished

LEMMA PromiseAlways == R!Spec => []PromiseInv
<1> QED
  BY PromiseInit, PromiseNext, PTL DEF R!Spec

(* Every particle is with exactly one rank, or in transit, through the     *)
(* migrations of zoltan_fn.hpp and parallel_utils.hpp and Zoltan_Do_LB.    *)
THEOREM KeepsAll == Spec => []R!NothingLostOrDoubled
<1>1. PromiseInv => R!NothingLostOrDoubled
  BY DEF PromiseInv
<1>2. Spec => R!Spec
  BY VectorsRefine DEF ImplementsRedistribution
<1> QED
  BY <1>1, <1>2, PromiseAlways, PTL

(* Whenever a rank is back out of the collective calls, before it computes *)
(* again, its vector holds only particles of its region, but for those that*)
(* zoltan_migrate_particles did not look at; a particle of its region that *)
(* it does not hold was not looked at by the rank that has it, or is with  *)
(* a rank that has already computed the next iteration.                    *)
THEOREM KeepsHome == Spec => []R!AtHome
<1>1. PromiseInv => R!AtHome
  BY DEF PromiseInv, R!AtHome, Residents, Missing, Reachable
<1>2. Spec => R!Spec
  BY VectorsRefine DEF ImplementsRedistribution
<1> QED
  BY <1>1, <1>2, PromiseAlways, PTL
=============================================================================
