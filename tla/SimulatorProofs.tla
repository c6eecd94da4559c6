--------------------------- MODULE SimulatorProofs ---------------------------
(***************************************************************************)
(* For every number of ranks, frames, iterations and all times: what the   *)
(* Probe and the histories of a rank hold, that ranks which pass the same  *)
(* collective calls hold the same, and that under a criterion or a policy  *)
(* all ranks decide alike, though each decides from its own Probe or its   *)
(* own queue.                                                              *)
(***************************************************************************)
EXTENDS Simulator, SumProofs

Criteria == {"menon", "procassini", "marquez"}

Fields == {"it", "max", "min", "sum", "cum", "balanced", "lbTimes", "effs",
           "batch"}

Places == {"gather", "ghosts0", "compute", "reduce", "decide", "lb",
           "migrate", "ghosts", "frame", "stats", "done"}

-----------------------------------------------------------------------------
(***************************************************************************)
(* The inductive invariant, first what each rank keeps by itself.          *)
(***************************************************************************)
Efficiency == (Int \X Int) \cup {FirstEff}

Shapes ==
    /\ policy \in Policies
    /\ lines \in IF policy = "file" THEN Files ELSE {<<>>}
    /\ script \in [Rank -> Seq(BOOLEAN)]
    /\ pc \in [Rank -> Places]
    /\ frame \in [Rank -> Nat]
    /\ i \in [Rank -> Nat]
    /\ itTime \in [Rank -> Nat]
    /\ comp \in [Rank -> Nat]
    /\ app \in [Rank -> Nat]
    /\ timeHist \in [Rank -> Seq(Nat)]
    /\ dec \in [Rank -> Seq(BOOLEAN)]
    /\ measured \in Seq([Rank -> Nat])
    /\ DOMAIN probe = Rank
    /\ \A r \in Rank : /\ DOMAIN probe[r] = Fields
                       /\ probe[r].it \in Nat
                       /\ probe[r].cum \in Int
                       /\ probe[r].lbTimes \in Seq(Nat)
                       /\ probe[r].effs \in Seq(Efficiency)

(* Where the iteration has been decided and is not over, and where it has  *)
(* been measured and is not over.                                          *)
Acting == {"lb", "migrate", "ghosts"}
Measured == {"decide", "lb", "migrate", "ghosts"}

(* The iterations over, decided and measured.                              *)
Steps(r) == frame[r] * NPFrame + i[r]
Acted(r) == IF pc[r] \in Acting THEN Steps(r) + 1 ELSE Steps(r)
Timed(r) == IF pc[r] \in Measured THEN Steps(r) + 1 ELSE Steps(r)

(* Where a rank is in the loops, and how much it has noted by then.        *)
InLoops ==
    \A r \in Rank :
        /\ pc[r] \in {"compute", "reduce"} \cup Measured =>
               frame[r] < NFrames /\ i[r] < NPFrame
        /\ pc[r] = "frame" => frame[r] < NFrames /\ i[r] = NPFrame
        /\ pc[r] \in {"gather", "ghosts0", "stats", "done"} =>
               frame[r] <= NFrames /\ i[r] = 0
        /\ pc[r] \in {"stats", "done"} => frame[r] = NFrames
        /\ pc[r] = "ghosts0" => frame[r] = 0
        /\ pc[r] = "gather" => Record

Counted ==
    \A r \in Rank :
        /\ Len(timeHist[r]) = Steps(r)
        /\ probe[r].it = Steps(r)
        /\ Len(dec[r]) = Acted(r)
        /\ Len(measured) = Timed(r)

(* The times add up: what is over is in app, the current frame in comp.    *)
Summed ==
    \A r \in Rank : /\ app[r] + comp[r] = SoFar(timeHist[r])
                    /\ i[r] = 0 => comp[r] = 0

(* With --record every frame ended has been gathered.                      *)
Filed ==
    Record => /\ gathered \in Seq(Nat)
              /\ \A k \in 1..Len(gathered) : gathered[k] = k - 1
              /\ \A r \in Rank : Len(gathered) =
                     IF pc[r] = "gather" THEN frame[r] ELSE frame[r] + 1

(* The Probe has one cost per load balancing and one efficiency per load   *)
(* balancing followed by an iteration.                                     *)
Costs ==
    \A r \in Rank :
        Len(probe[r].lbTimes) + (IF pc[r] = "lb" THEN 1 ELSE 0)
            = Len(NewProbe(0).lbTimes)
                + Cardinality(Balancings(dec[r], Len(dec[r]) + 1))

Efficiencies ==
    \A r \in Rank :
        Len(probe[r].effs)
            = Len(NewProbe(0).effs)
                + (IF measured = <<>> THEN 0
                   ELSE 1 + Cardinality(Balancings(dec[r], Len(measured))))

Flags ==
    \A r \in Rank :
        /\ pc[r] \notin Acting =>
               probe[r].balanced = (dec[r] = <<>> \/ Last(dec[r]))
        /\ pc[r] = "lb" => Last(dec[r]) = TRUE
        /\ pc[r] = "migrate" => Last(dec[r]) = FALSE

(* The iteration before which a load balancing counts for the Probe.       *)
Fresh(r) == IF pc[r] \in {"decide", "lb", "migrate"} THEN Len(measured)
                                                    ELSE Len(measured) + 1

Accumulated ==
    \A r \in Rank :
        probe[r].cum =
            ImbalanceAfter(LatestOf(Balancings(dec[r], Fresh(r))), measured)

PerFrame ==
    policy # "random" => \A r \in Rank : \A k \in DOMAIN dec[r] :
        dec[r][k] => (k - 1) % NPFrame = 0

Ledger == /\ Shapes /\ InLoops /\ Counted /\ Summed /\ Filed
          /\ Costs /\ Efficiencies /\ Flags /\ Accumulated /\ PerFrame

-----------------------------------------------------------------------------
(***************************************************************************)
(* What the ranks have in common: they have passed the same calls.         *)
(***************************************************************************)
(* A rank that comes to the end of a frame has not yet done what it does   *)
(* there alone; these are its values after that.                           *)
FrameOf(r) == IF pc[r] = "frame" THEN frame[r] + 1 ELSE frame[r]
IterationOf(r) == IF pc[r] = "frame" THEN 0 ELSE i[r]
BatchOf(r) == IF pc[r] = "frame" THEN comp[r] ELSE probe[r].batch
CompOf(r) == IF pc[r] = "frame" THEN 0 ELSE comp[r]

(* All that Reduced, Balanced and Iterated keep.                           *)
SameMeasures(p, q) ==
    /\ p.it = q.it /\ p.max = q.max /\ p.min = q.min /\ p.sum = q.sum
    /\ p.cum = q.cum /\ p.balanced = q.balanced
    /\ p.lbTimes = q.lbTimes /\ p.effs = q.effs

SameProbes == \A r, s \in Rank : SameMeasures(probe[r], probe[s])

SameCounters ==
    \A r, s \in Rank : /\ FrameOf(r) = FrameOf(s)
                       /\ IterationOf(r) = IterationOf(s)
                       /\ CompOf(r) = CompOf(s)

Reduction == {"decide", "lb", "migrate", "ghosts", "frame"}

SameTimes ==
    \A r, s \in Rank : pc[r] \in Reduction /\ pc[s] \in Reduction
                          => itTime[r] = itTime[s]

SameHist == \A r, s \in Rank : timeHist[r] = timeHist[s]

(* Where a rank can be that has ended the frame before frame f.            *)
Beyond(f) == IF Record THEN {"gather"}
             ELSE IF f < NFrames THEN {"compute", "reduce"} ELSE {"stats"}

(* Where two ranks can be at a time.                                       *)
Together ==
    \A r, s \in Rank :
        \/ pc[r] = pc[s]
        \/ {pc[r], pc[s]} \subseteq {"compute", "reduce"}
        \/ {pc[r], pc[s]} \subseteq {"decide", "lb", "migrate"}
        \/ pc[r] = "frame" /\ pc[s] \in Beyond(frame[s])
        \/ pc[s] = "frame" /\ pc[r] \in Beyond(frame[r])

(* Only ranks that have decided alike have come to the ghost exchange, and *)
(* the decisions of all iterations over are the same.                      *)
SameDecision ==
    \A r, s \in Rank : pc[r] = "ghosts" /\ pc[s] = "ghosts"
                          => Last(dec[r]) = Last(dec[s])

SamePast ==
    \A r, s \in Rank : \A k \in 1..Len(timeHist[r]) : dec[r][k] = dec[s][k]

InStep == /\ SameProbes /\ SameCounters /\ SameTimes /\ SameHist
          /\ Together /\ SameDecision /\ SamePast

-----------------------------------------------------------------------------
(***************************************************************************)
(* Why they decide alike.                                                  *)
(***************************************************************************)
(* Procassini alone reads the batch time.                                  *)
SameBatches ==
    policy = "procassini" => \A r, s \in Rank : BatchOf(r) = BatchOf(s)

(* A decision of a criterion is what it says of the Probe.                 *)
Decided ==
    policy \in Criteria =>
        \A r \in Rank :
            /\ pc[r] = "lb" => ShouldLoadBalance(policy, probe[r])
            /\ pc[r] = "migrate" => ~ShouldLoadBalance(policy, probe[r])

(* What is left of all decisions after the first n of them.                *)
After(n, all) == [k \in 1..(Len(all) - n) |-> all[n + k]]

Drawn ==
    policy = "random" =>
        \E all \in Draws : \A r \in Rank :
            /\ script[r] = After(Len(dec[r]), all)
            /\ \A k \in DOMAIN dec[r] : dec[r][k] = all[k]

(* The frames a rank has decided upon.                                     *)
Batches(r) == IF i[r] > 0 \/ pc[r] \in Acting THEN frame[r] + 1 ELSE frame[r]

TakenFromFile ==
    policy = "file" =>
        LET all == FileDecisions(lines) IN
        \A r \in Rank :
            /\ script[r] = After(Batches(r), all)
            /\ \A k \in DOMAIN dec[r] :
                  (k - 1) % NPFrame = 0 =>
                      /\ 1 + (k - 1) \div NPFrame <= NFrames
                      /\ dec[r][k] = all[1 + (k - 1) \div NPFrame]

-----------------------------------------------------------------------------
(***************************************************************************)
(* Of the constants, and of what is computed from the times of a step.     *)
(***************************************************************************)
LEMMA Sizes ==
    /\ NProc \in Nat /\ NProc >= 1
    /\ NFrames \in Nat
    /\ NPFrame \in Nat /\ NPFrame >= 1
    /\ 0 \in Rank
    /\ \A r \in Rank : r \in Nat
BY SizeAssumption DEF Rank

LEMMA AppendIs ==
    ASSUME NEW S, NEW q \in Seq(S), NEW x \in S
    PROVE  /\ Append(q, x) \in Seq(S)
           /\ Append(q, x) # <<>>
           /\ Len(q) \in Nat
           /\ Len(Append(q, x)) = Len(q) + 1
           /\ Last(Append(q, x)) = x
BY DEF Last

LEMMA MaxNat == ASSUME NEW t \in [Rank -> Nat] PROVE MaxOf(t) \in Nat
<1> DEFINE Bounded(n) == \E x \in {t[r] : r \in Rank} :
                             \A r \in Rank : r <= n => t[r] <= x
           S == {n \in Nat : Bounded(n)}
<1>1. 0 \in S
  <2>1. \A r \in Rank : r <= 0 => t[r] <= t[0]
    BY Sizes
  <2> QED
    BY <2>1, Sizes
<1>2. ASSUME NEW n \in S PROVE n + 1 \in S
  <2>1. PICK q \in Rank : \A r \in Rank : r <= n => t[r] <= t[q]
    OBVIOUS
  <2>2. CASE n + 1 \notin Rank
    <3>1. \A r \in Rank : r <= n + 1 => t[r] <= t[q]
      BY <2>1, <2>2, Sizes
    <3> QED
      BY <3>1
  <2>3. CASE n + 1 \in Rank /\ t[n + 1] <= t[q]
    <3>1. \A r \in Rank : r <= n + 1 => t[r] <= t[q]
      BY <2>1, <2>3, Sizes
    <3> QED
      BY <3>1
  <2>4. CASE n + 1 \in Rank /\ t[q] <= t[n + 1]
    <3>1. \A r \in Rank : r <= n + 1 => t[r] <= t[n + 1]
      <4> TAKE r \in Rank
      <4>1. t[r] \in Nat /\ t[q] \in Nat /\ t[n + 1] \in Nat
        BY <2>4
      <4> QED
        BY <4>1, <2>1, <2>4, Sizes
    <3> QED
      BY <2>4, <3>1
  <2>5. t[q] \in Nat /\ (n + 1 \in Rank => t[n + 1] \in Nat)
    OBVIOUS
  <2> QED
    BY <2>2, <2>3, <2>4, <2>5
<1>3. NProc \in S
  <2> HIDE DEF S
  <2>1. S \in SUBSET Nat
    BY DEF S
  <2> QED
    BY <1>1, <1>2, <2>1, Induct, Sizes
<1>4. \A r \in Rank : r <= NProc
  BY Sizes DEF Rank
<1>5. \E x \in {t[r] : r \in Rank} : \A r \in Rank : t[r] <= x
  BY <1>3, <1>4
<1> QED
  BY <1>5 DEF MaxOf

LEMMA TotalNat == ASSUME NEW t \in [Rank -> Nat] PROVE TotalOf(t) \in Nat
<1> DEFINE s == [k \in 1..NProc |-> t[k - 1]]
<1>1. \A k \in 1..NProc : s[k] \in Nat
  BY Sizes DEF Rank
<1>2. Len(s) = NProc /\ NProc \in 0..NProc
  BY Sizes
<1> HIDE DEF s
<1>3. Totals(s, NProc)[NProc] \in Nat
  BY <1>1, <1>2, Sizes, TotalsNat
<1> QED
  BY <1>2, <1>3 DEF TotalOf, SumOf, s

LEMMA ImbalanceInt == ASSUME NEW t \in [Rank -> Nat] PROVE Imbalance(t) \in Int
<1>1. MaxOf(t) \in Nat /\ TotalOf(t) \in Nat /\ NProc \in Nat
  BY MaxNat, TotalNat, Sizes
<1> QED
  BY <1>1 DEF Imbalance

LEMMA SumOfNone == SumOf(<<>>) = 0
<1>1. \A k \in 1..0 : <<>>[k] \in Int
  OBVIOUS
<1> QED
  BY <1>1, TotalsAre DEF SumOf

LEMMA SumOfAppend ==
    ASSUME NEW s \in Seq(Int), NEW e \in Int
    PROVE  SumOf(Append(s, e)) = SumOf(s) + e
<1> DEFINE w == Append(s, e)
           n == Len(s)
<1>1. /\ n \in Nat /\ Len(w) = n + 1
      /\ \A k \in 1..(n + 1) : w[k] \in Int
      /\ \A k \in 1..n : s[k] = w[0 + k] /\ s[k] \in Int
      /\ w[n + 1] = e
  OBVIOUS
<1> HIDE DEF w, n
<1>2. /\ Totals(w, n + 1)[0] = 0
      /\ \A k \in 1..(n + 1) :
             Totals(w, n + 1)[k] = Totals(w, n + 1)[k - 1] + w[k]
  <2> DEFINE m == n + 1
  <2>1. m \in Nat /\ \A k \in 1..m : w[k] \in Int
    BY <1>1
  <2> HIDE DEF m
  <2>2. /\ Totals(w, m)[0] = 0
        /\ \A k \in 1..m : Totals(w, m)[k] = Totals(w, m)[k - 1] + w[k]
    BY <2>1, TotalsAre
  <2> QED
    BY <2>2 DEF m
<1>3. \A k \in 0..n :
          Totals(w, n + 1)[0 + k] = Totals(w, n + 1)[0] + Totals(s, n)[k]
  BY <1>1, TotalsFrom
<1>4. Totals(s, n)[n] \in Int
  BY <1>1, TotalsAre
<1>5. Totals(w, n + 1)[n] = Totals(s, n)[n]
  BY <1>1, <1>2, <1>3, <1>4
<1>6. Totals(w, n + 1)[n + 1] = Totals(w, n + 1)[n] + w[n + 1]
  BY <1>1, <1>2
<1> QED
  BY <1>1, <1>5, <1>6 DEF SumOf, w, n

LEMMA AfterOneMore ==
    ASSUME NEW ms \in Seq([Rank -> Nat]), NEW t \in [Rank -> Nat],
           NEW l \in 0..Len(ms)
    PROVE  ImbalanceAfter(l, Append(ms, t)) =
               ImbalanceAfter(l, ms) + NProc * MaxOf(t) - TotalOf(t)
<1> DEFINE n == Len(ms) - l
           s == [k \in 1..n |-> Imbalance(ms[l + k])]
           w == [k \in 1..(Len(Append(ms, t)) - l) |->
                     Imbalance(Append(ms, t)[l + k])]
<1>1. n \in Nat /\ Len(Append(ms, t)) - l = n + 1 /\ Len(ms) = l + n
  OBVIOUS
<1>2. \A k \in 1..n : ms[l + k] \in [Rank -> Nat]
  BY <1>1
<1>3. \A k \in 1..n : Imbalance(ms[l + k]) \in Int
  <2> HIDE DEF n
  <2> QED
    BY <1>2, ImbalanceInt
<1>4. s \in Seq(Int) /\ Len(s) = n /\ SumOf(s) \in Int
  <2>1. s \in Seq(Int) /\ Len(s) = n
    <3> HIDE DEF n
    <3> QED
      BY <1>1, <1>3
  <2>2. \A k \in 1..n : s[k] \in Int
    BY <1>3
  <2> HIDE DEF n, s
  <2>3. Totals(s, n)[n] \in Int
    BY <1>1, <2>2, TotalsAre
  <2> QED
    BY <2>1, <2>3 DEF SumOf
<1>5. /\ \A k \in 1..n : Append(ms, t)[l + k] = ms[l + k]
      /\ Append(ms, t)[l + (n + 1)] = t
  BY <1>1
<1>6. w = Append(s, Imbalance(t))
  <2> HIDE DEF n
  <2>1. w = [k \in 1..(n + 1) |-> Imbalance(Append(ms, t)[l + k])]
    BY <1>1
  <2>2. w = [k \in 1..(n + 1) |-> IF k <= n THEN Imbalance(ms[l + k])
                                  ELSE Imbalance(t)]
    <3>1. \A k \in 1..(n + 1) : k <= n => k \in 1..n
      BY <1>1
    <3>2. \A k \in 1..(n + 1) : ~(k <= n) => k = n + 1
      BY <1>1
    <3>3. \A k \in 1..(n + 1) : Imbalance(Append(ms, t)[l + k]) =
              IF k <= n THEN Imbalance(ms[l + k]) ELSE Imbalance(t)
      BY <1>5, <3>1, <3>2
    <3> HIDE DEF w
    <3> QED
      BY <2>1, <3>3
  <2> HIDE DEF w
  <2> QED
    BY <1>1, <1>4, <2>2
<1>7. Imbalance(t) \in Int /\ MaxOf(t) \in Nat /\ TotalOf(t) \in Nat
  BY ImbalanceInt, MaxNat, TotalNat
<1>8. SumOf(w) = SumOf(s) + Imbalance(t)
  <2> HIDE DEF s, w
  <2> QED
    BY <1>4, <1>6, <1>7, SumOfAppend
<1>9. SumOf(w) = SumOf(s) + NProc * MaxOf(t) - TotalOf(t)
  <2>1. NProc * MaxOf(t) \in Nat
    BY <1>7, Sizes
  <2> HIDE DEF s, w
  <2> QED
    BY <1>4, <1>7, <1>8, <2>1 DEF Imbalance
<1> QED
  BY <1>9 DEF ImbalanceAfter

LEMMA AfterAll ==
    ASSUME NEW ms \in Seq([Rank -> Nat])
    PROVE  ImbalanceAfter(Len(ms), ms) = 0
<1>1. [k \in 1..(Len(ms) - Len(ms)) |-> Imbalance(ms[Len(ms) + k])] = <<>>
  OBVIOUS
<1> QED
  BY <1>1, SumOfNone DEF ImbalanceAfter

-----------------------------------------------------------------------------
(***************************************************************************)
(* The load balancings among decisions.                                    *)
(***************************************************************************)
LEMMA BalancingsAre ==
    ASSUME NEW d \in Seq(BOOLEAN), NEW n \in Nat
    PROVE  /\ Balancings(d, n) \subseteq 1..Len(d)
           /\ IsFiniteSet(Balancings(d, n))
           /\ Cardinality(Balancings(d, n)) \in Nat
<1>1. Balancings(d, n) \subseteq 1..Len(d) /\ Len(d) \in Int /\ 1 \in Int
  BY DEF Balancings
<1>2. IsFiniteSet(Balancings(d, n))
  BY <1>1, FS_Interval, FS_Subset
<1> QED
  BY <1>1, <1>2, FS_CardinalityType

LEMMA LatestIs ==
    ASSUME NEW d \in Seq(BOOLEAN), NEW n \in Nat
    PROVE  /\ LatestOf(Balancings(d, n)) \in 0..Len(d)
           /\ n >= 1 => LatestOf(Balancings(d, n)) < n
<1> DEFINE ks == Balancings(d, n)
<1>1. ks \subseteq 1..Len(d) /\ Len(d) \in Nat /\ \A k \in ks : k < n
  BY DEF Balancings
<1>2. ks \in SUBSET (0..Len(d))
  BY <1>1
<1> HIDE DEF ks
<1>3. CASE ks = {}
  BY <1>1, <1>3 DEF LatestOf, ks
<1>4. CASE ks # {}
  <2>1. \E k \in ks : \A j \in ks : j <= k
    BY <1>1, <1>2, <1>4, GreatestOf
  <2>2. LatestOf(ks) \in ks
    BY <1>4, <2>1 DEF LatestOf
  <2> QED
    BY <1>1, <1>2, <2>2 DEF ks
<1> QED
  BY <1>3, <1>4

(* One more decision is not before the iteration it is taken in.           *)
LEMMA NotYet ==
    ASSUME NEW d \in Seq(BOOLEAN), NEW x \in BOOLEAN,
           NEW n \in Nat, n <= Len(d) + 1
    PROVE  Balancings(Append(d, x), n) = Balancings(d, n)
<1>1. /\ DOMAIN d = 1..Len(d) /\ DOMAIN Append(d, x) = 1..(Len(d) + 1)
      /\ \A k \in 1..Len(d) : Append(d, x)[k] = d[k]
  OBVIOUS
<1>2. \A k \in 1..(Len(d) + 1) : k < n => k \in 1..Len(d)
  OBVIOUS
<1>3. \A k \in 1..Len(d) : k \in 1..(Len(d) + 1)
  OBVIOUS
<1> QED
  BY <1>1, <1>2, <1>3 DEF Balancings

(* The decisions of all iterations, the last one included.                 *)
LEMMA WithLast ==
    ASSUME NEW d \in Seq(BOOLEAN), d # <<>>
    PROVE  LET before == Balancings(d, Len(d))
               all == Balancings(d, Len(d) + 1)
           IN /\ Last(d) => /\ LatestOf(all) = Len(d)
                            /\ Cardinality(all) = Cardinality(before) + 1
              /\ ~Last(d) => all = before
<1>1. Len(d) \in Nat /\ Len(d) >= 1 /\ Last(d) = d[Len(d)]
      /\ DOMAIN d = 1..Len(d)
  BY DEF Last
<1> DEFINE n == Len(d)
           before == Balancings(d, n)
           all == Balancings(d, n + 1)
<1>2. n \in 1..n /\ n \notin before
      /\ \A k \in 1..n : k < n + 1 /\ (k < n \/ k = n)
  <2>1. ~(n < n)
    BY <1>1
  <2>2. n \notin before
    BY <2>1 DEF Balancings
  <2>3. n \in Nat /\ n >= 1
    BY <1>1
  <2> HIDE DEF before, n
  <2> QED
    BY <2>2, <2>3
<1>3. Last(d) => all = before \cup {n}
  BY <1>1, <1>2 DEF Balancings
<1>4. ~Last(d) => all = before
  BY <1>1, <1>2 DEF Balancings
<1>5. before \subseteq 1..n /\ IsFiniteSet(before)
  BY <1>1, BalancingsAre
<1> HIDE DEF n, before, all
<1>6. Last(d) => Cardinality(all) = Cardinality(before) + 1
  BY <1>2, <1>3, <1>5, FS_AddElement
<1>7. Last(d) => LatestOf(all) = n
  <2> SUFFICES ASSUME Last(d) PROVE LatestOf(all) = n
    OBVIOUS
  <2>1. all # {} /\ n \in all /\ \A j \in all : j <= n /\ j \in Int
    <3>1. n \in Nat /\ \A j \in 1..n : j <= n /\ j \in Int
      BY <1>1 DEF n
    <3>2. \A j \in all : j \in 1..n
      BY <1>2, <1>3, <1>5
    <3> QED
      BY <1>3, <3>1, <3>2
  <2>2. \A k \in all : (\A j \in all : j <= k) => k = n
    BY <2>1
  <2> QED
    BY <2>1, <2>2 DEF LatestOf
<1> QED
  BY <1>4, <1>6, <1>7 DEF n, before, all

-----------------------------------------------------------------------------
(***************************************************************************)
(* What InFilePolicy has read after k lines: the decisions of the lines    *)
(* after the latest number alone that another line follows.                *)
(***************************************************************************)
File == Seq(Seq(Int) \ {<<>>})
Ends(file) == {k \in DOMAIN file : Len(file[k]) = 1}
Before(file, k) == LatestOf({e \in Ends(file) : e < k})
Held(file, k) ==
    IF k \in Ends(file) THEN k - 1 - Before(file, k) ELSE k - Before(file, k)
Queue(file, k) ==
    [j \in 1..Held(file, k) |-> Last(file[Before(file, k) + j]) > 0]
Lines(file, k) == [clear |-> k \in Ends(file), queue |-> Queue(file, k)]

LEMMA BeforeIs ==
    ASSUME NEW file \in File, NEW k \in 0..Len(file)
    PROVE  /\ Before(file, k) \in 0..k
           /\ k >= 1 => Before(file, k) < k
           /\ Held(file, k) \in Nat
           /\ k \in Ends(file) => Before(file, k + 1) = k
           /\ k \notin Ends(file) => Before(file, k + 1) = Before(file, k)
<1> DEFINE ks == {e \in Ends(file) : e < k}
           next == {e \in Ends(file) : e < k + 1}
<1>1. Ends(file) \subseteq 1..Len(file) /\ Len(file) \in Nat /\ k \in Nat
  BY DEF Ends, File
<1>2. ks \in SUBSET (0..Len(file)) /\ \A e \in ks : e < k /\ e \in Nat
  BY <1>1
<1>3. k \in Ends(file) => next = ks \cup {k} /\ k >= 1
  <2>1. \A e \in Ends(file) : e < k + 1 <=> (e < k \/ e = k)
    BY <1>1
  <2> QED
    BY <1>1, <2>1
<1>4. k \notin Ends(file) => next = ks
  <2>1. \A e \in Ends(file) : e < k + 1 <=> (e < k \/ e = k)
    BY <1>1
  <2> QED
    BY <2>1
<1>5. Before(file, k) = LatestOf(ks) /\ Before(file, k + 1) = LatestOf(next)
  BY DEF Before
<1> HIDE DEF ks, next
<1>6. LatestOf(ks) \in 0..k /\ (k >= 1 => LatestOf(ks) < k)
  <2>1. CASE ks = {}
    BY <1>1, <2>1 DEF LatestOf
  <2>2. CASE ks # {}
    <3>1. \E x \in ks : \A y \in ks : y <= x
      BY <1>1, <1>2, <2>2, GreatestOf
    <3>2. LatestOf(ks) \in ks
      BY <2>2, <3>1 DEF LatestOf
    <3>3. LatestOf(ks) < k /\ LatestOf(ks) \in Nat
      BY <1>2, <3>2
    <3> QED
      BY <1>1, <3>3
  <2> QED
    BY <2>1, <2>2
<1>7. k \in Ends(file) => LatestOf(next) = k
  <2> SUFFICES ASSUME k \in Ends(file) PROVE LatestOf(next) = k
    OBVIOUS
  <2>1. next # {} /\ k \in next /\ \A e \in next : e <= k /\ e \in Nat
    <3>1. next = ks \cup {k}
      BY <1>3
    <3>2. \A e \in ks : e <= k /\ e \in Nat
      BY <1>1, <1>2
    <3>3. k <= k
      BY <1>1
    <3> QED
      BY <1>1, <3>1, <3>2, <3>3
  <2>2. \A x \in next : (\A y \in next : y <= x) => x = k
    BY <1>1, <2>1
  <2> QED
    BY <2>1, <2>2 DEF LatestOf
<1>8. Held(file, k) \in Nat
  BY <1>1, <1>3, <1>5, <1>6 DEF Held
<1> QED
  BY <1>4, <1>5, <1>6, <1>7, <1>8

LEMMA LineRead ==
    ASSUME NEW file \in File, NEW k \in 1..Len(file)
    PROVE  Lines(file, k) = Read(Lines(file, k - 1), file[k])
<1> DEFINE b == Before(file, k)
           a == Before(file, k - 1)
           kept == [j \in 1..(k - 1 - b) |-> Last(file[b + j]) > 0]
<1>1. k - 1 \in 0..Len(file) /\ k \in 0..Len(file) /\ (k - 1) + 1 = k
      /\ k \in Nat /\ k >= 1 /\ DOMAIN file = 1..Len(file)
  BY DEF File
<1>2. /\ b \in 0..k /\ b < k /\ a \in 0..(k - 1)
      /\ k - 1 \in Ends(file) => b = k - 1
      /\ k - 1 \notin Ends(file) => b = a
  BY <1>1, BeforeIs
<1>3. k \in Ends(file) <=> Len(file[k]) = 1
  BY <1>1 DEF Ends
<1>4. kept = IF Lines(file, k - 1).clear THEN <<>>
             ELSE Lines(file, k - 1).queue
  <2>1. CASE k - 1 \in Ends(file)
    <3>1. k - 1 - b = 0
      BY <1>1, <1>2, <2>1
    <3>2. kept = <<>>
      BY <3>1
    <3> QED
      BY <2>1, <3>2 DEF Lines
  <2>2. CASE k - 1 \notin Ends(file)
    <3>1. Held(file, k - 1) = k - 1 - a
      BY <2>2 DEF Held
    <3> HIDE DEF a
    <3>2. Queue(file, k - 1) = kept
      BY <1>2, <2>2, <3>1 DEF Queue, a
    <3> QED
      BY <2>2, <3>2 DEF Lines
  <2> QED
    BY <2>1, <2>2
<1>5. Queue(file, k) = IF k \in Ends(file) THEN kept
                       ELSE Append(kept, Last(file[k]) > 0)
  <2>1. CASE k \in Ends(file)
    BY <2>1 DEF Queue, Held
  <2>2. CASE k \notin Ends(file)
    <3> DEFINE n == k - 1 - b
    <3>1. n \in Nat /\ Held(file, k) = n + 1 /\ b + (n + 1) = k
      BY <1>1, <1>2, <2>2 DEF Held
    <3>2. kept \in Seq(BOOLEAN) /\ Len(kept) = n
      <4>1. \A j \in 1..n : (Last(file[b + j]) > 0) \in BOOLEAN
        OBVIOUS
      <4>2. kept = [j \in 1..n |-> Last(file[b + j]) > 0]
        OBVIOUS
      <4> HIDE DEF kept, n, b
      <4> QED
        BY <3>1, <4>1, <4>2
    <3>3. Queue(file, k) = [j \in 1..(n + 1) |-> Last(file[b + j]) > 0]
      BY <3>1 DEF Queue
    <3>4. Append(kept, Last(file[k]) > 0) =
              [j \in 1..(n + 1) |-> IF j <= n THEN kept[j]
                                    ELSE Last(file[k]) > 0]
      <4> HIDE DEF kept, n
      <4> QED
        BY <3>1, <3>2
    <3>5. ASSUME NEW j \in 1..(n + 1)
          PROVE (Last(file[b + j]) > 0) =
                   IF j <= n THEN kept[j] ELSE Last(file[k]) > 0
      <4>1. CASE j <= n
        <5>1. j \in 1..n
          BY <3>1, <4>1
        <5>2. kept[j] = (Last(file[b + j]) > 0)
          BY <5>1
        <5> QED
          BY <4>1, <5>2
      <4>2. CASE ~(j <= n)
        <5>1. b + j = k
          BY <3>1, <4>2
        <5> QED
          BY <4>2, <5>1
      <4> QED
        BY <4>1, <4>2
    <3> HIDE DEF kept, n, b
    <3>6. Queue(file, k) = Append(kept, Last(file[k]) > 0)
      BY <3>3, <3>4, <3>5
    <3> QED
      BY <2>2, <3>6
  <2> QED
    BY <2>1, <2>2
<1> HIDE DEF kept
<1> QED
  BY <1>3, <1>4, <1>5, SMTT(30) DEF Lines, Read

(* FileDecisions are those of the last dataset.                            *)
LEMMA FileRead ==
    ASSUME NEW file \in File
    PROVE  LET data == LastDataset(file) IN
           /\ FileDecisions(file) = [j \in 1..Len(data) |-> Last(data[j]) > 0]
           /\ FileDecisions(file) \in Seq(BOOLEAN)
           /\ data \in File
<1> DEFINE n == Len(file)
           start == [clear |-> FALSE, queue |-> <<>>]
           step(f) == [k \in 0..n |-> IF k = 0 THEN start
                                      ELSE Read(f[k - 1], file[k])]
           read == CHOOSE f : f = step(f)
           all == [k \in 0..n |-> Lines(file, k)]
<1>1. n \in Nat /\ 0 \in 0..n /\ n \in 0..n /\ DOMAIN file = 1..n
  BY DEF File
<1>2. Lines(file, 0) = start
  <2>1. 0 \notin Ends(file) /\ Before(file, 0) = 0 /\ Held(file, 0) = 0
    <3>1. 0 \notin Ends(file)
      BY <1>1 DEF Ends
    <3>2. Before(file, 0) = 0
      BY <1>1, BeforeIs
    <3> QED
      BY <3>1, <3>2 DEF Held
  <2>2. Queue(file, 0) = <<>>
    BY <2>1 DEF Queue
  <2>3. (0 \in Ends(file)) = FALSE
    BY <2>1
  <2> QED
    BY <2>2, <2>3, Zenon DEF Lines
<1>3. all = step(all)
  <2>1. \A k \in 0..n : k # 0 => k \in 1..n /\ k - 1 \in 0..n
    BY <1>1
  <2>2. ASSUME NEW k \in 0..n
        PROVE  all[k] = IF k = 0 THEN start ELSE Read(all[k - 1], file[k])
    <3>1. CASE k = 0
      BY <1>2, <3>1
    <3>2. CASE k # 0
      <4>1. k \in 1..n /\ k - 1 \in 0..n
        BY <2>1, <3>2
      <4>2. all[k - 1] = Lines(file, k - 1) /\ all[k] = Lines(file, k)
        BY <4>1
      <4>3. Lines(file, k) = Read(Lines(file, k - 1), file[k])
        BY <4>1, LineRead
      <4> HIDE DEF all
      <4> QED
        BY <3>2, <4>2, <4>3
    <3> QED
      BY <3>1, <3>2
  <2>3. all = [k \in 0..n |-> all[k]]
    OBVIOUS
  <2> HIDE DEF all
  <2> QED
    BY <2>2, <2>3
<1>4. read = step(read)
  <2> HIDE DEF all, step
  <2> QED
    BY <1>3
<1>5. read = all
  <2> DEFINE S == {k \in Nat : k <= n => read[k] = all[k]}
  <2>1. 0 \in S
    <3>1. read[0] = start
      BY <1>1, <1>4
    <3>2. all[0] = start
      BY <1>1, <1>3
    <3> HIDE DEF read, all, start
    <3> QED
      BY <3>1, <3>2
  <2>2. ASSUME NEW k \in S PROVE k + 1 \in S
    <3> SUFFICES ASSUME k + 1 <= n PROVE read[k + 1] = all[k + 1]
      OBVIOUS
    <3>1. k + 1 \in 0..n /\ k + 1 # 0 /\ (k + 1) - 1 = k /\ k <= n
      BY <1>1
    <3>2. read[k + 1] = Read(read[k], file[k + 1])
      BY <1>4, <3>1
    <3>3. all[k + 1] = Read(all[k], file[k + 1])
      BY <1>3, <3>1
    <3>4. read[k] = all[k]
      BY <3>1
    <3> HIDE DEF read, all
    <3> QED
      BY <3>2, <3>3, <3>4
  <2>3. \A k \in Nat : k \in S
    <3>1. S \in SUBSET Nat
      OBVIOUS
    <3> HIDE DEF S
    <3> QED
      BY <2>1, <2>2, <3>1, Induct
  <2>4. \A k \in 0..n : read[k] = all[k]
    <3> HIDE DEF read, all
    <3>1. \A k \in 0..n : k \in Nat /\ k <= n
      BY <1>1
    <3> QED
      BY <2>3, <3>1
  <2>5. read = [k \in 0..n |-> read[k]]
    <3> DEFINE g(k) == IF k = 0 THEN start ELSE Read(read[k - 1], file[k])
    <3>1. read = [k \in 0..n |-> g(k)]
      BY <1>4
    <3> HIDE DEF read, g
    <3> QED
      BY <3>1
  <2>6. all = [k \in 0..n |-> all[k]]
    OBVIOUS
  <2> HIDE DEF read, all
  <2> QED
    BY <2>4, <2>5, <2>6
<1>6. FileDecisions(file) = Queue(file, n)
  <2>1. FileDecisions(file) = read[n].queue
    BY DEF FileDecisions
  <2>2. all[n] = Lines(file, n)
    BY <1>1
  <2> HIDE DEF read, all
  <2> QED
    BY <1>5, <2>1, <2>2 DEF Lines
<1> HIDE DEF read, all, step
<1> DEFINE b == Before(file, n)
           data == LastDataset(file)
           m == Held(file, n)
<1>7. b \in 0..n /\ m \in Nat
  BY <1>1, BeforeIs
<1>8. data = SubSeq(file, b + 1, b + m)
  <2>1. n - (IF n \in Ends(file) THEN 1 ELSE 0) = b + m
    BY <1>1, <1>7 DEF Held
  <2> HIDE DEF b, m
  <2> QED
    BY <2>1 DEF LastDataset, Ends, Before, b
<1>9. b + m <= n
  BY <1>1, <1>7 DEF Held
<1>10. data \in File /\ Len(data) = m /\ \A j \in 1..m : data[j] = file[b + j]
  <2> HIDE DEF b, m, data
  <2>1. file \in Seq(Seq(Int) \ {<<>>})
    BY DEF File
  <2>2. \A k \in (b + 1)..(b + m) : k \in 1..n
    BY <1>1, <1>7, <1>9
  <2> QED
    BY <1>1, <1>7, <1>8, <1>9, <2>1, <2>2 DEF File
<1>11. Queue(file, n) = [j \in 1..m |-> Last(file[b + j]) > 0]
  BY DEF Queue
<1> HIDE DEF b, m, data
<1>12. FileDecisions(file) = [j \in 1..m |-> Last(data[j]) > 0]
  BY <1>6, <1>10, <1>11
<1>13. FileDecisions(file) \in Seq(BOOLEAN)
  <2>1. \A j \in 1..m : (Last(data[j]) > 0) \in BOOLEAN
    OBVIOUS
  <2> QED
    BY <1>7, <1>12, <2>1
<1> QED
  BY <1>10, <1>12, <1>13 DEF data

-----------------------------------------------------------------------------
(***************************************************************************)
(* The ledger of every rank is right at the start.                         *)
(***************************************************************************)
LEMMA NewProbes ==
    ASSUME NEW g \in Nat
    PROVE  LET p == NewProbe(g) IN
           /\ DOMAIN p = Fields
           /\ p.it = 0 /\ p.cum = 0 /\ p.balanced = TRUE
           /\ p.lbTimes \in Seq(Nat) /\ p.effs \in Seq(Efficiency)
           /\ p.lbTimes = NewProbe(0).lbTimes /\ p.effs = NewProbe(0).effs
           /\ Len(p.lbTimes) \in Nat /\ Len(p.effs) \in Nat
<1>1. FirstCost \in Nat /\ FirstEff \in Efficiency
  BY TimesAssumption DEF Efficiency
<1>2. <<FirstCost>> \in Seq(Nat) /\ <<FirstEff>> \in Seq(Efficiency)
      /\ <<>> \in Seq(Nat) /\ <<>> \in Seq(Efficiency)
  BY <1>1
<1>3. /\ Len(<<FirstCost>>) = 1 /\ Len(<<FirstEff>>) = 1
      /\ Len(<<>>) = 0
  OBVIOUS
<1> QED
  BY <1>2, <1>3 DEF NewProbe, Fields

LEMMA NewStores ==
    ASSUME Init PROVE script \in [Rank -> Seq(BOOLEAN)]
<1>1. CASE policy = "file"
  <2>1. lines \in Files /\ script = [r \in Rank |-> FileDecisions(lines)]
    BY <1>1 DEF Init
  <2>2. FileDecisions(lines) \in Seq(BOOLEAN)
    BY <2>1, FilesAssumption, FileRead DEF File
  <2> QED
    BY <2>1, <2>2
<1>2. CASE policy = "random"
  <2>1. PICK d \in Draws : script = [r \in Rank |-> d]
    BY <1>2 DEF Init
  <2>2. NFrames * NPFrame \in Nat
    BY Sizes
  <2>3. d \in Seq(BOOLEAN)
    BY <2>2 DEF Draws
  <2> QED
    BY <2>1, <2>3
<1>3. CASE policy # "file" /\ policy # "random"
  <2>1. script = [r \in Rank |-> <<>>]
    BY <1>3 DEF Init
  <2>2. <<>> \in Seq(BOOLEAN)
    OBVIOUS
  <2> QED
    BY <2>1, <2>2
<1> QED
  BY <1>1, <1>2, <1>3

LEMMA InitLedger == ASSUME Init PROVE Ledger
<1>1. PICK g \in [Rank -> Garbage] : probe = [r \in Rank |-> NewProbe(g[r])]
  BY DEF Init
<1>2. \A r \in Rank : g[r] \in Nat
  BY TimesAssumption
<1>3. \A r \in Rank :
          /\ DOMAIN probe[r] = Fields
          /\ probe[r].it = 0 /\ probe[r].cum = 0 /\ probe[r].balanced = TRUE
          /\ probe[r].lbTimes \in Seq(Nat)
          /\ probe[r].effs \in Seq(Efficiency)
          /\ probe[r].lbTimes = NewProbe(0).lbTimes
          /\ probe[r].effs = NewProbe(0).effs
          /\ Len(probe[r].lbTimes) \in Nat /\ Len(probe[r].effs) \in Nat
  BY <1>1, <1>2, NewProbes
<1>4. /\ policy \in Policies
      /\ lines \in IF policy = "file" THEN Files ELSE {<<>>}
      /\ pc = [r \in Rank |-> IF Record THEN "gather" ELSE "ghosts0"]
      /\ frame = [r \in Rank |-> 0] /\ i = [r \in Rank |-> 0]
      /\ itTime = [r \in Rank |-> 0] /\ comp = [r \in Rank |-> 0]
      /\ app = [r \in Rank |-> 0] /\ timeHist = [r \in Rank |-> <<>>]
      /\ dec = [r \in Rank |-> <<>>]
      /\ gathered = <<>> /\ measured = <<>>
  BY DEF Init
<1>5. Shapes
  <2>1. /\ <<>> \in Seq(Nat) /\ <<>> \in Seq(BOOLEAN)
        /\ <<>> \in Seq([Rank -> Nat])
    OBVIOUS
  <2>2. DOMAIN probe = Rank
    BY <1>1
  <2> QED
    BY <1>3, <1>4, <2>1, <2>2, NewStores DEF Shapes, Places
<1>6. InLoops
  BY <1>4, Sizes DEF InLoops, Measured
<1>7. \A r \in Rank : Steps(r) = 0 /\ Acted(r) = 0 /\ Timed(r) = 0
  BY <1>4, Sizes DEF Steps, Acted, Timed, Acting, Measured
<1>8. Counted
  BY <1>3, <1>4, <1>7 DEF Counted
<1>9. Summed
  BY <1>4 DEF Summed, SoFar
<1>10. Filed
  BY <1>4 DEF Filed
<1>11. \A n \in Nat : Balancings(<<>>, n) = {}
  BY DEF Balancings
<1>12. Costs
  <2>1. Cardinality(Balancings(<<>>, Len(<<>>) + 1)) = 0
    BY <1>11, FS_EmptySet
  <2> QED
    BY <1>3, <1>4, <2>1 DEF Costs
<1>13. Efficiencies
  BY <1>3, <1>4 DEF Efficiencies
<1>14. Flags
  BY <1>3, <1>4 DEF Flags, Acting
<1>15. Accumulated
  <2>1. \A r \in Rank : Fresh(r) = 1
    BY <1>4 DEF Fresh
  <2>2. LatestOf(Balancings(<<>>, 1)) = 0
    BY <1>11 DEF LatestOf
  <2>3. ImbalanceAfter(0, <<>>) = 0
    <3>1. <<>> \in Seq([Rank -> Nat]) /\ Len(<<>>) = 0
      OBVIOUS
    <3> QED
      BY <3>1, AfterAll
  <2> QED
    BY <1>3, <1>4, <2>1, <2>2, <2>3 DEF Accumulated
<1>16. PerFrame
  BY <1>4 DEF PerFrame
<1> QED
  BY <1>5, <1>6, <1>8, <1>9, <1>10, <1>12, <1>13, <1>14, <1>15, <1>16
     DEF Ledger

-----------------------------------------------------------------------------
(***************************************************************************)
(* The steps a rank takes alone keep the ledgers.                          *)
(***************************************************************************)
LEMMA StepsNat ==
    ASSUME Shapes, NEW r \in Rank
    PROVE  frame[r] * NPFrame \in Nat /\ Steps(r) \in Nat
<1>1. \A a, b \in Nat : a * b \in Nat
  OBVIOUS
<1>2. frame[r] * NPFrame \in Nat /\ i[r] \in Nat
  BY <1>1, Sizes DEF Shapes
<1> QED
  BY <1>2 DEF Steps

LEMMA ComputeLedger ==
    ASSUME Ledger, NEW r \in Rank, Compute(r) PROVE Ledger'
<1> USE DEF Ledger
<1>1. /\ pc[r] = "compute" /\ pc' = [pc EXCEPT ![r] = "reduce"]
      /\ UNCHANGED <<policy, lines, script, frame, i, probe, comp, app,
                     timeHist, dec, gathered, measured>>
  BY DEF Compute, chosen
<1>2. itTime' \in [Rank -> Nat]
  BY TimesAssumption DEF Compute, Shapes
<1>3. \A s \in Rank : pc'[s] = pc[s] \/ (pc[s] = "compute" /\ pc'[s] = "reduce")
  BY <1>1 DEF Shapes
<1>4. pc' \in [Rank -> Places]
  BY <1>1 DEF Shapes, Places
<1>5. Shapes'
  BY <1>1, <1>2, <1>4 DEF Shapes
<1>6. InLoops'
  BY <1>1, <1>3 DEF InLoops, Measured
<1>7. Counted' /\ Summed' /\ Filed'
  BY <1>1, <1>3 DEF Counted, Summed, Filed, Steps, Acted, Timed, Acting,
                    Measured
<1>8. Costs' /\ Efficiencies' /\ Flags'
  BY <1>1, <1>3 DEF Costs, Efficiencies, Flags, NewProbe, Acting
<1>9. Accumulated' /\ PerFrame'
  BY <1>1, <1>3 DEF Accumulated, PerFrame, Fresh
<1> QED
  BY <1>5, <1>6, <1>7, <1>8, <1>9

(* The call of all ranks at once in which nothing but the place changes.   *)
LEMMA MoveLedger ==
    ASSUME Ledger, NEW at \in Places, NEW to \in [Rank -> Places],
           \A r \in Rank : pc[r] = at, pc' = to, InLoops', Filed',
           at \in Measured <=> at = "migrate", at \notin {"lb", "ghosts"},
           \A r \in Rank :
               /\ to[r] \notin {"decide", "lb", "migrate"}
               /\ to[r] = "ghosts" <=> at = "migrate",
           UNCHANGED <<policy, lines, script, frame, i, itTime, probe, comp,
                       app, timeHist, dec, measured>>
    PROVE  Ledger'
<1> USE DEF Ledger
<1>1. Shapes'
  BY DEF Shapes
<1>2. Counted'
  BY DEF Counted, Steps, Acted, Timed, Acting, Measured
<1>3. Summed'
  BY DEF Summed
<1>4. Costs' /\ Efficiencies'
  BY DEF Costs, Efficiencies, NewProbe
<1>5. Flags'
  BY DEF Flags, Acting
<1>6. Accumulated'
  <2> SUFFICES ASSUME NEW r \in Rank
               PROVE  probe[r].cum = ImbalanceAfter(
                        LatestOf(Balancings(dec[r], Fresh(r)')), measured)
    BY DEF Accumulated
  <2>1. CASE at = "migrate"
    <3>1. /\ dec[r] \in Seq(BOOLEAN) /\ Len(dec[r]) = Len(measured)
          /\ Last(dec[r]) = FALSE /\ Len(measured) = Steps(r) + 1
          /\ Fresh(r) = Len(measured) /\ Fresh(r)' = Len(measured) + 1
      BY <2>1 DEF Shapes, Counted, Flags, Fresh, Acted, Timed, Acting,
                  Measured
    <3>2. Steps(r) \in Nat
      BY StepsNat
    <3>3. dec[r] # <<>>
      BY <3>1, <3>2
    <3>4. Balancings(dec[r], Fresh(r)') = Balancings(dec[r], Fresh(r))
      BY <3>1, <3>3, WithLast
    <3> QED
      BY <3>4 DEF Accumulated
  <2>2. CASE at # "migrate"
    <3>1. Fresh(r)' = Fresh(r)
      BY <2>2 DEF Fresh, Measured
    <3> QED
      BY <3>1 DEF Accumulated
  <2> QED
    BY <2>1, <2>2
<1>7. PerFrame'
  BY DEF PerFrame
<1> QED
  BY <1>1, <1>2, <1>3, <1>4, <1>5, <1>6, <1>7

LEMMA FirstGhostsLedger == ASSUME Ledger, FirstGhosts PROVE Ledger'
<1>1. /\ \A r \in Rank : pc[r] = "ghosts0"
      /\ pc' = [r \in Rank |-> NextFrame(0)]
      /\ UNCHANGED <<policy, lines, script, frame, i, itTime, probe, comp,
                     app, timeHist, dec, gathered, measured>>
  BY DEF FirstGhosts, AllAt, chosen
<1>2. NextFrame(0) = IF 0 < NFrames THEN "compute" ELSE "stats"
  BY DEF NextFrame
<1>3. \A r \in Rank : frame[r] = 0 /\ i[r] = 0
  BY <1>1 DEF Ledger, InLoops
<1>4. InLoops'
  BY <1>1, <1>2, <1>3, Sizes DEF InLoops, Measured
<1>5. Filed'
  BY <1>1, <1>2 DEF Ledger, Filed
<1> QED
  BY <1>1, <1>2, <1>4, <1>5, MoveLedger DEF Places, Measured

LEMMA MigrateLedger == ASSUME Ledger, Migrate PROVE Ledger'
<1>1. /\ \A r \in Rank : pc[r] = "migrate"
      /\ pc' = [r \in Rank |-> "ghosts"]
      /\ UNCHANGED <<policy, lines, script, frame, i, itTime, probe, comp,
                     app, timeHist, dec, gathered, measured>>
  BY DEF Migrate, AllAt, chosen
<1>2. InLoops' /\ Filed'
  BY <1>1 DEF Ledger, InLoops, Filed, Measured
<1> QED
  BY <1>1, <1>2, MoveLedger DEF Places, Measured

LEMMA StatisticsLedger == ASSUME Ledger, Statistics PROVE Ledger'
<1>1. /\ \A r \in Rank : pc[r] = "stats"
      /\ pc' = [r \in Rank |-> "done"]
      /\ UNCHANGED <<policy, lines, script, frame, i, itTime, probe, comp,
                     app, timeHist, dec, gathered, measured>>
  BY DEF Statistics, AllAt, chosen
<1>2. InLoops' /\ Filed'
  BY <1>1 DEF Ledger, InLoops, Filed, Measured
<1> QED
  BY <1>1, <1>2, MoveLedger DEF Places, Measured

LEMMA GatherLedger == ASSUME Ledger, Gather PROVE Ledger'
<1>1. /\ \A r \in Rank : pc[r] = "gather"
      /\ pc' = [r \in Rank |-> IF gathered = <<>> THEN "ghosts0"
                                                  ELSE NextFrame(frame[r])]
      /\ gathered' = Append(gathered, frame[0])
      /\ UNCHANGED <<policy, lines, script, frame, i, itTime, probe, comp,
                     app, timeHist, dec, measured>>
  BY DEF Gather, AllAt, chosen
<1>2. \A r \in Rank :
          /\ frame[r] \in Nat /\ frame[r] <= NFrames /\ i[r] = 0
          /\ pc'[r] = IF gathered = <<>> THEN "ghosts0"
                      ELSE IF frame[r] < NFrames THEN "compute" ELSE "stats"
  BY <1>1 DEF Ledger, Shapes, InLoops, NextFrame
<1>3. Record => /\ gathered \in Seq(Nat)
                /\ \A r \in Rank : Len(gathered) = frame[r]
  BY <1>1 DEF Ledger, Filed
<1>4. Record
  <2>1. pc[0] = "gather" /\ 0 \in Rank
    BY <1>1, Sizes
  <2> QED
    BY <2>1 DEF Ledger, InLoops
<1>5. InLoops'
  BY <1>1, <1>2, <1>3, <1>4, Sizes DEF InLoops, Measured
<1>6. Filed'
  <2>1. /\ gathered' \in Seq(Nat) /\ Len(gathered') = Len(gathered) + 1
        /\ \A k \in 1..Len(gathered) : gathered'[k] = gathered[k]
        /\ \A k : k = Len(gathered) + 1 => gathered'[k] = Len(gathered)
    <3>1. gathered \in Seq(Nat) /\ frame[0] = Len(gathered)
      BY <1>3, <1>4, Sizes
    <3> QED
      BY <1>1, <3>1
  <2>2. \A k \in 1..Len(gathered) : gathered[k] = k - 1
    BY <1>4 DEF Ledger, Filed
  <2>3. \A k \in 1..Len(gathered') : gathered'[k] = k - 1
    <3> TAKE k \in 1..Len(gathered')
    <3>1. Len(gathered) \in Nat
      BY <1>3, <1>4
    <3>2. CASE k \in 1..Len(gathered)
      BY <2>1, <2>2, <3>2
    <3>3. CASE k = Len(gathered) + 1
      <4>1. gathered'[k] = Len(gathered)
        BY <2>1, <3>3
      <4>2. k - 1 = Len(gathered)
        BY <3>1, <3>3
      <4> QED
        BY <4>1, <4>2
    <3> QED
      BY <2>1, <3>1, <3>2, <3>3
  <2>4. \A r \in Rank : pc'[r] # "gather" /\ Len(gathered') = frame'[r] + 1
    BY <1>1, <1>2, <1>3, <1>4, <2>1
  <2> QED
    BY <2>1, <2>3, <2>4 DEF Filed
<1>7. pc' \in [Rank -> Places]
      /\ \A r \in Rank : pc'[r] \in {"ghosts0", "compute", "stats"}
  BY <1>1, <1>2 DEF Places, NextFrame
<1> QED
  BY <1>1, <1>5, <1>6, <1>7, MoveLedger DEF Places, Measured

LEMMA ReducedFields ==
    ASSUME Shapes, Allreduce, NEW r \in Rank
    PROVE  /\ DOMAIN probe'[r] = Fields
           /\ probe'[r].it = probe[r].it
           /\ probe'[r].max = MaxOf(itTime)
           /\ probe'[r].min = MinOf(itTime)
           /\ probe'[r].sum = TotalOf(itTime)
           /\ probe'[r].cum =
                 probe[r].cum + NProc * MaxOf(itTime) - TotalOf(itTime)
           /\ probe'[r].balanced = probe[r].balanced
           /\ probe'[r].lbTimes = probe[r].lbTimes
           /\ probe'[r].effs =
                 IF probe[r].balanced
                 THEN Append(probe[r].effs,
                             <<TotalOf(itTime), NProc * MaxOf(itTime)>>)
                 ELSE probe[r].effs
           /\ probe'[r].batch = probe[r].batch
<1>1. probe'[r] = Reduced(r, itTime) /\ DOMAIN probe[r] = Fields
  BY DEF Allreduce, Shapes
<1> QED
  BY <1>1 DEF Reduced, Fields

LEMMA AllreduceLedger == ASSUME Ledger, Allreduce PROVE Ledger'
<1> USE DEF Ledger
<1> DEFINE max == MaxOf(itTime)
           total == TotalOf(itTime)
<1>1. /\ \A r \in Rank : pc[r] = "reduce"
      /\ pc' = [r \in Rank |-> "decide"]
      /\ itTime' = [r \in Rank |-> max]
      /\ measured' = Append(measured, itTime)
      /\ probe' = [r \in Rank |-> Reduced(r, itTime)]
      /\ UNCHANGED <<policy, lines, script, frame, i, comp, app, timeHist,
                     dec, gathered>>
  BY DEF Allreduce, AllAt, chosen
<1>2. /\ itTime \in [Rank -> Nat] /\ max \in Nat /\ total \in Nat
      /\ NProc * max \in Int
  <2>1. itTime \in [Rank -> Nat]
    BY DEF Shapes
  <2>2. MaxOf(itTime) \in Nat /\ TotalOf(itTime) \in Nat
    BY <2>1, MaxNat, TotalNat
  <2>3. \A a, b \in Nat : a * b \in Int
    OBVIOUS
  <2> QED
    BY <2>1, <2>2, <2>3, Sizes
<1>3. \A r \in Rank :
          /\ DOMAIN probe'[r] = Fields
          /\ probe'[r].it = probe[r].it
          /\ probe'[r].cum = probe[r].cum + NProc * max - total
          /\ probe'[r].balanced = probe[r].balanced
          /\ probe'[r].lbTimes = probe[r].lbTimes
          /\ probe'[r].effs = IF probe[r].balanced
                              THEN Append(probe[r].effs, <<total, NProc * max>>)
                              ELSE probe[r].effs
  BY ReducedFields
<1> HIDE DEF max, total
<1>4. /\ measured \in Seq([Rank -> Nat])
      /\ measured' \in Seq([Rank -> Nat])
      /\ Len(measured') = Len(measured) + 1
  BY <1>1, <1>2 DEF Shapes
<1>5. Shapes'
  <2>1. <<total, NProc * max>> \in Efficiency
    BY <1>2 DEF Efficiency
  <2>2. \A r \in Rank : probe'[r].effs \in Seq(Efficiency)
    <3> DEFINE x == <<total, NProc * max>>
    <3> HIDE DEF x
    <3>1. x \in Efficiency
      BY <2>1 DEF x
    <3> TAKE r \in Rank
    <3>2. /\ probe[r].effs \in Seq(Efficiency)
          /\ probe'[r].effs = IF probe[r].balanced
                              THEN Append(probe[r].effs, x)
                              ELSE probe[r].effs
      BY <1>3 DEF Shapes, x
    <3> QED
      BY <3>1, <3>2
  <2>3. \A r \in Rank : probe'[r].cum \in Int
    <3> TAKE r \in Rank
    <3>1. probe[r].cum \in Int
      BY DEF Shapes
    <3> DEFINE x == NProc * max
    <3>2. x \in Int /\ probe'[r].cum = probe[r].cum + x - total
      BY <1>2, <1>3
    <3> HIDE DEF x
    <3> QED
      BY <1>2, <3>1, <3>2
  <2> QED
    BY <1>1, <1>2, <1>3, <1>4, <2>2, <2>3 DEF Shapes, Places
<1>6. InLoops'
  BY <1>1 DEF InLoops, Measured
<1>7. Counted' /\ Summed' /\ Filed'
  BY <1>1, <1>3, <1>4 DEF Counted, Summed, Filed, Steps, Acted, Timed,
                          Acting, Measured
<1>8. Costs'
  BY <1>1, <1>3 DEF Costs, NewProbe
<1>9. \A r \in Rank :
          /\ dec[r] \in Seq(BOOLEAN)
          /\ Len(dec[r]) = Len(measured)
          /\ probe[r].balanced = (dec[r] = <<>> \/ Last(dec[r]))
  BY <1>1 DEF Shapes, Counted, Acted, Timed, Acting, Measured, Flags
<1>10. Efficiencies'
  <2> SUFFICES ASSUME NEW r \in Rank
               PROVE  (Len(probe[r].effs) = Len(NewProbe(0).effs)
                        + (IF measured = <<>> THEN 0
                           ELSE 1 + Cardinality(
                                      Balancings(dec[r], Len(measured)))))'
    BY DEF Efficiencies
  <2> DEFINE new == Len(NewProbe(0).effs)
             before == Balancings(dec[r], Len(measured))
             all == Balancings(dec[r], Len(measured) + 1)
             e == probe[r].effs
             x == <<total, NProc * max>>
  <2>1. /\ new \in Nat /\ e \in Seq(Efficiency) /\ x \in Efficiency
        /\ NewProbe(0)' = NewProbe(0)
    BY <1>1, <1>2, NewProbes, SMTT(30) DEF Shapes, Efficiency, NewProbe
  <2>2. Cardinality(before) \in Nat /\ Cardinality(all) \in Nat
    BY <1>4, <1>9, BalancingsAre
  <2>3. Len(e) = new + (IF measured = <<>> THEN 0
                        ELSE 1 + Cardinality(before))
    BY DEF Efficiencies
  <2>4. probe'[r].effs = IF probe[r].balanced THEN Append(e, x) ELSE e
    BY <1>3
  <2>5. /\ measured' # <<>>
        /\ Balancings(dec[r], Len(measured))' = all
    BY <1>1, <1>4
  <2>0. /\ probe[r].balanced => dec[r] = <<>> \/ Last(dec[r])
        /\ ~probe[r].balanced => dec[r] # <<>> /\ ~Last(dec[r])
    BY <1>9, Zenon
  <2>11. dec[r] = <<>> <=> measured = <<>>
    BY <1>4, <1>9
  <2>6. probe[r].balanced =>
            Cardinality(all) + 1 = Len(e) - new + 1
    <3>1. CASE measured = <<>>
      <4>1. dec[r] = <<>> /\ Len(measured) = 0
        BY <1>9, <3>1
      <4>2. all = {}
        BY <4>1 DEF Balancings
      <4> HIDE DEF e, all, new, before
      <4> QED
        BY <2>1, <2>3, <3>1, <4>2, FS_EmptySet
    <3>2. CASE measured # <<>>
      <4> SUFFICES ASSUME probe[r].balanced
                   PROVE  Cardinality(all) + 1 = Len(e) - new + 1
        OBVIOUS
      <4>1. dec[r] # <<>> /\ Last(dec[r])
        BY <2>0, <2>11, <3>2
      <4>2. Cardinality(all) = Cardinality(before) + 1
        BY <1>9, <4>1, WithLast
      <4> HIDE DEF e, all, new, before
      <4> QED
        BY <2>1, <2>2, <2>3, <3>2, <4>2
    <3> QED
      BY <3>1, <3>2
  <2>7. ~probe[r].balanced => Cardinality(all) + 1 = Len(e) - new
    <3> SUFFICES ASSUME ~probe[r].balanced
                 PROVE  Cardinality(all) + 1 = Len(e) - new
      OBVIOUS
    <3>1. dec[r] # <<>> /\ ~Last(dec[r]) /\ measured # <<>>
      BY <2>0, <2>11
    <3>2. all = before
      BY <1>9, <3>1, WithLast
    <3> HIDE DEF e, all, new, before
    <3> QED
      BY <2>1, <2>2, <2>3, <3>1, <3>2
  <2>8. Len(Append(e, x)) = Len(e) + 1
    <3> HIDE DEF e, x
    <3> QED
      BY <2>1
  <2>9. Len(e) \in Nat
    <3> HIDE DEF e, x
    <3> QED
      BY <2>1
  <2>10. Len(probe'[r].effs) = new + (1 + Cardinality(all))
    <3> HIDE DEF e, x, all, new, before
    <3>1. CASE probe[r].balanced
      BY <2>1, <2>2, <2>4, <2>6, <2>8, <2>9, <3>1
    <3>2. CASE ~probe[r].balanced
      BY <2>1, <2>2, <2>4, <2>7, <2>9, <3>2
    <3> QED
      BY <3>1, <3>2
  <2> HIDE DEF all
  <2> QED
    BY <2>1, <2>5, <2>10
<1>11. Flags'
  BY <1>1, <1>3 DEF Flags, Acting
<1>12. Accumulated'
  <2> SUFFICES ASSUME NEW r \in Rank
               PROVE  (probe[r].cum = ImbalanceAfter(
                         LatestOf(Balancings(dec[r], Fresh(r))), measured))'
    BY DEF Accumulated
  <2> DEFINE n == Len(measured) + 1
             l == LatestOf(Balancings(dec[r], n))
  <2>1. Fresh(r) = n /\ Fresh(r)' = n
    BY <1>1, <1>4 DEF Fresh
  <2>2. l \in 0..Len(measured)
    BY <1>4, <1>9, LatestIs
  <2>3. probe[r].cum = ImbalanceAfter(l, measured)
    BY <2>1 DEF Accumulated
  <2>4. ImbalanceAfter(l, Append(measured, itTime)) =
            ImbalanceAfter(l, measured) + NProc * max - total
    BY <1>2, <1>4, <2>2, AfterOneMore DEF max, total
  <2>5. probe'[r].cum = ImbalanceAfter(l, Append(measured, itTime))
    BY <1>3, <2>3, <2>4
  <2>6. LatestOf(Balancings(dec[r], Fresh(r)))' = l
    BY <1>1, <2>1
  <2> HIDE DEF l
  <2> QED
    BY <1>1, <2>5, <2>6
<1>13. PerFrame'
  BY <1>1 DEF PerFrame
<1> QED
  BY <1>5, <1>6, <1>7, <1>8, <1>10, <1>11, <1>12, <1>13

(* A decision is yes or no, and yes at the start of a frame only unless    *)
(* drawn at random.                                                        *)
LEMMA DecisionIs ==
    ASSUME Shapes, NEW r \in Rank, NEW d \in Decisions(r)
    PROVE  /\ d \in BOOLEAN
           /\ policy # "random" /\ d => IsNewBatch(probe[r])
<1>1. policy \in Criteria \cup {"file", "random"}
  BY PoliciesAssumption DEF Shapes, Criteria
<1>2. CASE Pops(r)
  <2>1. d \in BOOLEAN
    <3>1. CASE script[r] = <<>>
      BY <1>2, <3>1 DEF Decisions
    <3>2. CASE script[r] # <<>>
      <4>1. script[r] \in Seq(BOOLEAN) /\ d = Head(script[r])
        BY <1>2, <3>2 DEF Decisions, Shapes
      <4> QED
        BY <3>2, <4>1
    <3> QED
      BY <3>1, <3>2
  <2>2. policy # "random" => IsNewBatch(probe[r])
    BY <1>2 DEF Pops
  <2> QED
    BY <2>1, <2>2
<1>3. CASE ~Pops(r)
  <2>1. d = ShouldLoadBalance(policy, probe[r]) /\ policy # "random"
    BY <1>3 DEF Decisions, Pops
  <2>2. CASE ~IsNewBatch(probe[r])
    <3>1. ShouldLoadBalance(policy, probe[r]) = FALSE
      BY <2>2 DEF ShouldLoadBalance
    <3> QED
      BY <2>1, <3>1
  <2>3. CASE IsNewBatch(probe[r])
    <3>1. policy \in Criteria
      BY <1>1, <1>3, <2>1, <2>3 DEF Pops
    <3>2. ShouldLoadBalance(policy, probe[r]) \in BOOLEAN
      BY <3>1 DEF Criteria, ShouldLoadBalance
    <3> QED
      BY <2>1, <2>3, <3>2
  <2> QED
    BY <2>2, <2>3
<1> QED
  BY <1>2, <1>3

LEMMA DecideLedger ==
    ASSUME Ledger, NEW r \in Rank, Decide(r) PROVE Ledger'
<1> USE DEF Ledger
<1>1. PICK d \in Decisions(r) :
          /\ dec' = [dec EXCEPT ![r] = Append(@, d)]
          /\ pc' = [pc EXCEPT ![r] = IF d THEN "lb" ELSE "migrate"]
  BY DEF Decide
<1>2. /\ pc[r] = "decide"
      /\ script' = [script EXCEPT ![r] =
                       IF Pops(r) /\ @ # <<>> THEN Tail(@) ELSE @]
      /\ UNCHANGED <<policy, lines, frame, i, itTime, probe, comp, app,
                     timeHist, gathered, measured>>
  BY DEF Decide, chosen
<1>3. /\ d \in BOOLEAN
      /\ policy # "random" /\ d => IsNewBatch(probe[r])
  BY DecisionIs
<1>4. /\ dec[r] \in Seq(BOOLEAN) /\ dec'[r] = Append(dec[r], d)
      /\ Len(dec[r]) \in Nat /\ Len(dec'[r]) = Len(dec[r]) + 1
      /\ dec'[r] \in Seq(BOOLEAN) /\ dec'[r] # <<>> /\ Last(dec'[r]) = d
  <2>1. dec[r] \in Seq(BOOLEAN) /\ dec'[r] = Append(dec[r], d)
    BY <1>1 DEF Shapes
  <2> QED
    BY <1>3, <2>1 DEF Last
<1>5. /\ pc'[r] = IF d THEN "lb" ELSE "migrate"
      /\ pc' \in [Rank -> Places] /\ dec' \in [Rank -> Seq(BOOLEAN)]
      /\ \A s \in Rank : s # r => pc'[s] = pc[s] /\ dec'[s] = dec[s]
  BY <1>1, <1>4 DEF Shapes, Places
<1>6. Len(dec[r]) = Steps(r) /\ Len(measured) = Len(dec[r]) + 1
  BY <1>2 DEF Counted, Acted, Timed, Acting, Measured
<1>7. Shapes'
  <2>1. script' \in [Rank -> Seq(BOOLEAN)]
    <3>1. script[r] \in Seq(BOOLEAN)
      BY DEF Shapes
    <3>2. script[r] # <<>> => Tail(script[r]) \in Seq(BOOLEAN)
      <4>1. \A q \in Seq(BOOLEAN) : q # <<>> => Tail(q) \in Seq(BOOLEAN)
        OBVIOUS
      <4> QED
        BY <3>1, <4>1
    <3> QED
      BY <1>2, <3>1, <3>2 DEF Shapes
  <2> QED
    BY <1>2, <1>5, <2>1 DEF Shapes
<1>8. InLoops'
  BY <1>2, <1>3, <1>5 DEF InLoops, Measured
<1>9. Counted'
  BY <1>2, <1>3, <1>4, <1>5 DEF Counted, Steps, Acted, Timed, Acting,
                                Measured
<1>10. Summed' /\ Filed'
  BY <1>2, <1>3, <1>5 DEF Summed, Filed
<1>11. /\ Balancings(dec'[r], Len(dec[r]) + 1) =
              Balancings(dec[r], Len(dec[r]) + 1)
       /\ Balancings(dec'[r], Len(measured)) = Balancings(dec[r], Len(measured))
  BY <1>3, <1>4, <1>6, NotYet
<1>12. NewProbe(0)' = NewProbe(0)
  BY <1>2 DEF NewProbe
<1>13. Costs'
  <2> SUFFICES ASSUME NEW s \in Rank
               PROVE  (Len(probe[s].lbTimes) + (IF pc[s] = "lb" THEN 1 ELSE 0)
                         = Len(NewProbe(0).lbTimes) + Cardinality(
                               Balancings(dec[s], Len(dec[s]) + 1)))'
    BY DEF Costs
  <2>1. CASE s # r
    BY <1>2, <1>5, <1>12, <2>1 DEF Costs
  <2>2. CASE s = r
    <3> DEFINE n == Len(dec[r]) + 1
               before == Cardinality(Balancings(dec[r], n))
               all == Cardinality(Balancings(dec'[r], n + 1))
               new == Len(NewProbe(0).lbTimes)
               c == Len(probe[r].lbTimes)
    <3>1. /\ n \in Nat /\ before \in Nat /\ new \in Nat /\ c = new + before
      <4>1. n \in Nat /\ new \in Nat
        BY <1>4, NewProbes
      <4>2. before \in Nat
        BY <1>4, <4>1, BalancingsAre
      <4>3. Len(probe[r].lbTimes) \in Nat
        BY DEF Shapes
      <4>4. c + 0 = new + before
        BY <1>2 DEF Costs
      <4> HIDE DEF n, new, before
      <4> QED
        BY <4>1, <4>2, <4>3, <4>4
    <3>2. (d => all = before + 1) /\ (~d => all = before)
      BY <1>4, <1>11, WithLast
    <3>3. pc'[r] = "lb" <=> d
      BY <1>3, <1>5
    <3>4. Cardinality(Balancings(dec[r], Len(dec[r]) + 1))' = all
      BY <1>4
    <3>5. Len(probe[r].lbTimes)' = c /\ Len(NewProbe(0).lbTimes)' = new
      BY <1>2, <1>12
    <3>6. c + (IF pc'[r] = "lb" THEN 1 ELSE 0) = new + all
      <4> HIDE DEF n, before, all, new, c
      <4> QED
        BY <1>3, <3>1, <3>2, <3>3
    <3> HIDE DEF all, new, c
    <3> QED
      BY <2>2, <3>4, <3>5, <3>6
  <2> QED
    BY <2>1, <2>2
<1>14. Efficiencies'
  <2>1. \A s \in Rank : Balancings(dec'[s], Len(measured)) =
                            Balancings(dec[s], Len(measured))
    BY <1>5, <1>11
  <2> QED
    BY <1>2, <1>12, <2>1 DEF Efficiencies
<1>15. Flags'
  BY <1>2, <1>3, <1>4, <1>5 DEF Flags, Acting
<1>16. Accumulated'
  <2>1. \A s \in Rank : Fresh(s)' = Fresh(s)
    BY <1>2, <1>3, <1>5 DEF Fresh
  <2>2. \A s \in Rank : Balancings(dec'[s], Fresh(s)) =
                            Balancings(dec[s], Fresh(s))
    BY <1>2, <1>5, <1>11 DEF Fresh
  <2> QED
    BY <1>2, <2>1, <2>2 DEF Accumulated
<1>17. PerFrame'
  <2> SUFFICES ASSUME policy # "random", NEW s \in Rank,
                      NEW k \in DOMAIN dec'[s], dec'[s][k]
               PROVE  (k - 1) % NPFrame = 0
    BY <1>2 DEF PerFrame
  <2>1. CASE s # r
    BY <1>5, <2>1 DEF PerFrame
  <2>2. CASE s = r /\ k \in DOMAIN dec[r]
    <3>1. dec'[r][k] = dec[r][k]
      BY <1>4, <2>2
    <3> QED
      BY <2>2, <3>1 DEF PerFrame
  <2>3. CASE s = r /\ k \notin DOMAIN dec[r]
    <3>1. k = Len(dec[r]) + 1
      BY <1>4, <2>3
    <3>2. dec'[r][k] = d
      BY <1>4, <3>1
    <3>3. IsNewBatch(probe[r])
      BY <1>3, <2>3, <3>2
    <3>4. probe[r].it = Len(dec[r]) /\ k - 1 = Len(dec[r])
      BY <1>4, <1>6, <3>1 DEF Counted
    <3> QED
      BY <3>3, <3>4 DEF IsNewBatch
  <2> QED
    BY <2>1, <2>2, <2>3
<1> QED
  BY <1>7, <1>8, <1>9, <1>10, <1>13, <1>14, <1>15, <1>16, <1>17

LEMMA BalancedFields ==
    ASSUME Shapes, LoadBalance
    PROVE  \E t \in LBTimes :
              /\ itTime' = [r \in Rank |-> itTime[r] + t]
              /\ \A r \in Rank :
                  /\ DOMAIN probe'[r] = Fields
                  /\ probe'[r].it = probe[r].it
                  /\ probe'[r].max = probe[r].max
                  /\ probe'[r].min = probe[r].min
                  /\ probe'[r].sum = probe[r].sum
                  /\ probe'[r].cum = 0
                  /\ probe'[r].balanced = probe[r].balanced
                  /\ probe'[r].lbTimes = Append(probe[r].lbTimes, t)
                  /\ probe'[r].effs = probe[r].effs
                  /\ probe'[r].batch = probe[r].batch
<1>1. PICK t \in LBTimes :
          /\ probe' = [r \in Rank |-> Balanced(probe[r], t)]
          /\ itTime' = [r \in Rank |-> itTime[r] + t]
  BY DEF LoadBalance
<1>2. \A r \in Rank : DOMAIN probe[r] = Fields
  BY DEF Shapes
<1> QED
  BY <1>1, <1>2 DEF Balanced, Fields

LEMMA LoadBalanceLedger == ASSUME Ledger, LoadBalance PROVE Ledger'
<1> USE DEF Ledger
<1>1. PICK t \in LBTimes :
          /\ itTime' = [r \in Rank |-> itTime[r] + t]
          /\ \A r \in Rank :
              /\ DOMAIN probe'[r] = Fields
              /\ probe'[r].it = probe[r].it
              /\ probe'[r].cum = 0
              /\ probe'[r].balanced = probe[r].balanced
              /\ probe'[r].lbTimes = Append(probe[r].lbTimes, t)
              /\ probe'[r].effs = probe[r].effs
  BY BalancedFields
<1>2. /\ \A r \in Rank : pc[r] = "lb"
      /\ pc' = [r \in Rank |-> "ghosts"]
      /\ UNCHANGED <<policy, lines, script, frame, i, comp, app, timeHist,
                     dec, gathered, measured>>
  BY DEF LoadBalance, AllAt, chosen
<1>3. t \in Nat
  BY TimesAssumption
<1>4. \A r \in Rank :
          /\ probe'[r].lbTimes \in Seq(Nat)
          /\ Len(probe[r].lbTimes) \in Nat
          /\ Len(probe'[r].lbTimes) = Len(probe[r].lbTimes) + 1
  <2> TAKE r \in Rank
  <2>1. probe[r].lbTimes \in Seq(Nat)
    BY DEF Shapes
  <2>2. probe'[r].lbTimes = Append(probe[r].lbTimes, t)
    BY <1>1
  <2> DEFINE q == probe[r].lbTimes
  <2> HIDE DEF q
  <2>3. /\ Append(q, t) \in Seq(Nat) /\ Len(q) \in Nat
        /\ Len(Append(q, t)) = Len(q) + 1
    BY <1>3, <2>1, AppendIs DEF q
  <2> QED
    BY <2>2, <2>3 DEF q
<1>5. NewProbe(0)' = NewProbe(0)
  BY <1>2 DEF NewProbe
<1>6. \A r \in Rank :
          /\ dec[r] \in Seq(BOOLEAN) /\ dec[r] # <<>> /\ Last(dec[r])
          /\ Len(dec[r]) = Len(measured)
  <2> TAKE r \in Rank
  <2>1. Len(dec[r]) = Steps(r) + 1 /\ Len(measured) = Steps(r) + 1
    BY <1>2 DEF Counted, Acted, Timed, Acting, Measured
  <2>2. dec[r] \in Seq(BOOLEAN) /\ Last(dec[r])
    BY <1>2 DEF Shapes, Flags
  <2> QED
    BY <2>1, <2>2, StepsNat
<1>7. Shapes'
  <2>1. itTime' \in [Rank -> Nat]
    BY <1>1, <1>3 DEF Shapes
  <2>2. DOMAIN probe' = Rank
    BY DEF LoadBalance
  <2>3. pc' \in [Rank -> Places]
    BY <1>2 DEF Places
  <2>4. \A r \in Rank : /\ probe[r].it \in Nat
                         /\ probe[r].effs \in Seq(Efficiency)
    BY DEF Shapes
  <2>5. \A r \in Rank : /\ DOMAIN probe'[r] = Fields
                         /\ probe'[r].it \in Nat
                         /\ probe'[r].cum \in Int
                         /\ probe'[r].lbTimes \in Seq(Nat)
                         /\ probe'[r].effs \in Seq(Efficiency)
    BY <1>1, <1>4, <2>4
  <2> QED
    BY <1>2, <2>1, <2>2, <2>3, <2>5 DEF Shapes
<1>8. InLoops' /\ Summed' /\ Filed'
  BY <1>2 DEF InLoops, Summed, Filed, Measured
<1>9. Counted'
  BY <1>1, <1>2 DEF Counted, Steps, Acted, Timed, Acting, Measured
<1>10. Costs'
  <2> SUFFICES ASSUME NEW r \in Rank
               PROVE  (Len(probe[r].lbTimes) + (IF pc[r] = "lb" THEN 1 ELSE 0)
                         = Len(NewProbe(0).lbTimes) + Cardinality(
                               Balancings(dec[r], Len(dec[r]) + 1)))'
    BY DEF Costs
  <2>1. Len(probe[r].lbTimes) + 1
            = Len(NewProbe(0).lbTimes) + Cardinality(
                  Balancings(dec[r], Len(dec[r]) + 1))
    BY <1>2 DEF Costs
  <2>2. pc'[r] # "lb"
    BY <1>2
  <2>3. Len(probe'[r].lbTimes) + 0 = Len(probe[r].lbTimes) + 1
    BY <1>4
  <2> QED
    BY <1>2, <1>5, <2>1, <2>2, <2>3
<1>11. Efficiencies'
  BY <1>1, <1>2, <1>5 DEF Efficiencies
<1>12. Flags'
  BY <1>1, <1>2 DEF Flags, Acting
<1>13. Accumulated'
  <2> SUFFICES ASSUME NEW r \in Rank
               PROVE  (probe[r].cum = ImbalanceAfter(
                         LatestOf(Balancings(dec[r], Fresh(r))), measured))'
    BY DEF Accumulated
  <2>1. Fresh(r)' = Len(dec[r]) + 1
    BY <1>2, <1>6 DEF Fresh
  <2>2. LatestOf(Balancings(dec[r], Len(dec[r]) + 1)) = Len(measured)
    BY <1>6, WithLast
  <2>3. ImbalanceAfter(Len(measured), measured) = 0
    BY AfterAll DEF Shapes
  <2> QED
    BY <1>1, <1>2, <2>1, <2>2, <2>3
<1>14. PerFrame'
  BY <1>2 DEF PerFrame
<1> QED
  BY <1>7, <1>8, <1>9, <1>10, <1>11, <1>12, <1>13, <1>14

LEMMA IteratedFields ==
    ASSUME Shapes, Ghosts, NEW r \in Rank
    PROVE  /\ DOMAIN probe'[r] = Fields
           /\ probe'[r].it = probe[r].it + 1
           /\ probe'[r].max = probe[r].max
           /\ probe'[r].min = probe[r].min
           /\ probe'[r].sum = probe[r].sum
           /\ probe'[r].cum = probe[r].cum
           /\ probe'[r].balanced = Last(dec[r])
           /\ probe'[r].lbTimes = probe[r].lbTimes
           /\ probe'[r].effs = probe[r].effs
           /\ probe'[r].batch = probe[r].batch
<1>1. /\ probe'[r] = Iterated(probe[r], Last(dec[r]))
      /\ DOMAIN probe[r] = Fields
  BY DEF Ghosts, Shapes
<1> QED
  BY <1>1 DEF Iterated, Fields

LEMMA GhostsLedger == ASSUME Ledger, Ghosts PROVE Ledger'
<1> USE DEF Ledger
<1>1. /\ \A r \in Rank : pc[r] = "ghosts"
      /\ timeHist' = [r \in Rank |->
                        Append(timeHist[r], SoFar(timeHist[r]) + itTime[r])]
      /\ comp' = [r \in Rank |-> comp[r] + itTime[r]]
      /\ i' = [r \in Rank |-> i[r] + 1]
      /\ pc' = [r \in Rank |-> NextIteration(i[r] + 1)]
      /\ UNCHANGED <<policy, lines, script, frame, itTime, app, dec,
                     gathered, measured>>
  BY DEF Ghosts, AllAt, chosen
<1>2. \A r \in Rank :
          /\ DOMAIN probe'[r] = Fields
          /\ probe'[r].it = probe[r].it + 1
          /\ probe'[r].cum = probe[r].cum
          /\ probe'[r].balanced = Last(dec[r])
          /\ probe'[r].lbTimes = probe[r].lbTimes
          /\ probe'[r].effs = probe[r].effs
  BY IteratedFields
<1>3. \A r \in Rank :
          /\ i[r] \in Nat /\ i[r] < NPFrame
          /\ comp[r] \in Nat /\ app[r] \in Nat /\ itTime[r] \in Nat
          /\ timeHist[r] \in Seq(Nat)
          /\ app[r] + comp[r] = SoFar(timeHist[r])
          /\ i'[r] = i[r] + 1
          /\ pc'[r] = IF i[r] + 1 < NPFrame THEN "compute" ELSE "frame"
          /\ dec[r] \in Seq(BOOLEAN)
  BY <1>1 DEF Shapes, InLoops, Measured, Summed, NextIteration
<1>4. \A r \in Rank :
          /\ SoFar(timeHist[r]) \in Nat
          /\ timeHist'[r] \in Seq(Nat)
          /\ Len(timeHist'[r]) = Len(timeHist[r]) + 1
          /\ SoFar(timeHist'[r]) = SoFar(timeHist[r]) + itTime[r]
  <2> TAKE r \in Rank
  <2> DEFINE h == timeHist[r]
             t == itTime[r]
  <2>1. h \in Seq(Nat) /\ t \in Nat
    BY <1>3
  <2>2. timeHist'[r] = Append(h, SoFar(h) + t)
    BY <1>1
  <2>3. SoFar(h) \in Nat
    BY <1>3, SMTT(30)
  <2> HIDE DEF h, t
  <2>4. SoFar(h) + t \in Nat
    BY <2>1, <2>3
  <2> DEFINE x == SoFar(h) + t
  <2> HIDE DEF x
  <2>5. /\ Append(h, x) \in Seq(Nat) /\ Len(Append(h, x)) = Len(h) + 1
        /\ Append(h, x) # <<>> /\ Last(Append(h, x)) = x
    <3>1. x \in Nat
      BY <2>4 DEF x
    <3> QED
      BY <2>1, <3>1, AppendIs
  <2>6. SoFar(Append(h, x)) = x
    BY <2>5 DEF SoFar
  <2> QED
    BY <2>2, <2>3, <2>5, <2>6 DEF h, t, x
<1>5. \A r \in Rank : Steps(r) \in Nat /\ Steps(r)' = Steps(r) + 1
  <2> TAKE r \in Rank
  <2> DEFINE f == frame[r] * NPFrame
  <2>1. f \in Nat /\ i[r] \in Nat
    BY <1>3, StepsNat
  <2>2. Steps(r) = f + i[r] /\ Steps(r)' = f + i'[r]
    BY <1>1 DEF Steps
  <2> HIDE DEF f
  <2> QED
    BY <1>3, <2>1, <2>2
<1>6. Shapes'
  <2>1. /\ i' \in [Rank -> Nat] /\ comp' \in [Rank -> Nat]
        /\ timeHist' \in [Rank -> Seq(Nat)] /\ pc' \in [Rank -> Places]
    BY <1>1, <1>3, <1>4 DEF Places, NextIteration
  <2>2. DOMAIN probe' = Rank
    BY DEF Ghosts
  <2>3. \A r \in Rank : probe'[r].it \in Nat
    BY <1>2 DEF Shapes
  <2> QED
    BY <1>1, <1>2, <2>1, <2>2, <2>3 DEF Shapes
<1>7. InLoops'
  <2>1. \A r \in Rank : frame[r] < NFrames
    BY <1>1 DEF InLoops, Measured
  <2> QED
    BY <1>1, <1>3, <2>1, Sizes DEF InLoops, Measured
<1>8. Counted'
  <2> SUFFICES ASSUME NEW r \in Rank
               PROVE  (/\ Len(timeHist[r]) = Steps(r)
                       /\ probe[r].it = Steps(r)
                       /\ Len(dec[r]) = Acted(r)
                       /\ Len(measured) = Timed(r))'
    BY DEF Counted
  <2>1. /\ Len(timeHist[r]) = Steps(r) /\ probe[r].it = Steps(r)
        /\ Len(dec[r]) = Steps(r) + 1 /\ Len(measured) = Steps(r) + 1
    BY <1>1 DEF Counted, Acted, Timed, Acting, Measured
  <2>2. Acted(r)' = Steps(r)' /\ Timed(r)' = Steps(r)'
    BY <1>3 DEF Acted, Timed, Acting, Measured
  <2>3. Len(timeHist'[r]) = Steps(r) + 1 /\ probe'[r].it = Steps(r) + 1
    BY <1>2, <1>4, <2>1
  <2> QED
    BY <1>1, <1>5, <2>1, <2>2, <2>3
<1>9. Summed'
  <2>1. ASSUME NEW r \in Rank
        PROVE  /\ app'[r] + comp'[r] = SoFar(timeHist'[r])
               /\ i'[r] # 0
    <3>1. app'[r] = app[r] /\ comp'[r] = comp[r] + itTime[r]
      BY <1>1
    <3>2. \A a, c, t \in Nat : a + (c + t) = (a + c) + t
      OBVIOUS
    <3>3. app[r] + (comp[r] + itTime[r]) =
              (app[r] + comp[r]) + itTime[r]
      BY <1>3, <3>2
    <3>4. i'[r] # 0
      BY <1>3
    <3>5. SoFar(timeHist'[r]) = (app[r] + comp[r]) + itTime[r]
      BY <1>3, <1>4
    <3> QED
      BY <3>1, <3>3, <3>4, <3>5
  <2> QED
    BY <2>1 DEF Summed, SoFar
<1>10. Filed'
  BY <1>1, <1>3 DEF Filed
<1>11. NewProbe(0)' = NewProbe(0)
  BY <1>1 DEF NewProbe
<1>12. Costs' /\ Efficiencies'
  BY <1>1, <1>2, <1>3, <1>11 DEF Costs, Efficiencies
<1>13. Flags'
  <2>1. \A r \in Rank : dec[r] # <<>>
    <3> TAKE r \in Rank
    <3>1. Len(dec[r]) = Steps(r) + 1
      BY <1>1 DEF Counted, Acted, Acting
    <3> QED
      BY <1>3, <1>5, <3>1
  <2>2. \A r \in Rank : Last(dec[r]) \in BOOLEAN
    BY <1>3, <2>1 DEF Last
  <2> QED
    BY <1>1, <1>2, <1>3, <2>1, <2>2 DEF Flags
<1>14. Accumulated'
  <2>1. \A r \in Rank : Fresh(r)' = Fresh(r)
    BY <1>1, <1>3 DEF Fresh
  <2> QED
    BY <1>1, <1>2, <2>1 DEF Accumulated
<1>15. PerFrame'
  BY <1>1 DEF PerFrame
<1> QED
  BY <1>6, <1>7, <1>8, <1>9, <1>10, <1>12, <1>13, <1>14, <1>15

LEMMA EndFrameFields ==
    ASSUME Shapes, NEW r \in Rank, EndFrame(r)
    PROVE  /\ DOMAIN probe' = Rank
           /\ DOMAIN probe'[r] = Fields
           /\ probe'[r].it = probe[r].it
           /\ probe'[r].cum = probe[r].cum
           /\ probe'[r].balanced = probe[r].balanced
           /\ probe'[r].lbTimes = probe[r].lbTimes
           /\ probe'[r].effs = probe[r].effs
           /\ SameMeasures(probe[r], probe'[r])
           /\ probe'[r].batch = comp[r]
           /\ \A s \in Rank : s # r => probe'[s] = probe[s]
<1>1. /\ probe' = [probe EXCEPT ![r].batch = comp[r]]
      /\ DOMAIN probe = Rank /\ DOMAIN probe[r] = Fields
  BY DEF EndFrame, Shapes
<1> QED
  BY <1>1 DEF Fields, SameMeasures

LEMMA EndFrameLedger ==
    ASSUME Ledger, NEW r \in Rank, EndFrame(r) PROVE Ledger'
<1> USE DEF Ledger
<1> DEFINE next == IF Record THEN "gather" ELSE NextFrame(frame[r] + 1)
<1>1. /\ pc[r] = "frame" /\ pc' = [pc EXCEPT ![r] = next]
      /\ app' = [app EXCEPT ![r] = @ + comp[r]]
      /\ comp' = [comp EXCEPT ![r] = 0]
      /\ i' = [i EXCEPT ![r] = 0]
      /\ frame' = [frame EXCEPT ![r] = @ + 1]
      /\ UNCHANGED <<policy, lines, script, itTime, timeHist, dec,
                     gathered, measured>>
  BY DEF EndFrame, chosen
<1>2. \A s \in Rank :
          /\ DOMAIN probe'[s] = Fields
          /\ probe'[s].it = probe[s].it
          /\ probe'[s].cum = probe[s].cum
          /\ probe'[s].balanced = probe[s].balanced
          /\ probe'[s].lbTimes = probe[s].lbTimes
          /\ probe'[s].effs = probe[s].effs
  <2>1. ASSUME NEW s \in Rank, s # r
        PROVE  probe'[s] = probe[s] /\ DOMAIN probe[s] = Fields
    BY <2>1, EndFrameFields DEF Shapes
  <2> QED
    BY <2>1, EndFrameFields
<1>3. /\ frame[r] \in Nat /\ frame[r] < NFrames /\ i[r] = NPFrame
      /\ next = IF Record THEN "gather"
                ELSE IF frame[r] + 1 < NFrames THEN "compute" ELSE "stats"
  BY <1>1 DEF Shapes, InLoops, NextFrame
<1> HIDE DEF next
<1>4. /\ pc'[r] = next /\ frame'[r] = frame[r] + 1 /\ i'[r] = 0
      /\ comp'[r] = 0 /\ app'[r] = app[r] + comp[r]
      /\ \A s \in Rank : s # r =>
            /\ pc'[s] = pc[s] /\ frame'[s] = frame[s] /\ i'[s] = i[s]
            /\ comp'[s] = comp[s] /\ app'[s] = app[s]
  BY <1>1 DEF Shapes
<1>5. Shapes'
  <2>1. /\ pc' \in [Rank -> Places] /\ frame' \in [Rank -> Nat]
        /\ i' \in [Rank -> Nat] /\ comp' \in [Rank -> Nat]
    BY <1>1, <1>3 DEF Shapes, Places
  <2>2. app' \in [Rank -> Nat]
    <3>1. app[r] + comp[r] \in Nat
      BY DEF Shapes
    <3> QED
      BY <1>1, <3>1 DEF Shapes
  <2>3. DOMAIN probe' = Rank
    BY EndFrameFields
  <2> QED
    BY <1>1, <1>2, <2>1, <2>2, <2>3 DEF Shapes
<1>6. InLoops'
  <2>1. \A s \in Rank : s # r => (/\ pc'[s] = pc[s] /\ frame'[s] = frame[s]
                                  /\ i'[s] = i[s])
    BY <1>4
  <2>2. /\ next \in {"gather", "compute", "stats"}
        /\ next = "gather" => Record
        /\ next = "compute" => frame[r] + 1 < NFrames
        /\ next = "stats" => frame[r] + 1 = NFrames
        /\ frame[r] + 1 <= NFrames /\ 0 < NPFrame
    BY <1>3, Sizes
  <2> QED
    BY <1>4, <2>1, <2>2 DEF InLoops, Measured
<1>7. \A s \in Rank : Steps(s)' = Steps(s)
  <2> TAKE s \in Rank
  <2>1. CASE s # r
    BY <1>4, <2>1 DEF Steps
  <2>2. CASE s = r
    <3>1. (frame[r] + 1) * NPFrame = frame[r] * NPFrame + NPFrame
      BY <1>3, Sizes, Products
    <3>2. frame[r] * NPFrame \in Nat
      BY StepsNat
    <3> DEFINE x == (frame[r] + 1) * NPFrame
               y == frame[r] * NPFrame
    <3>3. Steps(r)' = x + 0 /\ Steps(r) = y + NPFrame
      BY <1>3, <1>4 DEF Steps
    <3>4. x = y + NPFrame /\ y \in Nat
      BY <3>1, <3>2
    <3> HIDE DEF x, y
    <3> QED
      BY <2>2, <3>3, <3>4, Sizes
  <2> QED
    BY <2>1, <2>2
<1>8. Counted'
  <2>1. \A s \in Rank : Acted(s)' = Acted(s) /\ Timed(s)' = Timed(s)
    BY <1>1, <1>3, <1>4, <1>7 DEF Acted, Timed, Acting, Measured
  <2> QED
    BY <1>1, <1>2, <1>7, <2>1 DEF Counted
<1>9. Summed'
  <2>1. ASSUME NEW s \in Rank
        PROVE  /\ app'[s] + comp'[s] = SoFar(timeHist[s])
               /\ i'[s] = 0 => comp'[s] = 0
    <3>1. CASE s # r
      BY <1>4, <3>1 DEF Summed
    <3>2. CASE s = r
      <4>1. app[r] \in Nat /\ comp[r] \in Nat
            /\ app[r] + comp[r] = SoFar(timeHist[r])
        BY DEF Shapes, Summed
      <4> QED
        BY <1>4, <3>2, <4>1
    <3> QED
      BY <3>1, <3>2
  <2> QED
    BY <1>1, <2>1 DEF Summed, SoFar
<1>10. Filed'
  BY <1>1, <1>3, <1>4 DEF Filed
<1>11. NewProbe(0)' = NewProbe(0)
  BY <1>1 DEF NewProbe
<1>12. next \in {"gather", "compute", "stats"}
  BY <1>3
<1>13. Costs' /\ Efficiencies'
  <2>1. \A s \in Rank : pc'[s] = "lb" <=> pc[s] = "lb"
    BY <1>1, <1>4, <1>12
  <2>2. Costs'
    BY <1>1, <1>2, <1>11, <2>1 DEF Costs
  <2>3. Efficiencies'
    BY <1>1, <1>2, <1>11 DEF Efficiencies
  <2> QED
    BY <2>2, <2>3
<1>14. Flags'
  BY <1>1, <1>2, <1>4, <1>12 DEF Flags, Acting
<1>15. Accumulated'
  <2>1. \A s \in Rank : Fresh(s)' = Fresh(s)
    BY <1>1, <1>4, <1>12 DEF Fresh
  <2> QED
    BY <1>1, <1>2, <2>1 DEF Accumulated
<1>16. PerFrame'
  BY <1>1 DEF PerFrame
<1> QED
  BY <1>5, <1>6, <1>8, <1>9, <1>10, <1>13, <1>14, <1>15, <1>16

LEMMA SameLedger == ASSUME Ledger, UNCHANGED vars PROVE Ledger'
<1> USE DEF Ledger, vars
<1>1. Shapes' /\ InLoops' /\ Summed' /\ Filed' /\ PerFrame'
  BY DEF Shapes, InLoops, Summed, Filed, PerFrame
<1>2. Counted'
  BY DEF Counted, Steps, Acted, Timed
<1>3. Costs' /\ Efficiencies' /\ Flags'
  BY DEF Costs, Efficiencies, Flags, NewProbe
<1>4. Accumulated'
  BY DEF Accumulated, Fresh
<1> QED
  BY <1>1, <1>2, <1>3, <1>4

LEMMA LedgerKept == ASSUME Ledger, [Next]_vars PROVE Ledger'
<1>1. ASSUME NEW r \in Rank, Compute(r) \/ Decide(r) \/ EndFrame(r)
      PROVE  Ledger'
  BY <1>1, ComputeLedger, DecideLedger, EndFrameLedger
<1>2. CASE FirstGhosts \/ Allreduce \/ LoadBalance
  BY <1>2, FirstGhostsLedger, AllreduceLedger, LoadBalanceLedger
<1>3. CASE Migrate \/ Ghosts \/ Gather \/ Statistics
  BY <1>3, MigrateLedger, GhostsLedger, GatherLedger, StatisticsLedger
<1>4. CASE UNCHANGED vars
  BY <1>4, SameLedger
<1> QED
  BY <1>1, <1>2, <1>3, <1>4 DEF Next, Finished

(* Whatever the ranks decide, the imbalance that each of them sees is that *)
(* of the iterations since the last load balancing.                        *)
THEOREM ImbalanceKept == Spec => []ImbalanceSinceLB
<1>1. Ledger => ImbalanceSinceLB
  BY DEF Ledger, Accumulated, Fresh, ImbalanceSinceLB
<1> QED
  BY <1>1, InitLedger, LedgerKept, PTL DEF Spec

(* Whatever the ranks decide, the costs and efficiencies that each of them *)
(* averages are one per load balancing.                                    *)
THEOREM OneSamplePerLB == Spec => []SamplesPerLB
<1>1. Ledger => SamplesPerLB
  <2> SUFFICES ASSUME Ledger, NEW r \in Rank, pc[r] = "decide"
               PROVE  LET before ==
                            Cardinality(Balancings(dec[r], Len(measured)))
                      IN /\ Len(probe[r].lbTimes) =
                              Len(NewProbe(0).lbTimes) + before
                         /\ Len(probe[r].effs) =
                              Len(NewProbe(0).effs) + 1 + before
    BY DEF SamplesPerLB
  <2>1. Len(dec[r]) = Steps(r) /\ Len(measured) = Steps(r) + 1
        /\ Steps(r) \in Nat
    BY StepsNat DEF Ledger, Counted, Acted, Timed, Acting, Measured
  <2> DEFINE before == Cardinality(Balancings(dec[r], Len(measured)))
  <2>2. before \in Nat
    BY <2>1, BalancingsAre DEF Ledger, Shapes
  <2>3. Len(probe[r].lbTimes) + 0 = Len(NewProbe(0).lbTimes) + before
    BY <2>1 DEF Ledger, Costs
  <2>4. Len(probe[r].effs) = Len(NewProbe(0).effs) + (1 + before)
    <3>1. measured # <<>>
      BY <2>1
    <3> QED
      BY <3>1 DEF Ledger, Efficiencies
  <2>5. /\ Len(NewProbe(0).lbTimes) \in Nat /\ Len(NewProbe(0).effs) \in Nat
        /\ Len(probe[r].lbTimes) \in Nat
    BY NewProbes DEF Ledger, Shapes
  <2> HIDE DEF before
  <2> QED
    BY <2>2, <2>3, <2>4, <2>5, SMTT(30) DEF before
<1> QED
  BY <1>1, InitLedger, LedgerKept, PTL DEF Spec

-----------------------------------------------------------------------------
(***************************************************************************)
(* The ranks stay in step.                                                 *)
(***************************************************************************)
LEMMA InitInStep == ASSUME Init PROVE InStep
<1>1. PICK g \in [Rank -> Garbage] : probe = [r \in Rank |-> NewProbe(g[r])]
  BY DEF Init
<1>2. SameProbes
  BY <1>1 DEF SameProbes, SameMeasures, NewProbe
<1>3. SameCounters
  BY DEF Init, SameCounters, FrameOf, IterationOf, CompOf
<1>4. SameTimes /\ Together /\ SameDecision
  BY DEF Init, SameTimes, Together, SameDecision, Reduction
<1>5. SameHist /\ SamePast
  BY DEF Init, SameHist, SamePast
<1> QED
  BY <1>2, <1>3, <1>4, <1>5 DEF InStep

LEMMA ComputeInStep ==
    ASSUME Shapes, InStep, NEW r \in Rank, Compute(r) PROVE InStep'
<1> USE DEF InStep
<1>1. PICK t \in Times : itTime' = [itTime EXCEPT ![r] = t]
  BY DEF Compute
<1>2. /\ pc[r] = "compute" /\ pc' = [pc EXCEPT ![r] = "reduce"]
      /\ UNCHANGED <<policy, frame, i, probe, comp, dec, timeHist>>
  BY DEF Compute, chosen
<1>3. SameProbes' /\ SameHist' /\ SamePast'
  BY <1>2 DEF SameProbes, SameMeasures, SameHist, SamePast
<1>0. \A s \in Rank :
          IF s = r THEN pc'[s] = "reduce" ELSE pc'[s] = pc[s]
  BY <1>2 DEF Shapes
<1>4. SameCounters'
  <2>1. \A s \in Rank : pc'[s] = "frame" <=> pc[s] = "frame"
    BY <1>0, <1>2
  <2> QED
    BY <1>2, <2>1 DEF SameCounters, FrameOf, IterationOf, CompOf
<1>5. SameTimes'
  BY <1>1, <1>2 DEF SameTimes, Reduction, Shapes
<1>6. Together'
  <2> SUFFICES ASSUME NEW p \in Rank, NEW q \in Rank
               PROVE  (\/ pc[p] = pc[q]
                       \/ {pc[p], pc[q]} \subseteq {"compute", "reduce"}
                       \/ {pc[p], pc[q]} \subseteq {"decide", "lb", "migrate"}
                       \/ pc[p] = "frame" /\ pc[q] \in Beyond(frame[q])
                       \/ pc[q] = "frame" /\ pc[p] \in Beyond(frame[p]))'
    BY DEF Together
  <2>1. CASE p # r /\ q # r
    BY <1>0, <1>2, <2>1 DEF Together, Beyond
  <2>2. CASE p = r
    <3>1. \/ pc'[q] \in {"compute", "reduce"}
          \/ pc'[q] = "frame" /\ "compute" \in Beyond(frame[r])
      BY <1>0, <1>2, <2>2 DEF Together, Beyond
    <3> QED
      BY <1>0, <1>2, <2>2, <3>1 DEF Beyond
  <2>3. CASE q = r
    <3>1. \/ pc'[p] \in {"compute", "reduce"}
          \/ pc'[p] = "frame" /\ "compute" \in Beyond(frame[r])
      BY <1>0, <1>2, <2>3 DEF Together, Beyond
    <3> QED
      BY <1>0, <1>2, <2>3, <3>1 DEF Beyond
  <2> QED
    BY <2>1, <2>2, <2>3
<1>7. SameDecision'
  BY <1>2 DEF SameDecision, Shapes
<1> QED
  BY <1>3, <1>4, <1>5, <1>6, <1>7

LEMMA DecideInStep ==
    ASSUME Ledger, InStep, NEW r \in Rank, Decide(r)
    PROVE  InStep'
<1> USE DEF InStep
<1>1. PICK d \in Decisions(r) :
          /\ dec' = [dec EXCEPT ![r] = Append(@, d)]
          /\ pc' = [pc EXCEPT ![r] = IF d THEN "lb" ELSE "migrate"]
  BY DEF Decide
<1>2. d \in BOOLEAN /\ Shapes
  BY DecisionIs DEF Ledger
<1>3. /\ pc[r] = "decide"
      /\ UNCHANGED <<policy, frame, i, probe, comp, itTime, timeHist>>
  BY DEF Decide, chosen
<1>4. /\ pc'[r] \in {"lb", "migrate"} /\ dec'[r] = Append(dec[r], d)
      /\ \A s \in Rank : s # r => dec'[s] = dec[s] /\ pc'[s] = pc[s]
  BY <1>1, <1>2 DEF Shapes
<1>5. SameProbes' /\ SameHist'
  BY <1>3 DEF SameProbes, SameMeasures, SameHist
<1>6. SameCounters'
  BY <1>3, <1>4 DEF SameCounters, FrameOf, IterationOf, CompOf
<1>7. SameTimes'
  BY <1>3, <1>4 DEF SameTimes, Reduction
<1>8. Together'
  BY <1>3, <1>4 DEF Together, Beyond
<1>9. SameDecision'
  BY <1>3, <1>4 DEF SameDecision
<1>10. SamePast'
  <2>1. Len(timeHist[r]) = Len(dec[r]) /\ dec[r] \in Seq(BOOLEAN)
    BY <1>3 DEF Ledger, Counted, Shapes, Acted, Acting
  <2>2. \A k \in 1..Len(timeHist[r]) : dec'[r][k] = dec[r][k]
    BY <1>2, <1>4, <2>1
  <2>3. \A s \in Rank : Len(timeHist[s]) = Len(timeHist[r])
    BY DEF SameHist
  <2>4. \A s \in Rank, k \in 1..Len(timeHist[r]) : dec'[s][k] = dec[s][k]
    BY <1>4, <2>2
  <2> QED
    BY <1>3, <2>3, <2>4 DEF SamePast
<1> QED
  BY <1>5, <1>6, <1>7, <1>8, <1>9, <1>10

LEMMA EndFrameInStep ==
    ASSUME Shapes, InStep, NEW r \in Rank, EndFrame(r) PROVE InStep'
<1> DEFINE next == IF Record THEN "gather" ELSE NextFrame(frame[r] + 1)
<1> USE DEF InStep
<1>1. /\ pc[r] = "frame" /\ pc' = [pc EXCEPT ![r] = next]
      /\ UNCHANGED <<policy, itTime, dec, timeHist>>
      /\ comp' = [comp EXCEPT ![r] = 0]
      /\ i' = [i EXCEPT ![r] = 0]
      /\ frame' = [frame EXCEPT ![r] = @ + 1]
  BY DEF EndFrame, chosen
<1>2. next \in {"gather", "compute", "stats"} /\ next \in Beyond(frame[r] + 1)
  BY DEF NextFrame, Beyond
<1>3. \A s \in Rank \ {r} :
          /\ pc'[s] = pc[s] /\ probe'[s] = probe[s] /\ comp'[s] = comp[s]
          /\ i'[s] = i[s] /\ frame'[s] = frame[s]
  <2> TAKE s \in Rank \ {r}
  <2>1. pc'[s] = pc[s] /\ comp'[s] = comp[s] /\ i'[s] = i[s]
    BY <1>1 DEF Shapes
  <2>2. frame'[s] = frame[s]
    BY <1>1 DEF Shapes
  <2>3. probe'[s] = probe[s]
    BY EndFrameFields
  <2> QED
    BY <2>1, <2>2, <2>3
<1>4. /\ pc'[r] = next /\ comp'[r] = 0 /\ i'[r] = 0
      /\ frame'[r] = frame[r] + 1
      /\ SameMeasures(probe[r], probe'[r])
  BY <1>1, EndFrameFields DEF Shapes
<1> HIDE DEF next
<1>5. SameProbes'
  BY <1>3, <1>4 DEF SameProbes, SameMeasures
<1>6. SameCounters'
  BY <1>1, <1>2, <1>3, <1>4 DEF SameCounters, FrameOf, IterationOf, CompOf
<1>7. SameTimes' /\ SameHist' /\ SamePast'
  BY <1>1, <1>2, <1>3, <1>4 DEF SameTimes, SameHist, SamePast, Reduction
<1>8. Together'
  <2> SUFFICES ASSUME NEW s \in Rank \ {r}
               PROVE  (\/ pc[r] = pc[s]
                       \/ {pc[r], pc[s]} \subseteq {"compute", "reduce"}
                       \/ pc[s] = "frame" /\ pc[r] \in Beyond(frame[r]))'
    BY <1>2, <1>3, <1>4 DEF Together, Beyond
  <2>1. CASE pc[s] = "frame"
    BY <1>2, <1>3, <1>4, <2>1 DEF Beyond
  <2>2. CASE pc[s] # "frame"
    <3>1. pc[s] \in Beyond(frame[s])
      BY <1>1, <2>2 DEF Together, Beyond
    <3>2. frame[s] = frame[r] + 1
      BY <1>1, <2>2 DEF SameCounters, FrameOf
    <3> QED
      BY <1>2, <1>3, <1>4, <3>1, <3>2 DEF Beyond
  <2> QED
    BY <2>1, <2>2
<1>9. SameDecision'
  BY <1>1, <1>2, <1>3, <1>4 DEF SameDecision
<1> QED
  BY <1>5, <1>6, <1>7, <1>8, <1>9

(* All go on to one place and nothing else changes.                        *)
LEMMA MoveInStep ==
    ASSUME InStep, NEW to \in Places \ Reduction,
           pc' = [r \in Rank |-> to], \A r \in Rank : pc[r] # "frame",
           UNCHANGED <<policy, frame, i, itTime, probe, comp, dec, timeHist>>
    PROVE  InStep'
<1> USE DEF InStep
<1>1. SameProbes' /\ SameHist' /\ SamePast'
  BY DEF SameProbes, SameMeasures, SameHist, SamePast
<1>2. SameCounters'
  BY DEF SameCounters, FrameOf, IterationOf, CompOf, Reduction
<1>3. SameTimes' /\ Together'
  BY DEF SameTimes, Together, Reduction
<1>4. SameDecision'
  BY DEF SameDecision, Reduction
<1> QED
  BY <1>1, <1>2, <1>3, <1>4

LEMMA FirstGhostsInStep == ASSUME InStep, FirstGhosts PROVE InStep'
<1>1. NextFrame(0) \in {"compute", "stats"}
  BY DEF NextFrame
<1> QED
  BY <1>1, MoveInStep DEF FirstGhosts, AllAt, Places, Reduction, chosen

LEMMA StatisticsInStep == ASSUME InStep, Statistics PROVE InStep'
BY MoveInStep DEF Statistics, AllAt, Places, Reduction, chosen

LEMMA GatherInStep == ASSUME InStep, Gather PROVE InStep'
<1>1. CASE gathered = <<>>
  BY <1>1, MoveInStep DEF Gather, AllAt, Places, Reduction, chosen
<1>2. CASE gathered # <<>>
  <2>1. \A r \in Rank : frame[r] = frame[0]
    BY Sizes DEF Gather, AllAt, InStep, SameCounters, FrameOf
  <2>2. NextFrame(frame[0]) \in {"compute", "stats"}
    BY DEF NextFrame
  <2>3. pc' = [r \in Rank |-> NextFrame(frame[0])]
    BY <1>2, <2>1 DEF Gather
  <2> QED
    BY <2>2, <2>3, MoveInStep DEF Gather, AllAt, Places, Reduction, chosen
<1> QED
  BY <1>1, <1>2

LEMMA AllreduceInStep == ASSUME Shapes, InStep, Allreduce PROVE InStep'
<1> USE DEF InStep
<1>1. /\ \A r \in Rank : pc[r] = "reduce"
      /\ pc' = [r \in Rank |-> "decide"]
      /\ itTime' = [r \in Rank |-> MaxOf(itTime)]
      /\ UNCHANGED <<policy, frame, i, comp, dec, timeHist>>
  BY DEF Allreduce, AllAt, chosen
<1>2. SameProbes'
  BY ReducedFields DEF SameProbes, SameMeasures
<1>3. SameCounters'
  BY <1>1 DEF SameCounters, FrameOf, IterationOf, CompOf
<1>4. SameTimes' /\ Together' /\ SameDecision' /\ SameHist' /\ SamePast'
  BY <1>1 DEF SameTimes, Together, SameDecision, SameHist, SamePast
<1> QED
  BY <1>2, <1>3, <1>4

LEMMA LoadBalanceInStep == ASSUME Ledger, InStep, LoadBalance PROVE InStep'
<1> USE DEF InStep
<1>1. PICK t \in LBTimes :
          /\ itTime' = [r \in Rank |-> itTime[r] + t]
          /\ \A r \in Rank :
              /\ probe'[r].it = probe[r].it
              /\ probe'[r].max = probe[r].max
              /\ probe'[r].min = probe[r].min
              /\ probe'[r].sum = probe[r].sum
              /\ probe'[r].cum = 0
              /\ probe'[r].balanced = probe[r].balanced
              /\ probe'[r].lbTimes = Append(probe[r].lbTimes, t)
              /\ probe'[r].effs = probe[r].effs
  BY BalancedFields DEF Ledger
<1>2. /\ \A r \in Rank : pc[r] = "lb"
      /\ pc' = [r \in Rank |-> "ghosts"]
      /\ UNCHANGED <<policy, frame, i, comp, dec, timeHist>>
  BY DEF LoadBalance, AllAt, chosen
<1>3. SameProbes'
  <2> SUFFICES ASSUME NEW r \in Rank, NEW s \in Rank
               PROVE  SameMeasures(probe[r], probe[s])'
    BY DEF SameProbes
  <2>1. SameMeasures(probe[r], probe[s])
    BY DEF SameProbes
  <2> QED
    BY <1>1, <2>1 DEF SameMeasures
<1>4. SameCounters'
  BY <1>2 DEF SameCounters, FrameOf, IterationOf, CompOf
<1>5. SameTimes'
  BY <1>1, <1>2 DEF SameTimes, Reduction
<1>6. Together' /\ SameHist' /\ SamePast'
  BY <1>2 DEF Together, SameHist, SamePast
<1>7. SameDecision'
  BY <1>2 DEF SameDecision, Ledger, Flags
<1> QED
  BY <1>3, <1>4, <1>5, <1>6, <1>7

LEMMA MigrateInStep == ASSUME Ledger, InStep, Migrate PROVE InStep'
<1> USE DEF InStep
<1>1. /\ \A r \in Rank : pc[r] = "migrate"
      /\ pc' = [r \in Rank |-> "ghosts"]
      /\ UNCHANGED <<policy, frame, i, itTime, probe, comp, dec, timeHist>>
  BY DEF Migrate, AllAt, chosen
<1>2. SameProbes' /\ SameHist' /\ SamePast'
  BY <1>1 DEF SameProbes, SameMeasures, SameHist, SamePast
<1>3. SameCounters'
  BY <1>1 DEF SameCounters, FrameOf, IterationOf, CompOf
<1>4. SameTimes' /\ Together'
  BY <1>1 DEF SameTimes, Together, Reduction
<1>5. SameDecision'
  BY <1>1 DEF SameDecision, Ledger, Flags
<1> QED
  BY <1>2, <1>3, <1>4, <1>5

LEMMA GhostsInStep == ASSUME Ledger, InStep, Ghosts PROVE InStep'
<1> USE DEF InStep
<1>1. /\ \A r \in Rank : pc[r] = "ghosts"
      /\ timeHist' = [r \in Rank |->
                        Append(timeHist[r], SoFar(timeHist[r]) + itTime[r])]
      /\ pc' = [r \in Rank |-> NextIteration(i[r] + 1)]
      /\ comp' = [r \in Rank |-> comp[r] + itTime[r]]
      /\ i' = [r \in Rank |-> i[r] + 1]
      /\ UNCHANGED <<policy, frame, itTime, dec>>
  BY DEF Ghosts, AllAt, chosen
<1>2. \A r, s \in Rank :
          /\ i[r] = i[s] /\ frame[r] = frame[s] /\ comp[r] = comp[s]
          /\ itTime[r] = itTime[s] /\ Last(dec[r]) = Last(dec[s])
  BY <1>1 DEF SameCounters, FrameOf, IterationOf, CompOf, SameTimes,
              Reduction, SameDecision
<1>3. \A r, s \in Rank : pc'[r] \in {"compute", "frame"} /\ pc'[r] = pc'[s]
  BY <1>1, <1>2 DEF NextIteration
<1>4. SameProbes'
  BY <1>2, IteratedFields DEF Ledger, SameProbes, SameMeasures
<1>5. SameCounters'
  BY <1>1, <1>2, <1>3 DEF SameCounters, FrameOf, IterationOf, CompOf
<1>6. SameTimes' /\ Together'
  BY <1>1, <1>2, <1>3 DEF SameTimes, Together
<1>7. SameHist'
  BY <1>1, <1>2 DEF SameHist
<1>8. SameDecision'
  BY <1>3 DEF SameDecision
<1>9. SamePast'
  <2> SUFFICES ASSUME NEW r \in Rank, NEW s \in Rank,
                      NEW k \in 1..Len(timeHist'[r])
               PROVE  dec[r][k] = dec[s][k]
    BY <1>1 DEF SamePast
  <2>1. \A q \in Rank :
            /\ Len(timeHist'[q]) = Len(timeHist[q]) + 1
            /\ Len(timeHist[q]) \in Nat
            /\ Len(dec[q]) = Len(timeHist[q]) + 1
            /\ dec[q] \in Seq(BOOLEAN)
    <3> TAKE q \in Rank
    <3>1. timeHist[q] \in Seq(Nat) /\ SoFar(timeHist[q]) + itTime[q] \in Nat
      <4>1. timeHist[q] \in Seq(Nat) /\ itTime[q] \in Nat
        BY DEF Ledger, Shapes
      <4>2. SoFar(timeHist[q]) \in Nat
        <5>1. app[q] + comp[q] \in Nat
          <6>1. app[q] \in Nat /\ comp[q] \in Nat
            BY DEF Ledger, Shapes
          <6> QED
            BY <6>1
        <5> QED
          BY <5>1 DEF Ledger, Summed
      <4> QED
        BY <4>1, <4>2
    <3>2. Len(timeHist'[q]) = Len(timeHist[q]) + 1
      BY <1>1, <3>1, AppendIs
    <3>3. Len(dec[q]) = Len(timeHist[q]) + 1
      BY <1>1 DEF Ledger, Counted, Acted, Acting
    <3>4. dec[q] \in Seq(BOOLEAN)
      BY DEF Ledger, Shapes
    <3> QED
      BY <3>1, <3>2, <3>3, <3>4
  <2>2. CASE k \in 1..Len(timeHist[r])
    BY <2>2 DEF SamePast
  <2>3. CASE k = Len(timeHist[r]) + 1
    <3>1. k = Len(dec[r]) /\ k = Len(dec[s])
      BY <2>1, <2>3 DEF SameHist
    <3>2. Last(dec[r]) = dec[r][k] /\ Last(dec[s]) = dec[s][k]
      BY <2>1, <3>1 DEF Last
    <3> QED
      BY <1>2, <3>2
  <2> QED
    BY <2>1, <2>2, <2>3
<1> QED
  BY <1>4, <1>5, <1>6, <1>7, <1>8, <1>9

LEMMA InStepKept == ASSUME Ledger, InStep, [Next]_vars PROVE InStep'
<1>0. Shapes
  BY DEF Ledger
<1>1. ASSUME NEW r \in Rank, Compute(r) \/ Decide(r) \/ EndFrame(r)
      PROVE  InStep'
  BY <1>0, <1>1, ComputeInStep, DecideInStep, EndFrameInStep
<1>2. CASE FirstGhosts \/ Allreduce \/ LoadBalance
  BY <1>0, <1>2, FirstGhostsInStep, AllreduceInStep, LoadBalanceInStep
<1>3. CASE Migrate \/ Ghosts \/ Gather \/ Statistics
  BY <1>3, MigrateInStep, GhostsInStep, GatherInStep, StatisticsInStep
<1>4. CASE UNCHANGED vars
  <2> USE <1>4 DEF vars
  <2>1. (SameProbes /\ SameCounters /\ SameHist /\ SamePast)'
    BY DEF InStep, SameProbes, SameMeasures, SameCounters,
           FrameOf, IterationOf, CompOf, SameHist, SamePast
  <2>2. (SameTimes /\ Together /\ SameDecision)'
    BY DEF InStep, SameTimes, Together, SameDecision
  <2> QED
    BY <2>1, <2>2 DEF InStep
<1> QED
  BY <1>1, <1>2, <1>3, <1>4 DEF Next, Finished

(* Whatever the ranks decide, those that come to the end have kept one     *)
(* history of all iterations, and with --record every frame is gathered.   *)
THEOREM CompleteHistories == Spec => []HistoriesComplete
<1>1. ASSUME Ledger, InStep PROVE HistoriesComplete
  <2> USE <1>1 DEF Ledger, InStep
  <2>1. ASSUME NEW r \in Rank, NEW s \in Rank, pc[r] = "done"
        PROVE  /\ Len(timeHist[r]) = NFrames * NPFrame
               /\ app[r] = SoFar(timeHist[r])
               /\ timeHist[r] = timeHist[s]
               /\ dec[r] = dec[s]
    <3>1. frame[r] = NFrames /\ i[r] = 0 /\ pc[s] = "done"
      BY <2>1 DEF InLoops, Together, Beyond
    <3>2. Steps(r) = NFrames * NPFrame
      <4>1. NFrames * NPFrame \in Nat /\ Steps(r) = NFrames * NPFrame + 0
        BY <3>1, StepsNat DEF Steps
      <4> DEFINE x == NFrames * NPFrame
      <4> HIDE DEF x
      <4>2. x \in Nat /\ Steps(r) = x + 0
        BY <4>1 DEF x
      <4>3. Steps(r) = x
        BY <4>2
      <4> QED
        BY <4>3 DEF x
    <3>3. app[r] = SoFar(timeHist[r])
      <4>1. comp[r] = 0 /\ app[r] \in Nat
        BY <3>1 DEF Summed, Shapes
      <4>2. app[r] + comp[r] = SoFar(timeHist[r])
        BY DEF Summed
      <4> QED
        BY <4>1, <4>2
    <3>4. timeHist[r] = timeHist[s]
      BY DEF SameHist
    <3>5. \A q \in {r, s} : /\ Len(dec[q]) = Len(timeHist[r])
                            /\ dec[q] \in Seq(BOOLEAN)
      BY <2>1, <3>1, <3>4 DEF Counted, Acted, Acting, Shapes
    <3>6. \A k \in 1..Len(timeHist[r]) : dec[r][k] = dec[s][k]
      BY DEF SamePast
    <3>7. dec[r] = dec[s]
      BY <3>5, <3>6
    <3> QED
      BY <3>2, <3>3, <3>4, <3>7 DEF Counted
  <2>2. \A r \in Rank : pc[r] = "frame" => app[r] + comp[r] = SoFar(timeHist[r])
    BY DEF Summed
  <2>3. ASSUME AllAt("done"), Record
        PROVE  gathered = [k \in 1..(NFrames + 1) |-> k - 1]
    <3>1. /\ gathered \in Seq(Nat)
          /\ \A k \in 1..Len(gathered) : gathered[k] = k - 1
          /\ Len(gathered) = frame[0] + 1
      BY <2>3, Sizes DEF Filed, AllAt
    <3>2. frame[0] = NFrames
      BY <2>3, Sizes DEF InLoops, AllAt
    <3> QED
      BY <3>1, <3>2
  <2> QED
    BY <2>1, <2>2, <2>3 DEF HistoriesComplete
<1> QED
  BY <1>1, InitLedger, LedgerKept, InitInStep, InStepKept, PTL DEF Spec

-----------------------------------------------------------------------------
(***************************************************************************)
(* The decisions of a rank come from its Probe, its draws or its file.     *)
(***************************************************************************)
LEMMA AfterTail ==
    ASSUME NEW all \in Seq(BOOLEAN), NEW n \in Nat, n < Len(all)
    PROVE  /\ After(n, all) # <<>>
           /\ Head(After(n, all)) = all[n + 1]
           /\ Tail(After(n, all)) = After(n + 1, all)
<1> DEFINE m == Len(all) - n
           rest == [k \in 1..m |-> all[n + k]]
<1>1. m \in Nat /\ m >= 1 /\ Len(all) - (n + 1) = m - 1
  OBVIOUS
<1>2. After(n, all) = rest
  BY DEF After
<1>3. \A k \in 1..m : n + k \in 1..Len(all)
  OBVIOUS
<1>4. \A k \in 1..m : all[n + k] \in BOOLEAN
  BY <1>3
<1> HIDE DEF m
<1>5. rest \in Seq(BOOLEAN) /\ Len(rest) = m /\ rest # <<>>
  BY <1>1, <1>4
<1>6. Head(rest) = all[n + 1]
  BY <1>1, <1>5
<1>7. Tail(rest) = [k \in 1..(m - 1) |-> rest[k + 1]]
  <2> HIDE DEF rest
  <2>1. Tail(rest) \in Seq(BOOLEAN) /\ Len(Tail(rest)) = m - 1
    BY <1>1, <1>5
  <2>2. \A k \in 1..(m - 1) : Tail(rest)[k] = rest[k + 1]
    BY <1>1, <1>5
  <2>3. Tail(rest) = [k \in 1..(m - 1) |-> Tail(rest)[k]]
    <3> DEFINE t == Tail(rest)
    <3>1. t \in Seq(BOOLEAN) /\ Len(t) = m - 1
      BY <2>1
    <3> HIDE DEF t
    <3>2. t = [k \in 1..Len(t) |-> t[k]]
      BY <3>1
    <3> QED
      BY <3>1, <3>2 DEF t
  <2> QED
    BY <2>2, <2>3
<1>8. \A k \in 1..(m - 1) : rest[k + 1] = all[(n + 1) + k]
  BY <1>1
<1> HIDE DEF rest
<1>9. Tail(rest) = [k \in 1..(m - 1) |-> all[(n + 1) + k]]
  BY <1>7, <1>8
<1>10. After(n + 1, all) = [k \in 1..(m - 1) |-> all[(n + 1) + k]]
  BY <1>1 DEF After
<1> QED
  BY <1>2, <1>5, <1>6, <1>9, <1>10

(* The first iteration of a frame starts a batch.                          *)
LEMMA NewBatch ==
    ASSUME Shapes, InLoops, NEW r \in Rank, pc[r] = "decide"
    PROVE  /\ Steps(r) \div NPFrame = frame[r]
           /\ Steps(r) % NPFrame = 0 <=> i[r] = 0
           /\ Steps(r) + 1 <= NFrames * NPFrame
           /\ NFrames * NPFrame \in Nat
<1>1. /\ frame[r] \in Nat /\ frame[r] < NFrames /\ NFrames \in Nat
      /\ i[r] \in Nat /\ i[r] < NPFrame /\ i[r] \in 0..(NPFrame - 1)
  BY Sizes, SMTT(30) DEF Shapes, InLoops, Measured
<1>2. /\ Steps(r) \div NPFrame = frame[r] /\ Steps(r) % NPFrame = i[r]
  BY <1>1, Sizes, Division DEF Steps
<1>3. /\ frame[r] * NPFrame + NPFrame <= NFrames * NPFrame
      /\ NFrames * NPFrame \in Int
  <2> DEFINE f == frame[r]
  <2>1. f \in Int /\ NFrames \in Int /\ f < NFrames
    BY <1>1
  <2> HIDE DEF f
  <2>2. /\ f * NPFrame + NPFrame <= NFrames * NPFrame
        /\ NFrames * NPFrame \in Int
    BY <2>1, Sizes, Products
  <2> QED
    BY <2>2 DEF f
<1> DEFINE x == frame[r] * NPFrame
           y == NFrames * NPFrame
<1>4. /\ x \in Nat /\ y \in Int /\ x + NPFrame <= y /\ Steps(r) = x + i[r]
  BY <1>3, StepsNat DEF Steps
<1> HIDE DEF x, y
<1>5. Steps(r) + 1 <= y /\ y \in Nat
  BY <1>1, <1>4, Sizes
<1> QED
  BY <1>2, <1>5 DEF y

(* Only a decision appends to dec and takes from the store.                *)
LEMMA OnlyDecide ==
    ASSUME [Next]_vars, \A r \in Rank : ~Decide(r)
    PROVE  UNCHANGED <<policy, lines, script, dec>>
BY DEF Next, vars, chosen, Compute, EndFrame, FirstGhosts, Allreduce,
       LoadBalance, Migrate, Ghosts, Gather, Statistics, Finished

LEMMA DecidesAt ==
    ASSUME Ledger, NEW r \in Rank, Decide(r)
    PROVE  \E d \in Decisions(r) :
              /\ d \in BOOLEAN
              /\ pc[r] = "decide"
              /\ pc'[r] = IF d THEN "lb" ELSE "migrate"
              /\ dec[r] \in Seq(BOOLEAN) /\ Len(dec[r]) = Steps(r)
              /\ Steps(r) \in Nat
              /\ dec'[r] = Append(dec[r], d)
              /\ DOMAIN dec'[r] = 1..(Len(dec[r]) + 1)
              /\ \A k \in 1..Len(dec[r]) : dec'[r][k] = dec[r][k]
              /\ dec'[r][Len(dec[r]) + 1] = d
              /\ script'[r] = IF Pops(r) /\ script[r] # <<>>
                              THEN Tail(script[r]) ELSE script[r]
              /\ \A s \in Rank : s # r => /\ pc'[s] = pc[s]
                                          /\ dec'[s] = dec[s]
                                          /\ script'[s] = script[s]
              /\ UNCHANGED <<policy, lines, frame, i, comp, probe>>
<1>1. PICK d \in Decisions(r) :
          /\ dec' = [dec EXCEPT ![r] = Append(@, d)]
          /\ pc' = [pc EXCEPT ![r] = IF d THEN "lb" ELSE "migrate"]
  BY DEF Decide
<1>2. d \in BOOLEAN
  BY DecisionIs DEF Ledger
<1>3. /\ pc[r] = "decide"
      /\ script' = [script EXCEPT ![r] =
                       IF Pops(r) /\ @ # <<>> THEN Tail(@) ELSE @]
      /\ UNCHANGED <<policy, lines, frame, i, comp, probe>>
  BY DEF Decide, chosen
<1>4. /\ dec[r] \in Seq(BOOLEAN) /\ Len(dec[r]) = Steps(r)
      /\ Steps(r) \in Nat
  BY <1>3, StepsNat DEF Ledger, Shapes, Counted, Acted, Acting
<1>5. dec'[r] = Append(dec[r], d)
  BY <1>1 DEF Ledger, Shapes
<1>6. /\ DOMAIN dec'[r] = 1..(Len(dec[r]) + 1)
      /\ \A k \in 1..Len(dec[r]) : dec'[r][k] = dec[r][k]
      /\ dec'[r][Len(dec[r]) + 1] = d
  BY <1>2, <1>4, <1>5
<1>7. /\ pc'[r] = IF d THEN "lb" ELSE "migrate"
      /\ script'[r] = IF Pops(r) /\ script[r] # <<>>
                      THEN Tail(script[r]) ELSE script[r]
      /\ \A s \in Rank : s # r => /\ pc'[s] = pc[s]
                                  /\ dec'[s] = dec[s]
                                  /\ script'[s] = script[s]
  BY <1>1, <1>3 DEF Ledger, Shapes
<1> QED
  BY <1>1, <1>2, <1>3, <1>4, <1>5, <1>6, <1>7

LEMMA DrawnKept == ASSUME Ledger, Drawn, [Next]_vars PROVE Drawn'
<1>1. CASE \A r \in Rank : ~Decide(r)
  <2>1. UNCHANGED <<policy, lines, script, dec>>
    BY <1>1, OnlyDecide
  <2> QED
    BY <2>1 DEF Drawn
<1>2. ASSUME NEW r \in Rank, Decide(r) PROVE Drawn'
  <2>1. PICK d \in Decisions(r) :
            /\ pc[r] = "decide"
            /\ dec[r] \in Seq(BOOLEAN) /\ Len(dec[r]) = Steps(r)
            /\ Steps(r) \in Nat
            /\ dec'[r] = Append(dec[r], d)
            /\ DOMAIN dec'[r] = 1..(Len(dec[r]) + 1)
            /\ \A k \in 1..Len(dec[r]) : dec'[r][k] = dec[r][k]
            /\ dec'[r][Len(dec[r]) + 1] = d
            /\ d \in BOOLEAN
            /\ script'[r] = IF Pops(r) /\ script[r] # <<>>
                            THEN Tail(script[r]) ELSE script[r]
            /\ \A s \in Rank : s # r => /\ dec'[s] = dec[s]
                                        /\ script'[s] = script[s]
            /\ policy' = policy
    BY <1>2, DecidesAt
  <2> SUFFICES ASSUME policy = "random" PROVE Drawn'
    BY <2>1 DEF Drawn
  <2>2. PICK all \in Draws : \A s \in Rank :
            /\ script[s] = After(Len(dec[s]), all)
            /\ \A k \in DOMAIN dec[s] : dec[s][k] = all[k]
    BY DEF Drawn
  <2> DEFINE n == Len(dec[r])
  <2>3. Steps(r) + 1 <= NFrames * NPFrame /\ NFrames * NPFrame \in Nat
    BY <2>1, NewBatch DEF Ledger
  <2>4. all \in Seq(BOOLEAN) /\ Len(all) = NFrames * NPFrame
    BY <2>3 DEF Draws
  <2>5. n \in Nat /\ n < Len(all)
    BY <2>1, <2>3, <2>4
  <2>6. /\ script[r] # <<>> /\ Head(script[r]) = all[n + 1]
        /\ Tail(script[r]) = After(n + 1, all)
    <3> HIDE DEF n
    <3>1. script[r] = After(n, all)
      BY <2>2 DEF n
    <3> QED
      BY <2>4, <2>5, <3>1, AfterTail
  <2>7. d = all[n + 1] /\ script'[r] = After(n + 1, all)
    <3>1. Pops(r)
      BY DEF Pops
    <3> QED
      BY <2>1, <2>6, <3>1 DEF Decisions
  <2>8. Len(dec'[r]) = n + 1
    BY <2>1, AppendIs
  <2>9. \A k \in DOMAIN dec'[r] : dec'[r][k] = all[k]
    <3> TAKE k \in DOMAIN dec'[r]
    <3>1. k \in 1..n \/ k = n + 1
      BY <2>1, <2>5
    <3>2. CASE k \in 1..n
      BY <2>1, <2>2, <3>2
    <3>3. CASE k = n + 1
      BY <2>1, <2>7, <3>3
    <3> QED
      BY <3>1, <3>2, <3>3
  <2>10. \A s \in Rank : /\ script'[s] = After(Len(dec'[s]), all)
                         /\ \A k \in DOMAIN dec'[s] : dec'[s][k] = all[k]
    <3> TAKE s \in Rank
    <3>1. CASE s = r
      BY <2>7, <2>8, <2>9, <3>1
    <3>2. CASE s # r
      BY <2>1, <2>2, <3>2
    <3> QED
      BY <3>1, <3>2
  <2>11. (\E each \in Draws : \A s \in Rank :
             /\ script[s] = After(Len(dec[s]), each)
             /\ \A k \in DOMAIN dec[s] : dec[s][k] = each[k])'
    BY <2>10
  <2> QED
    BY <2>11 DEF Drawn
<1> QED
  BY <1>1, <1>2

(* A file holds a decision for every frame.                                *)
LongFiles == \A file \in Files : Len(FileDecisions(file)) >= NFrames

LEMMA AfterNone == ASSUME NEW all \in Seq(BOOLEAN) PROVE After(0, all) = all
<1>1. /\ After(0, all) = [k \in 1..Len(all) |-> all[k]]
      /\ all = [k \in 1..Len(all) |-> all[k]]
  BY DEF After
<1> QED
  BY <1>1

LEMMA InitDrawn == ASSUME Init PROVE Drawn /\ TakenFromFile /\ Decided
<1>1. /\ dec = [r \in Rank |-> <<>>]
      /\ frame = [r \in Rank |-> 0] /\ i = [r \in Rank |-> 0]
      /\ \A r \in Rank : pc[r] \in {"gather", "ghosts0"}
  BY DEF Init
<1>2. Drawn
  <2> SUFFICES ASSUME policy = "random" PROVE Drawn
    BY DEF Drawn
  <2>1. PICK all \in Draws : script = [r \in Rank |-> all]
    BY DEF Init
  <2>2. NFrames * NPFrame \in Nat
    BY Sizes
  <2>3. all \in Seq(BOOLEAN)
    BY <2>2 DEF Draws
  <2>4. \A r \in Rank : script[r] = After(Len(dec[r]), all)
    BY <1>1, <2>1, <2>3, AfterNone
  <2> QED
    BY <1>1, <2>4 DEF Drawn
<1>3. TakenFromFile
  <2> SUFFICES ASSUME policy = "file" PROVE TakenFromFile
    BY DEF TakenFromFile
  <2>1. lines \in Files /\ script = [r \in Rank |-> FileDecisions(lines)]
    BY DEF Init
  <2>2. FileDecisions(lines) \in Seq(BOOLEAN)
    BY <2>1, FilesAssumption, FileRead DEF File
  <2>3. \A r \in Rank : Batches(r) = 0
    BY <1>1 DEF Batches, Acting
  <2>4. \A r \in Rank : script[r] = After(Batches(r), FileDecisions(lines))
    BY <2>1, <2>2, <2>3, AfterNone
  <2> QED
    BY <1>1, <2>4 DEF TakenFromFile
<1>4. Decided
  BY <1>1 DEF Decided
<1> QED
  BY <1>2, <1>3, <1>4

LEMMA SameFrames ==
    ASSUME Ledger, [Next]_vars, \A r \in Rank : ~Decide(r), NEW s \in Rank
    PROVE  Batches(s)' = Batches(s)
<1> USE DEF Ledger
<1>0. Shapes /\ i[s] \in Nat /\ (pc[s] = "ghosts" => i'[s] = i[s] \/ Ghosts)
  BY DEF Shapes, Next, vars, chosen, Compute, EndFrame, FirstGhosts,
         Allreduce, LoadBalance, Migrate, Gather, Statistics, Finished
<1>1. ASSUME NEW r \in Rank, Compute(r) PROVE Batches(s)' = Batches(s)
  <2>1. pc'[s] \in Acting <=> pc[s] \in Acting
    BY <1>1 DEF Compute, Shapes, Acting
  <2> QED
    BY <1>1, <2>1 DEF Batches, Compute
<1>2. ASSUME NEW r \in Rank, EndFrame(r) PROVE Batches(s)' = Batches(s)
  <2>1. CASE s # r
    BY <1>2, <2>1 DEF Batches, EndFrame, Shapes
  <2>2. CASE s = r
    <3>1. /\ pc[r] = "frame" /\ i[r] > 0
          /\ i'[r] = 0 /\ frame'[r] = frame[r] + 1
          /\ pc'[r] \in {"gather", "compute", "stats"}
      BY <1>2, Sizes DEF EndFrame, Shapes, InLoops, NextFrame
    <3> QED
      BY <2>2, <3>1 DEF Batches, Acting
  <2> QED
    BY <2>1, <2>2
<1>3. CASE FirstGhosts \/ Allreduce \/ Gather \/ Statistics
  <2>1. UNCHANGED <<frame, i>> /\ pc[s] \notin Acting /\ pc'[s] \notin Acting
    BY <1>3 DEF FirstGhosts, Allreduce, Gather, Statistics, AllAt, Acting,
                NextFrame
  <2> QED
    BY <2>1 DEF Batches
<1>4. CASE LoadBalance \/ Migrate
  <2>1. UNCHANGED <<frame, i>> /\ pc[s] \in Acting /\ pc'[s] \in Acting
    BY <1>4 DEF LoadBalance, Migrate, AllAt, Acting
  <2> QED
    BY <2>1 DEF Batches
<1>5. CASE Ghosts
  <2>1. pc[s] \in Acting /\ i'[s] > 0 /\ frame'[s] = frame[s]
    BY <1>0, <1>5 DEF Ghosts, AllAt, Acting
  <2> QED
    BY <2>1 DEF Batches
<1>6. CASE UNCHANGED vars
  BY <1>6 DEF vars, Batches
<1> QED
  BY <1>1, <1>2, <1>3, <1>4, <1>5, <1>6 DEF Next, Finished

LEMMA TakenKept ==
    ASSUME LongFiles, Ledger, TakenFromFile, [Next]_vars PROVE TakenFromFile'
<1>1. CASE \A r \in Rank : ~Decide(r)
  <2>1. UNCHANGED <<policy, lines, script, dec>>
    BY <1>1, OnlyDecide
  <2>2. \A s \in Rank : Batches(s)' = Batches(s)
    BY <1>1, SameFrames
  <2>3. FileDecisions(lines)' = FileDecisions(lines)
    BY <2>1
  <2> QED
    BY <2>1, <2>2, <2>3 DEF TakenFromFile
<1>2. ASSUME NEW r \in Rank, Decide(r) PROVE TakenFromFile'
  <2>1. PICK d \in Decisions(r) :
            /\ d \in BOOLEAN
            /\ pc[r] = "decide"
            /\ pc'[r] = IF d THEN "lb" ELSE "migrate"
            /\ dec[r] \in Seq(BOOLEAN) /\ Len(dec[r]) = Steps(r)
            /\ Steps(r) \in Nat
            /\ DOMAIN dec'[r] = 1..(Len(dec[r]) + 1)
            /\ \A k \in 1..Len(dec[r]) : dec'[r][k] = dec[r][k]
            /\ dec'[r][Len(dec[r]) + 1] = d
            /\ script'[r] = IF Pops(r) /\ script[r] # <<>>
                            THEN Tail(script[r]) ELSE script[r]
            /\ \A s \in Rank : s # r => /\ pc'[s] = pc[s]
                                        /\ dec'[s] = dec[s]
                                        /\ script'[s] = script[s]
            /\ UNCHANGED <<policy, lines, frame, i, comp, probe>>
    BY <1>2, DecidesAt
  <2> SUFFICES ASSUME policy = "file" PROVE TakenFromFile'
    BY <2>1 DEF TakenFromFile
  <2> DEFINE all == FileDecisions(lines)
             Taken(s, q, b, v) ==
                 /\ q = After(b, all)
                 /\ \A k \in DOMAIN v :
                       (k - 1) % NPFrame = 0 =>
                           /\ 1 + (k - 1) \div NPFrame <= NFrames
                           /\ v[k] = all[1 + (k - 1) \div NPFrame]
             n == Steps(r)
  <2>2. \A s \in Rank : Taken(s, script[s], Batches(s), dec[s])
    BY DEF TakenFromFile
  <2>3. all \in Seq(BOOLEAN) /\ Len(all) >= NFrames
    <3>1. lines \in Files
      BY DEF Ledger, Shapes
    <3> QED
      BY <3>1, FilesAssumption, FileRead DEF File, LongFiles
  <2>4. /\ n \div NPFrame = frame[r]
        /\ n % NPFrame = 0 <=> i[r] = 0
        /\ frame[r] \in Nat /\ frame[r] < NFrames /\ i[r] \in Nat
    BY <2>1, NewBatch DEF Ledger, Shapes, InLoops, Measured
  <2>5. Batches(r)' = frame[r] + 1
    BY <2>1 DEF Batches, Acting
  <2>6. Pops(r) <=> i[r] = 0
    <3>1. probe[r].it = n
      BY DEF Ledger, Counted
    <3> QED
      BY <2>4, <3>1 DEF Pops, IsNewBatch
  <2>7. /\ script'[r] = After(frame[r] + 1, all)
        /\ i[r] = 0 => d = all[1 + frame[r]]
    <3>1. CASE i[r] = 0
      <4>1. Batches(r) = frame[r]
        BY <2>1, <3>1 DEF Batches, Acting
      <4>2. script[r] = After(frame[r], all)
        BY <2>2, <4>1
      <4>3. frame[r] < Len(all) /\ 1 + frame[r] = frame[r] + 1
        BY <2>3, <2>4, Sizes
      <4>4. /\ script[r] # <<>> /\ Head(script[r]) = all[1 + frame[r]]
            /\ Tail(script[r]) = After(frame[r] + 1, all)
        <5> HIDE DEF all
        <5> QED
          BY <2>3, <2>4, <4>2, <4>3, AfterTail
      <4> HIDE DEF all
      <4> QED
        BY <2>1, <2>6, <3>1, <4>4 DEF Decisions
    <3>2. CASE i[r] # 0
      <4>1. Batches(r) = frame[r] + 1
        BY <2>4, <3>2 DEF Batches
      <4>2. script[r] = After(frame[r] + 1, all)
        BY <2>2, <4>1
      <4> HIDE DEF all
      <4> QED
        BY <2>1, <2>6, <3>2, <4>2
    <3> QED
      BY <3>1, <3>2
  <2>8. \A k \in DOMAIN dec'[r] :
            (k - 1) % NPFrame = 0 =>
                /\ 1 + (k - 1) \div NPFrame <= NFrames
                /\ dec'[r][k] = all[1 + (k - 1) \div NPFrame]
    <3> SUFFICES ASSUME NEW k \in DOMAIN dec'[r], (k - 1) % NPFrame = 0
                 PROVE  /\ 1 + (k - 1) \div NPFrame <= NFrames
                        /\ dec'[r][k] = all[1 + (k - 1) \div NPFrame]
      OBVIOUS
    <3> HIDE DEF all
    <3>1. k \in 1..Len(dec[r]) \/ k = n + 1
      BY <2>1
    <3>2. CASE k \in 1..Len(dec[r])
      <4>1. dec'[r][k] = dec[r][k] /\ k \in DOMAIN dec[r]
        BY <2>1, <3>2
      <4> QED
        BY <2>2, <4>1
    <3>3. CASE k = n + 1
      <4>1. k - 1 = n
        BY <2>1, <3>3
      <4>2. (k - 1) \div NPFrame = frame[r] /\ i[r] = 0
        BY <2>4, <4>1
      <4>3. dec'[r][k] = d
        BY <2>1, <3>3
      <4>4. 1 + frame[r] <= NFrames
        BY <2>4, Sizes
      <4> QED
        BY <2>7, <4>2, <4>3, <4>4
    <3> QED
      BY <3>1, <3>2, <3>3
  <2>9. \A s \in Rank : s # r => Batches(s)' = Batches(s)
    BY <2>1 DEF Batches
  <2>10. \A s \in Rank : Taken(s, script'[s], Batches(s)', dec'[s])
    <3> TAKE s \in Rank
    <3>1. CASE s = r
      BY <2>5, <2>7, <2>8, <3>1
    <3>2. CASE s # r
      <4>1. /\ script'[s] = script[s] /\ dec'[s] = dec[s]
            /\ Batches(s)' = Batches(s)
        BY <2>1, <2>9, <3>2
      <4>2. Taken(s, script[s], Batches(s), dec[s])
        BY <2>2
      <4> HIDE DEF Taken
      <4> QED
        BY <4>1, <4>2
    <3> QED
      BY <3>1, <3>2
  <2>11. FileDecisions(lines)' = all
    BY <2>1
  <2> HIDE DEF all
  <2> QED
    BY <2>10, <2>11 DEF TakenFromFile
<1> QED
  BY <1>1, <1>2

LEMMA DecidedKept == ASSUME Ledger, Decided, [Next]_vars PROVE Decided'
<1>0. Shapes
  BY DEF Ledger
<1>1. ASSUME NEW r \in Rank, Decide(r) PROVE Decided'
  <2>1. PICK d \in Decisions(r) :
            /\ pc'[r] = IF d THEN "lb" ELSE "migrate"
            /\ \A s \in Rank : s # r => pc'[s] = pc[s]
            /\ UNCHANGED <<policy, probe>>
    BY <1>1, DecidesAt
  <2> SUFFICES ASSUME policy \in Criteria PROVE Decided'
    BY <2>1 DEF Decided
  <2>2. d = ShouldLoadBalance(policy, probe[r])
    BY DEF Decisions, Pops, Criteria
  <2>3. /\ pc'[r] = "lb" => ShouldLoadBalance(policy, probe[r])
        /\ pc'[r] = "migrate" => ~ShouldLoadBalance(policy, probe[r])
    BY <2>1, <2>2
  <2>4. \A s \in Rank :
            /\ pc'[s] = "lb" => ShouldLoadBalance(policy, probe[s])
            /\ pc'[s] = "migrate" => ~ShouldLoadBalance(policy, probe[s])
    BY <2>1, <2>3 DEF Decided
  <2> QED
    BY <2>1, <2>4 DEF Decided
<1>2. ASSUME NEW r \in Rank, Compute(r) PROVE Decided'
  <2>1. /\ UNCHANGED <<policy, probe>>
        /\ \A s \in Rank : pc'[s] \in {"lb", "migrate"} => pc'[s] = pc[s]
    BY <1>0, <1>2 DEF Compute, Shapes, chosen
  <2> QED
    BY <2>1 DEF Decided
<1>3. ASSUME NEW r \in Rank, EndFrame(r) PROVE Decided'
  <2>1. /\ policy' = policy
        /\ \A s \in Rank : pc'[s] \in {"lb", "migrate"} =>
               pc'[s] = pc[s] /\ probe'[s] = probe[s]
    BY <1>0, <1>3, EndFrameFields DEF EndFrame, Shapes, NextFrame, chosen
  <2>2. \A s \in Rank :
            policy \in Criteria =>
                /\ pc'[s] = "lb" => ShouldLoadBalance(policy, probe'[s])
                /\ pc'[s] = "migrate" => ~ShouldLoadBalance(policy, probe'[s])
    BY <2>1 DEF Decided
  <2> QED
    BY <2>1, <2>2 DEF Decided
<1>4. CASE \/ FirstGhosts \/ Allreduce \/ LoadBalance \/ Migrate \/ Ghosts
           \/ Gather \/ Statistics
  <2>1. \A s \in Rank : pc'[s] \notin {"lb", "migrate"}
    BY <1>4 DEF FirstGhosts, Allreduce, LoadBalance, Migrate, Ghosts, Gather,
                Statistics, NextFrame, NextIteration
  <2> QED
    BY <2>1 DEF Decided
<1>5. CASE UNCHANGED vars
  <2>1. UNCHANGED <<policy, probe, pc>>
    BY <1>5 DEF vars, chosen
  <2> QED
    BY <2>1 DEF Decided
<1> QED
  BY <1>1, <1>2, <1>3, <1>4, <1>5 DEF Next, Finished

-----------------------------------------------------------------------------
(***************************************************************************)
(* Equal batch times stay equal: they come from times that are.            *)
(***************************************************************************)
SameGarbage == "procassini" \in Policies => \A g, h \in Garbage : g = h

LEMMA InitSameBatches == ASSUME SameGarbage, Init PROVE SameBatches
<1> SUFFICES ASSUME policy = "procassini", NEW r \in Rank, NEW s \in Rank
             PROVE  BatchOf(r) = BatchOf(s)
  BY DEF SameBatches
<1>1. PICK g \in [Rank -> Garbage] : probe = [q \in Rank |-> NewProbe(g[q])]
  BY DEF Init
<1>2. g[r] = g[s]
  BY <1>1 DEF Init, SameGarbage
<1> QED
  BY <1>1, <1>2 DEF Init, BatchOf, NewProbe

LEMMA SameBatchesKept ==
    ASSUME Ledger, InStep, SameBatches, [Next]_vars PROVE SameBatches'
<1>0. Shapes
  BY DEF Ledger
<1>a. ASSUME policy' = policy, \A s \in Rank : BatchOf(s)' = BatchOf(s)
      PROVE  SameBatches'
  BY <1>a DEF SameBatches
<1>1. ASSUME NEW r \in Rank, Compute(r) \/ Decide(r) PROVE SameBatches'
  <2>1. /\ UNCHANGED <<policy, probe, comp>>
        /\ \A s \in Rank : pc'[s] = "frame" <=> pc[s] = "frame"
    BY <1>0, <1>1 DEF Compute, Decide, Shapes, chosen
  <2> QED
    BY <1>a, <2>1 DEF BatchOf
<1>2. ASSUME NEW r \in Rank, EndFrame(r) PROVE SameBatches'
  <2>1. policy' = policy /\ pc[r] = "frame" /\ pc'[r] # "frame"
        /\ \A s \in Rank : s # r => pc'[s] = pc[s] /\ comp'[s] = comp[s]
    BY <1>0, <1>2 DEF EndFrame, Shapes, NextFrame, chosen
  <2>2. /\ probe'[r].batch = comp[r]
        /\ \A s \in Rank : s # r => probe'[s] = probe[s]
    BY <1>0, <1>2, EndFrameFields
  <2> QED
    BY <1>a, <2>1, <2>2 DEF BatchOf
<1>3. CASE FirstGhosts \/ Migrate \/ Gather \/ Statistics
  <2>1. /\ UNCHANGED <<policy, probe, comp>>
        /\ \A s \in Rank : pc'[s] # "frame" /\ pc[s] # "frame"
    BY <1>3 DEF FirstGhosts, Migrate, Gather, Statistics, AllAt, NextFrame,
                chosen
  <2> QED
    BY <1>a, <2>1 DEF BatchOf
<1>4. CASE Allreduce
  <2>1. /\ policy' = policy
        /\ \A s \in Rank : pc'[s] # "frame" /\ pc[s] # "frame"
    BY <1>4 DEF Allreduce, AllAt, chosen
  <2>2. \A s \in Rank : probe'[s].batch = probe[s].batch
    BY <1>0, <1>4, ReducedFields
  <2> QED
    BY <1>a, <2>1, <2>2 DEF BatchOf
<1>5. CASE LoadBalance
  <2>1. /\ policy' = policy
        /\ \A s \in Rank : pc'[s] # "frame" /\ pc[s] # "frame"
    BY <1>5 DEF LoadBalance, AllAt, chosen
  <2>2. \A s \in Rank : probe'[s].batch = probe[s].batch
    BY <1>0, <1>5, BalancedFields
  <2> QED
    BY <1>a, <2>1, <2>2 DEF BatchOf
<1>6. CASE Ghosts
  <2> SUFFICES ASSUME policy = "procassini", NEW r \in Rank, NEW s \in Rank
               PROVE  BatchOf(r)' = BatchOf(s)'
    BY <1>6 DEF Ghosts, chosen, SameBatches
  <2>1. /\ pc[r] = "ghosts" /\ pc[s] = "ghosts"
        /\ comp'[r] = comp[r] + itTime[r] /\ comp'[s] = comp[s] + itTime[s]
        /\ pc'[r] = NextIteration(i[r] + 1)
        /\ pc'[s] = NextIteration(i[s] + 1)
    BY <1>6 DEF Ghosts, AllAt
  <2>2. comp'[r] = comp'[s] /\ pc'[r] = pc'[s]
    BY <2>1 DEF InStep, SameTimes, Reduction, SameCounters, CompOf,
                IterationOf
  <2>3. probe[r].batch = probe[s].batch
    BY <2>1 DEF SameBatches, BatchOf
  <2>4. probe'[r].batch = probe'[s].batch
    BY <1>0, <1>6, <2>3, IteratedFields
  <2> QED
    BY <2>2, <2>4 DEF BatchOf
<1>7. CASE UNCHANGED vars
  <2>1. UNCHANGED <<policy, probe, comp, pc>>
    BY <1>7 DEF vars, chosen
  <2> QED
    BY <1>a, <2>1 DEF BatchOf
<1> QED
  BY <1>1, <1>2, <1>3, <1>4, <1>5, <1>6, <1>7 DEF Next, Finished

-----------------------------------------------------------------------------
(***************************************************************************)
(* The ranks decide alike.                                                 *)
(***************************************************************************)
Course == /\ Ledger /\ InStep /\ SameBatches
          /\ Decided /\ Drawn /\ TakenFromFile

(* The criteria see nothing but the measures and, one of them, the batch.  *)
LEMMA SameView ==
    ASSUME NEW c, NEW p, NEW q, SameMeasures(p, q),
           c = "procassini" => p.batch = q.batch
    PROVE  ShouldLoadBalance(c, p) <=> ShouldLoadBalance(c, q)
<1>1. IsNewBatch(p) <=> IsNewBatch(q)
  BY DEF IsNewBatch, SameMeasures
<1>2. AvgLB(p) = AvgLB(q) /\ SumEff(p) = SumEff(q)
  BY DEF AvgLB, SumEff, SameMeasures
<1>3. Menon(p) <=> Menon(q)
  BY <1>2 DEF Menon, SameMeasures
<1>4. Marquez(p) <=> Marquez(q)
  BY DEF Marquez, SameMeasures
<1>5. c = "procassini" => (Procassini(p) <=> Procassini(q))
  BY <1>2 DEF Procassini, SameMeasures
<1> QED
  BY <1>1, <1>3, <1>4, <1>5 DEF ShouldLoadBalance

LEMMA CourseIsSame == ASSUME Course PROVE SameCourse
<1> SUFFICES ASSUME NEW r \in Rank, NEW s \in Rank, pc[r] = "lb"
             PROVE  pc[s] \in {"lb", "decide"}
  BY DEF SameCourse
<1>1. pc[s] \in {"decide", "lb", "migrate"}
  BY DEF Course, InStep, Together, Beyond
<1>2. SUFFICES ASSUME pc[s] = "migrate" PROVE FALSE
  BY <1>1
<1>3. policy \in Criteria \cup {"file", "random"}
  BY PoliciesAssumption DEF Course, Ledger, Shapes, Criteria
<1>4. CASE policy \in Criteria
  <2>1. BatchOf(r) = probe[r].batch /\ BatchOf(s) = probe[s].batch
    BY <1>2 DEF BatchOf
  <2>2. policy = "procassini" => probe[r].batch = probe[s].batch
    BY <2>1 DEF Course, SameBatches
  <2>3. ShouldLoadBalance(policy, probe[r]) <=>
            ShouldLoadBalance(policy, probe[s])
    BY <2>2, SameView DEF Course, InStep, SameProbes
  <2> QED
    BY <1>2, <1>4, <2>3 DEF Course, Decided
<1> DEFINE n == Steps(r) + 1
<1>5. n \in Nat /\ n >= 1 /\ n = Steps(s) + 1
  <2>1. Steps(r) = Steps(s)
    BY <1>2 DEF Course, InStep, SameCounters, FrameOf, IterationOf, Steps
  <2>2. Steps(r) \in Nat
    BY StepsNat DEF Course, Ledger
  <2> QED
    BY <2>1, <2>2
<1>6. /\ dec[r] \in Seq(BOOLEAN) /\ Len(dec[r]) = n
      /\ dec[s] \in Seq(BOOLEAN) /\ Len(dec[s]) = n
  BY <1>2, <1>5 DEF Course, Ledger, Shapes, Counted, Acted, Acting
<1>7. /\ n \in DOMAIN dec[r] /\ n \in DOMAIN dec[s]
      /\ dec[r][n] = TRUE /\ dec[s][n] = FALSE
  <2>1. Last(dec[r]) = TRUE /\ Last(dec[s]) = FALSE
    BY <1>2 DEF Course, Ledger, Flags
  <2> HIDE DEF n
  <2> QED
    BY <1>5, <1>6, <2>1 DEF Last
<1> HIDE DEF n
<1>8. CASE policy = "random"
  <2>1. PICK all \in Draws : \A q \in Rank : \A k \in DOMAIN dec[q] :
            dec[q][k] = all[k]
    BY <1>8 DEF Course, Drawn
  <2> QED
    BY <1>7, <2>1
<1>9. CASE policy = "file"
  <2>1. (n - 1) % NPFrame = 0
    BY <1>7, <1>9 DEF Course, Ledger, PerFrame
  <2>2. \A q \in Rank : \A k \in DOMAIN dec[q] :
            (k - 1) % NPFrame = 0 =>
                dec[q][k] = FileDecisions(lines)[1 + (k - 1) \div NPFrame]
    BY <1>9 DEF Course, TakenFromFile
  <2>3. /\ dec[r][n] = FileDecisions(lines)[1 + (n - 1) \div NPFrame]
        /\ dec[s][n] = FileDecisions(lines)[1 + (n - 1) \div NPFrame]
    BY <1>7, <2>1, <2>2
  <2> QED
    BY <1>7, <2>3
<1> QED
  BY <1>3, <1>4, <1>8, <1>9

(* No rank is in the load balancing while another is in the migration, for *)
(* any number of ranks, any times and every policy, if the file has a      *)
(* decision for every frame and, with Procassini's criterion, the batch    *)
(* time nobody assigned happens to be the same everywhere: nothing else    *)
(* makes the ranks differ in what they decide from.                        *)
THEOREM AlwaysSameCourse ==
    ASSUME LongFiles, SameGarbage PROVE Spec => []SameCourse
<1>1. Init => Course
  BY InitLedger, InitInStep, InitSameBatches, InitDrawn DEF Course
<1>2. Course /\ [Next]_vars => Course'
  <2> SUFFICES ASSUME Course, [Next]_vars PROVE Course'
    OBVIOUS
  <2>1. Ledger' /\ InStep' /\ SameBatches'
    BY LedgerKept, InStepKept, SameBatchesKept DEF Course
  <2>2. Decided' /\ Drawn' /\ TakenFromFile'
    BY DecidedKept, DrawnKept, TakenKept DEF Course
  <2> QED
    BY <2>1, <2>2 DEF Course
<1> QED
  BY <1>1, <1>2, CourseIsSame, PTL DEF Spec

(* A criterion balances at the start of a frame only, and a policy from a  *)
(* file takes the decisions of its last dataset, one a frame: no decision  *)
(* is skipped, taken twice or taken from a dataset before, if the file has *)
(* one for every frame.                                                    *)
THEOREM DecisionsPerFrame ==
    ASSUME LongFiles PROVE Spec => []DecidedPerFrame
<1>1. ASSUME Ledger, TakenFromFile PROVE DecidedPerFrame
  <2> SUFFICES ASSUME policy # "random", NEW r \in Rank,
                      NEW k \in DOMAIN dec[r]
               PROVE  /\ dec[r][k] => (k - 1) % NPFrame = 0
                      /\ policy = "file" /\ (k - 1) % NPFrame = 0 =>
                            dec[r][k] =
                                (Last(LastDataset(lines)
                                          [1 + (k - 1) \div NPFrame]) > 0)
    BY DEF DecidedPerFrame
  <2>1. dec[r][k] => (k - 1) % NPFrame = 0
    BY <1>1 DEF Ledger, PerFrame
  <2> SUFFICES ASSUME policy = "file", (k - 1) % NPFrame = 0
               PROVE  dec[r][k] = (Last(LastDataset(lines)
                                            [1 + (k - 1) \div NPFrame]) > 0)
    BY <2>1
  <2> DEFINE data == LastDataset(lines)
             j == 1 + (k - 1) \div NPFrame
  <2>2. j <= NFrames /\ dec[r][k] = FileDecisions(lines)[j]
    BY <1>1 DEF TakenFromFile
  <2>3. j \in Nat /\ j >= 1
    <3>1. dec[r] \in Seq(BOOLEAN)
      BY <1>1 DEF Ledger, Shapes
    <3>2. k - 1 \in Nat
      BY <3>1
    <3>3. (k - 1) \div NPFrame \in Nat
      BY <3>2, Sizes
    <3> QED
      BY <3>3
  <2>4. lines \in File /\ Len(FileDecisions(lines)) >= NFrames
    <3>1. lines \in Files
      BY <1>1 DEF Ledger, Shapes
    <3> QED
      BY <3>1, FilesAssumption DEF File, LongFiles
  <2>5. /\ FileDecisions(lines) = [h \in 1..Len(data) |-> Last(data[h]) > 0]
        /\ data \in File
    BY <2>4, FileRead
  <2>6. Len(FileDecisions(lines)) = Len(data) /\ Len(data) \in Nat
    <3> HIDE DEF data
    <3>1. Len(data) \in Nat
      BY <2>5 DEF File
    <3> QED
      BY <2>5, <3>1
  <2> HIDE DEF data, j
  <2>7. j \in 1..Len(data)
    BY <2>2, <2>3, <2>4, <2>6, Sizes
  <2> QED
    BY <2>2, <2>5, <2>7 DEF data, j
<1>2. Ledger /\ TakenFromFile /\ [Next]_vars => Ledger' /\ TakenFromFile'
  BY LedgerKept, TakenKept
<1> QED
  BY <1>1, <1>2, InitLedger, InitDrawn, PTL DEF Spec
=============================================================================
