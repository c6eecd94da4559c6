--------------------------- MODULE ParticleProofs ---------------------------
(***************************************************************************)
(* The particles before the loop and in its steps, for every size of the   *)
(* box and cut-off radius up to it: how the leapfrog moves them, whatever  *)
(* the accelerations, and what the generators give, whatever is drawn.     *)
(***************************************************************************)
EXTENDS Leapfrog, Generators, TLAPS

-----------------------------------------------------------------------------
(***************************************************************************)
(* Leapfrog.                                                               *)
(***************************************************************************)

(* A clamped velocity is an integer smaller than the cut-off.              *)
LEMMA ClampedBound ==
    ASSUME NEW v \in Int
    PROVE  Clamped(v) \in Int /\ -RC < Clamped(v) /\ Clamped(v) < RC
<1>1. MaxSpeed \in Int /\ 0 <= MaxSpeed /\ MaxSpeed < RC
  BY BoxAssumption DEF MaxSpeed
<1> QED
  BY <1>1, BoxAssumption DEF Clamped, Abs

(* After at most one reflection per wall a position is in the box, no      *)
(* farther from where it was than the velocity.                            *)
LEMMA Reflected ==
    ASSUME NEW x \in 0..Size, NEW v \in Int, -RC < v, v < RC
    PROVE  LET s == ReflectUpper(ReflectLower([pos |-> x + v, vel |-> v]))
           IN /\ s.pos \in 0..Size /\ s.vel \in Int
              /\ -RC < s.pos - x /\ s.pos - x < RC
<1> DEFINE m == [pos |-> x + v, vel |-> v]
           l == ReflectLower(m)
           u == ReflectUpper(l)
<1>1. l.pos \in Int /\ l.vel \in Int
  BY DEF ReflectLower
<1>2. /\ 0 <= l.pos /\ l.pos < Size + RC
      /\ -RC < l.pos - x /\ l.pos - x < RC
  BY BoxAssumption DEF ReflectLower
<1>3. CASE l.pos >= Size
  <2>1. u.pos = 2 * Size - l.pos /\ u.vel = -l.vel
    BY <1>3 DEF ReflectUpper
  <2>2. 2 * Size - l.pos <= Size /\ 2 * Size - l.pos > Size - RC
    BY <1>1, <1>2, <1>3, BoxAssumption
  <2>3. 2 * Size - l.pos \in 0..Size
    BY <1>1, <2>2, BoxAssumption
  <2>4. -RC < 2 * Size - l.pos - x /\ 2 * Size - l.pos - x < RC
    BY <1>1, <1>2, <1>3, <2>2, BoxAssumption
  <2> QED
    BY <1>1, <2>1, <2>3, <2>4, BoxAssumption
<1>4. CASE ~(l.pos >= Size)
  <2>1. u = l
    BY <1>4 DEF ReflectUpper
  <2> QED
    BY <1>1, <1>2, <1>4, <2>1, BoxAssumption
<1> QED
  BY <1>3, <1>4

LEMMA AfterKeeps ==
    ASSUME InBox, NEW acc \in [Particle -> Acc], NEW p \in Particle
    PROVE  /\ After(p, acc).pos \in 0..Size
           /\ After(p, acc).vel \in Int
           /\ -RC < After(p, acc).pos - pos[p]
           /\ After(p, acc).pos - pos[p] < RC
<1> DEFINE v == Kicked(vel[p], acc[p], acc[First])
<1>1. vel[p] \in Int /\ acc[p] \in Int /\ acc[First] \in Int
  BY AccAssumption, FirstAssumption DEF InBox
<1>2. v \in Int /\ -RC < v /\ v < RC
  BY <1>1, ClampedBound DEF Kicked
<1>3. pos[p] \in 0..Size
  BY DEF InBox
<1> HIDE DEF v
<1>4. After(p, acc) = ReflectUpper(ReflectLower([pos |-> pos[p] + v, vel |-> v]))
  BY DEF After, v
<1> QED
  BY <1>2, <1>3, <1>4, Reflected

(* The particles stay in the box for ever.                                 *)
THEOREM StaysInBox == Motion => []InBox
<1>1. Start => InBox
  BY AccAssumption DEF Start, InBox
<1>2. InBox /\ [MoveAll]_moving => InBox'
  <2> SUFFICES ASSUME InBox, [MoveAll]_moving
               PROVE  InBox'
    OBVIOUS
  <2>1. CASE MoveAll
    <3>1. PICK acc \in [Particle -> Acc] :
              /\ pos' = [p \in Particle |-> After(p, acc).pos]
              /\ vel' = [p \in Particle |-> After(p, acc).vel]
      BY <2>1 DEF MoveAll
    <3>2. \A p \in Particle : After(p, acc).pos \in 0..Size
                              /\ After(p, acc).vel \in Int
      BY AfterKeeps
    <3> QED
      BY <3>1, <3>2 DEF InBox
  <2>2. CASE UNCHANGED moving
    BY <2>2 DEF moving, InBox
  <2> QED
    BY <2>1, <2>2
<1> QED
  BY <1>1, <1>2, PTL DEF Motion

(* No step takes a particle as far as the cut-off.                         *)
THEOREM StepsAreShort == Motion => ShortSteps
<1>1. InBox /\ [MoveAll]_moving => [ShortStep]_moving
  <2> SUFFICES ASSUME InBox, MoveAll, NEW p \in Particle
               PROVE  Abs(pos'[p] - pos[p]) < RC
    BY DEF ShortStep
  <2>1. PICK acc \in [Particle -> Acc] :
            pos' = [q \in Particle |-> After(q, acc).pos]
    BY DEF MoveAll
  <2>2. pos'[p] = After(p, acc).pos
    BY <2>1
  <2>3. -RC < pos'[p] - pos[p] /\ pos'[p] - pos[p] < RC
    BY <2>2, AfterKeeps
  <2>4. pos'[p] \in Int /\ pos[p] \in Int
    BY <2>2, AfterKeeps DEF InBox
  <2> QED
    BY <2>3, <2>4, BoxAssumption DEF Abs
<1> QED
  BY <1>1, StaysInBox, PTL DEF Motion, ShortSteps

-----------------------------------------------------------------------------
(***************************************************************************)
(* Generators.  A generator of the queue is one of five; the cluster       *)
(* generator is only ever the first, so its count of the whole vector is a *)
(* count of its own particles.                                             *)
(***************************************************************************)
Quarter == NPart \div 4
Rest == (3 * NPart) \div 4
Tenth == Half(Rest, Size \div 10)

Total(c) == IF c = 5 THEN Quarter + Rest ELSE NPart

Checked == {2, 4, 5, 6}

(* The generator a configuration starts with.                              *)
Leading(c) == Generators[c][1]

(* Where the queue is: at its front, at the second generator of            *)
(* configuration 5, or at its end.                                         *)
AtFirst ==
    /\ queue = Generators[conf]
    /\ pc \in {"next", "draw", "aborted"}
    /\ before = 0
    /\ pc = "next" => elements = <<>>

AtSecond ==
    /\ conf = 5
    /\ queue = <<Tenth>>
    /\ pc \in {"next", "draw"}
    /\ pc = "next" => Len(elements) = Quarter
    /\ pc = "draw" => before = Quarter

AtEnd ==
    /\ queue = <<>>
    /\ pc \in {"next", "done"}
    /\ ~gaveUp => Len(elements) = Total(conf)

(* How far the running generator is.                                       *)
CountedSo(n, len) ==
    \/ cluster = 1 /\ inside = len /\ len <= n
    \/ cluster = 2 /\ inside = 0 /\ len = n

Counted ==
    pc = "draw" =>
        IF Running.kind = "clusters"
        THEN CountedSo(Running.n, Len(elements))
        ELSE 0 <= Generated /\ Generated <= Running.n

Kept ==
    /\ conf \in Confs
    /\ elements \in Seq(Pos)
    /\ trial \in 0..MaxTrial
    /\ gaveUp \in BOOLEAN

Generation == Kept /\ (AtFirst \/ AtSecond \/ AtEnd) /\ Counted

LEMMA Parts == Quarter \in Nat /\ Rest \in Nat
<1>1. NPart \in Nat
  BY TrialAssumption
<1> QED
  BY <1>1 DEF Quarter, Rest

(* What main queues.                                                       *)
LEMMA Queued ==
    ASSUME NEW c \in 1..6
    PROVE  /\ Generators[c] = IF c = 5 THEN <<Leading(c), Tenth>>
                                       ELSE <<Leading(c)>>
           /\ Leading(c).n = IF c = 5 THEN Quarter ELSE NPart
           /\ Leading(c).kind \in IF c \in Checked THEN {"half", "clusters"}
                                                 ELSE {"uniform", "wall"}
           /\ c = 5 => Leading(c).kind = "clusters"
           /\ Leading(c).kind = "clusters" =>
                  Leading(c).sizes[1] = Leading(c).n /\ 1 <= Len(Leading(c).sizes)
<1>1. CASE c = 1
  BY <1>1 DEF Generators, Leading, Uniform, Checked
<1>2. CASE c = 2
  BY <1>2 DEF Generators, Leading, Half, Checked
<1>3. CASE c = 3
  BY <1>3 DEF Generators, Leading, Wall, Checked
<1>4. CASE c = 4 \/ c = 6
  <2>1. c # 1 /\ c # 2 /\ c # 3 /\ c # 5
    BY <1>4
  <2>2. Generators[c] = <<Clusters(NPart, <<NPart>>)>>
    BY <2>1 DEF Generators
  <2> QED
    BY <1>4, <2>2 DEF Leading, Clusters, Checked
<1>5. CASE c = 5
  <2>1. Generators[c] = <<Clusters(Quarter, <<Quarter, Quarter>>), Tenth>>
    BY <1>5 DEF Generators, Quarter, Rest, Tenth
  <2>2. Leading(c) = Clusters(Quarter, <<Quarter, Quarter>>)
    BY <2>1 DEF Leading
  <2> HIDE DEF Leading
  <2> QED
    BY <1>5, <2>1, <2>2 DEF Clusters, Checked
<1> QED
  BY <1>1, <1>2, <1>3, <1>4, <1>5

(* The running generator, of a queue that has one.                         *)
LEMMA Runs ==
    ASSUME conf \in Confs, AtFirst \/ AtSecond \/ AtEnd, pc = "draw"
    PROVE  \/ /\ AtFirst
              /\ Running = Leading(conf)
              /\ Tail(queue) = IF conf = 5 THEN <<Tenth>> ELSE <<>>
           \/ /\ AtSecond
              /\ Running = Tenth
              /\ Tail(queue) = <<>>
<1>1. conf \in 1..6
  BY DrawAssumption
<1>2. CASE AtFirst
  <2>1. queue = IF conf = 5 THEN <<Leading(conf), Tenth>>
                            ELSE <<Leading(conf)>>
    BY <1>1, <1>2, Queued DEF AtFirst
  <2> HIDE DEF Leading
  <2>2. Running = Leading(conf)
    BY <2>1 DEF Running
  <2>3. Tail(queue) = IF conf = 5 THEN <<Tenth>> ELSE <<>>
    BY <2>1
  <2> QED
    BY <1>2, <2>2, <2>3
<1>3. CASE AtSecond
  BY <1>3 DEF AtSecond, Running
<1>4. CASE AtEnd
  BY <1>4 DEF AtEnd
<1> QED
  BY <1>2, <1>3, <1>4

LEMMA DrawKind ==
    ASSUME Generation, pc = "draw"
    PROVE  /\ AtFirst =>
                 /\ Running.kind \in IF conf \in Checked
                                     THEN {"half", "clusters"}
                                     ELSE {"uniform", "wall"}
                 /\ conf = 5 => Running.kind = "clusters"
                 /\ Running.n = IF conf = 5 THEN Quarter ELSE NPart
                 /\ Running.kind = "clusters" =>
                        /\ Running.sizes[1] = Running.n
                        /\ 1 <= Len(Running.sizes)
                 /\ Tail(queue) = IF conf = 5 THEN <<Tenth>> ELSE <<>>
           /\ ~AtFirst =>
                 /\ AtSecond
                 /\ conf = 5
                 /\ Running.kind = "half"
                 /\ Running.n = Rest
                 /\ Tail(queue) = <<>>
           /\ Running.n \in Nat
<1>1. conf \in 1..6
  BY DrawAssumption DEF Generation, Kept
<1>2. \/ /\ AtFirst
         /\ Running = Leading(conf)
         /\ Tail(queue) = IF conf = 5 THEN <<Tenth>> ELSE <<>>
      \/ /\ AtSecond
         /\ Running = Tenth
         /\ Tail(queue) = <<>>
  BY Runs DEF Generation, Kept
<1>3. Quarter \in Nat /\ Rest \in Nat /\ NPart \in Nat
  BY Parts, TrialAssumption
<1>4. Tenth.kind = "half" /\ Tenth.n = Rest
  BY DEF Tenth, Half
<1>5. AtSecond => ~AtFirst /\ conf = 5
  <2>1. ASSUME AtSecond, AtFirst PROVE FALSE
    <3>1. queue = <<Leading(5), Tenth>>
      BY <2>1, <1>1, Queued DEF AtFirst, AtSecond
    <3>2. queue = <<Tenth>>
      BY <2>1 DEF AtSecond
    <3> HIDE DEF Leading
    <3> QED
      BY <3>1, <3>2
  <2> QED
    BY <2>1 DEF AtSecond
<1>6. CASE AtFirst
  BY <1>1, <1>2, <1>3, <1>5, <1>6, Queued
<1>7. CASE ~AtFirst
  BY <1>2, <1>3, <1>4, <1>5, <1>7
<1> QED
  BY <1>6, <1>7

(* A square does not depend on the direction.                              *)
LEMMA Symmetric ==
    ASSUME NEW p \in Pos, NEW q \in Pos
    PROVE  Dist2(p, q) = Dist2(q, p)
<1>1. \A d \in Dim : p[d] \in Int /\ q[d] \in Int
  BY DrawAssumption
<1>2. ASSUME NEW a \in Int, NEW b \in Int
      PROVE  (a - b) * (a - b) = (b - a) * (b - a)
  BY SMT
<1>3. \A d \in Dim : (p[d] - q[d]) * (p[d] - q[d])
                        = (q[d] - p[d]) * (q[d] - p[d])
  BY <1>1, <1>2
<1> QED
  BY <1>3 DEF Dist2, Dim

LEMMA StartsSo == Init => Generation /\ Apart
<1> SUFFICES ASSUME Init PROVE Generation /\ Apart
  OBVIOUS
<1>1. Kept
  <2>1. conf \in Confs /\ elements = <<>> /\ trial = 0 /\ gaveUp = FALSE
    BY DEF Init
  <2>2. trial \in 0..MaxTrial
    BY <2>1, TrialAssumption
  <2>3. elements \in Seq(Pos)
    BY <2>1
  <2>4. gaveUp \in BOOLEAN
    BY <2>1, Zenon
  <2> QED
    BY <2>1, <2>2, <2>3, <2>4, Zenon DEF Kept
<1>2. AtFirst
  BY DEF Init, AtFirst
<1>3. Counted
  BY DEF Init, Counted
<1>4. Apart
  BY DEF Init, Apart
<1> QED
  BY <1>1, <1>2, <1>3, <1>4 DEF Generation

LEMMA BeginKeeps ==
    ASSUME Generation, Begin
    PROVE  Generation'
<1>1. /\ pc = "next" /\ queue # <<>>
      /\ before' = Len(elements) /\ cluster' = 1 /\ inside' = 0
      /\ trial' = 0 /\ pc' = "draw"
      /\ conf' = conf /\ queue' = queue /\ elements' = elements
      /\ gaveUp' = gaveUp
  BY DEF Begin
<1>2. Kept'
  BY <1>1, TrialAssumption DEF Generation, Kept
<1>3. (AtFirst /\ elements = <<>> /\ AtFirst') \/ AtSecond'
  BY <1>1 DEF Generation, AtFirst, AtSecond, AtEnd
<1>4. Running' = Running
  BY <1>1 DEF Running
<1>5. Len(elements) \in Nat
  BY DEF Generation, Kept
<1>6. Counted'
  <2>1. Generated' = 0
    BY <1>1, <1>5 DEF Generated
  <2>2. CASE AtFirst /\ elements = <<>> /\ AtFirst'
    <3>1. conf \in 1..6 /\ queue = Generators[conf]
      BY <2>2, DrawAssumption DEF AtFirst, Generation, Kept
    <3>2. Running = Leading(conf)
      <4>1. queue = IF conf = 5 THEN <<Leading(conf), Tenth>>
                                ELSE <<Leading(conf)>>
        BY <3>1, Queued
      <4> HIDE DEF Leading
      <4> QED
        BY <4>1 DEF Running
    <3>3. Running.n \in Nat
      BY <3>1, <3>2, Queued, Parts, TrialAssumption
    <3>4. Len(elements) = 0
      BY <2>2
    <3> QED
      BY <1>1, <1>4, <2>1, <3>3, <3>4 DEF Counted, CountedSo
  <2>3. CASE AtSecond'
    <3>1. Running' = Tenth
      BY <2>3 DEF AtSecond, Running
    <3>2. Tenth.kind = "half" /\ Tenth.n = Rest
      BY DEF Tenth, Half
    <3> QED
      BY <2>1, <3>1, <3>2, Parts DEF Counted
  <2> QED
    BY <1>3, <2>2, <2>3
<1> QED
  BY <1>2, <1>3, <1>6 DEF Generation

(* A particle more in the vector, or a draw rejected, counts as such.      *)
LEMMA DrawInCellsKeeps ==
    ASSUME Generation, Apart, NEW p \in Pos, DrawInCells(p)
    PROVE  Generation' /\ Apart'
<1>1. /\ pc = "draw" /\ Running.kind \in {"uniform", "wall"}
      /\ Generated < Running.n /\ trial < MaxTrial
      /\ conf' = conf /\ queue' = queue /\ before' = before
      /\ gaveUp' = gaveUp /\ pc' \in {"draw", "aborted"}
      /\ \/ trial' = trial + 1 /\ elements' = elements
         \/ trial' = 0 /\ elements' = Append(elements, p)
  BY DEF DrawInCells, Is, Unfinished
<1>2. AtFirst /\ conf \notin Checked
  BY <1>1, DrawKind
<1>3. elements \in Seq(Pos) /\ trial \in 0..MaxTrial
  BY DEF Generation, Kept
<1>4. Kept'
  BY <1>1, <1>3, TrialAssumption DEF Generation, Kept
<1>5. AtFirst'
  BY <1>1, <1>2 DEF AtFirst
<1>6. Counted'
  <2>1. Running' = Running /\ Running.n \in Nat
    BY <1>1, DrawKind DEF Running
  <2>2. before = 0 /\ before' = 0
    BY <1>1, <1>2 DEF AtFirst
  <2>3. Len(elements') \in {Len(elements), Len(elements) + 1}
    BY <1>1, <1>3
  <2>4. Len(elements) \in Nat
    BY <1>3
  <2>5. 0 <= Generated' /\ Generated' <= Running.n
    BY <1>1, <2>1, <2>2, <2>3, <2>4 DEF Generated
  <2>6. Running.kind # "clusters"
    BY <1>1
  <2> QED
    BY <2>1, <2>5, <2>6 DEF Counted
<1>7. Apart'
  BY <1>1, <1>2 DEF Apart, Checked
<1> QED
  BY <1>4, <1>5, <1>6, <1>7 DEF Generation

(* A particle that passed the predicate is apart from all those there.     *)
LEMMA AcceptedIsApart ==
    ASSUME elements \in Seq(Pos), Apart, NEW p \in Pos, Predicate(p),
           elements' = Append(elements, p), conf' = conf
    PROVE  Apart'
<1> SUFFICES ASSUME conf \in {2, 4, 5, 6},
                    NEW k \in DOMAIN elements', NEW m \in DOMAIN elements',
                    k # m
             PROVE  Dist2(elements'[k], elements'[m]) >= MinR2
  BY DEF Apart
<1> DEFINE last == Len(elements) + 1
<1>1. /\ elements'[last] = p
      /\ \A i \in DOMAIN elements' :
            i # last => i \in DOMAIN elements /\ elements'[i] = elements[i]
      /\ \A i \in DOMAIN elements : elements[i] \in Pos
  OBVIOUS
<1>2. \A i \in DOMAIN elements : Dist2(p, elements[i]) >= MinR2
  BY DEF Predicate
<1> HIDE DEF last
<1>3. CASE k # last /\ m # last
  BY <1>1, <1>3 DEF Apart
<1>4. CASE k = last
  BY <1>1, <1>2, <1>4
<1>5. CASE m = last
  <2>1. k \in DOMAIN elements /\ elements'[k] = elements[k]
    BY <1>1, <1>5
  <2>2. Dist2(elements[k], p) = Dist2(p, elements[k])
    BY <1>1, <2>1, Symmetric
  <2> QED
    BY <1>1, <1>2, <1>5, <2>1, <2>2
<1> QED
  BY <1>3, <1>4, <1>5

LEMMA DrawHalfKeeps ==
    ASSUME Generation, Apart, NEW p \in Pos, DrawHalf(p)
    PROVE  Generation' /\ Apart'
<1>1. /\ pc = "draw" /\ Running.kind = "half"
      /\ Generated < Running.n /\ trial < MaxTrial
      /\ conf' = conf /\ queue' = queue /\ before' = before
      /\ gaveUp' = gaveUp /\ pc' = pc
      /\ \/ trial' = trial + 1 /\ elements' = elements
         \/ /\ trial' = 0 /\ elements' = Append(elements, p)
            /\ Predicate(p)
  BY DEF DrawHalf, Is, Unfinished
<1>2. elements \in Seq(Pos) /\ trial \in 0..MaxTrial /\ Len(elements) \in Nat
  BY DEF Generation, Kept
<1>3. Kept'
  BY <1>1, <1>2, TrialAssumption DEF Generation, Kept
<1>4. AtFirst' \/ AtSecond'
  BY <1>1, DrawKind DEF AtFirst, AtSecond
<1>5. Counted'
  <2>1. Running' = Running /\ Running.n \in Nat
    BY <1>1, DrawKind DEF Running
  <2>2. before \in Nat
    BY <1>1, DrawKind, Parts DEF AtFirst, AtSecond
  <2>3. Len(elements') \in {Len(elements), Len(elements) + 1}
    BY <1>1, <1>2
  <2>4. 0 <= Generated
    BY <1>1 DEF Generation, Counted
  <2>5. 0 <= Generated' /\ Generated' <= Running.n
    BY <1>1, <1>2, <2>1, <2>2, <2>3, <2>4 DEF Generated
  <2> QED
    BY <1>1, <2>1, <2>5 DEF Counted
<1>6. Apart'
  <2>1. CASE elements' = elements
    BY <1>1, <2>1 DEF Apart
  <2>2. CASE elements' = Append(elements, p) /\ Predicate(p)
    BY <1>1, <1>2, <2>2, AcceptedIsApart
  <2> QED
    BY <1>1, <2>1, <2>2
<1> QED
  BY <1>3, <1>4, <1>5, <1>6 DEF Generation

(* A generator that did not give up leaves what it was asked for.          *)
LEMMA EndGeneratorKeeps ==
    ASSUME Generation, EndGenerator
    PROVE  Generation'
<1>1. /\ pc = "draw" /\ Running.kind \in {"uniform", "wall", "half"}
      /\ Generated >= Running.n \/ trial = MaxTrial
      /\ gaveUp' = (gaveUp \/ trial = MaxTrial)
      /\ queue' = Tail(queue) /\ pc' = "next"
      /\ conf' = conf /\ elements' = elements /\ before' = before
      /\ trial' = trial
  BY DEF EndGenerator, Is, Over
<1>2. Running.kind # "clusters"
  BY <1>1
<1>3. Kept'
  BY <1>1 DEF Generation, Kept
<1>4. queue' = <<>>
  BY <1>1, <1>2, DrawKind
<1>5. ~gaveUp' => Generated = Running.n
  <2>1. Generated <= Running.n
    BY <1>1, <1>2 DEF Generation, Counted
  <2>2. Generated \in Int /\ Running.n \in Int
    BY <1>1, DrawKind, Parts
       DEF Generated, AtFirst, AtSecond, Generation, Kept
  <2>3. ~gaveUp' => ~(trial = MaxTrial)
    BY <1>1, Zenon
  <2>4. Generated >= Running.n \/ trial = MaxTrial
    BY <1>1
  <2>5. Generated >= Running.n => Generated = Running.n
    BY <2>1, <2>2
  <2> QED
    BY <2>3, <2>4, <2>5, Zenon
<1>6. ~gaveUp' => Len(elements) = Total(conf)
  <2>1. Len(elements) \in Nat
    BY DEF Generation, Kept
  <2>2. CASE AtFirst
    BY <1>1, <1>2, <1>5, <2>1, <2>2, DrawKind
       DEF AtFirst, Generated, Total
  <2>3. CASE ~AtFirst
    <3>1. /\ conf = 5 /\ Running.n = Rest /\ before = Quarter
      BY <1>1, <2>3, DrawKind DEF AtSecond
    <3> QED
      BY <1>5, <2>1, <3>1, Parts DEF Generated, Total
  <2> QED
    BY <2>2, <2>3
<1>7. AtEnd'
  BY <1>1, <1>4, <1>6 DEF AtEnd, Total
<1>8. Counted'
  BY <1>1 DEF Counted
<1> QED
  BY <1>3, <1>7, <1>8 DEF Generation

(* What is known while clusters are generated.                             *)
LEMMA InClusters ==
    ASSUME Generation, Is({"clusters"})
    PROVE  /\ pc = "draw" /\ Running.kind = "clusters"
           /\ AtFirst /\ conf \in Checked
           /\ Tail(queue) = IF conf = 5 THEN <<Tenth>> ELSE <<>>
           /\ Running.n = IF conf = 5 THEN Quarter ELSE NPart
           /\ Running.n \in Nat /\ Running.sizes[1] = Running.n
           /\ 1 <= Len(Running.sizes)
           /\ CountedSo(Running.n, Len(elements))
           /\ elements \in Seq(Pos) /\ Len(elements) \in Nat
<1>1. pc = "draw" /\ Running.kind = "clusters"
  BY DEF Is
<1>2. AtFirst
  BY <1>1, DrawKind
<1>3. conf \in Checked
  BY <1>1, <1>2, DrawKind
<1>4. CountedSo(Running.n, Len(elements))
  BY <1>1 DEF Generation, Counted
<1>5. elements \in Seq(Pos)
  BY DEF Generation, Kept
<1>6. Len(elements) \in Nat
  BY <1>5
<1> QED
  BY <1>1, <1>2, <1>3, <1>4, <1>5, <1>6, DrawKind

(* Steps that leave the vector and the queue, and keep the counts.         *)
LEMMA CountsKept ==
    ASSUME Generation, pc = "draw", Running.kind = "clusters", AtFirst,
           UNCHANGED <<conf, queue, before, gaveUp, pc>>,
           elements' \in Seq(Pos), trial' \in 0..MaxTrial,
           CountedSo(Running.n, Len(elements))'
    PROVE  Generation'
<1>1. Kept' /\ AtFirst'
  BY DEF Generation, Kept, AtFirst
<1>2. Running' = Running
  BY DEF Running
<1>3. Counted'
  BY <1>2 DEF Counted
<1> QED
  BY <1>1, <1>3 DEF Generation

(* The particle is the next one of the first cluster, which has room.      *)
LEMMA PlaceKeeps ==
    ASSUME Generation, Apart, NEW p \in Pos, PlaceInCluster(p)
    PROVE  Generation' /\ Apart'
<1>1. /\ Is({"clusters"})
      /\ Len(elements) < Running.n /\ Predicate(p)
      /\ trial' = 0 /\ elements' = Append(elements, p)
      /\ inside' = inside + 1 /\ cluster' = cluster
      /\ UNCHANGED <<conf, queue, before, gaveUp, pc>>
  BY DEF PlaceInCluster, ClusterOpen, MoreClusters
<1>2. /\ pc = "draw" /\ Running.kind = "clusters" /\ AtFirst
      /\ Running.n \in Nat
      /\ CountedSo(Running.n, Len(elements))
      /\ elements \in Seq(Pos) /\ Len(elements) \in Nat
  BY <1>1, InClusters
<1>3. Running' = Running
  BY <1>1 DEF Running
<1>4. elements' \in Seq(Pos) /\ Len(elements') = Len(elements) + 1
  BY <1>1, <1>2
<1>5. trial' \in 0..MaxTrial
  BY <1>1, TrialAssumption
<1>6. CountedSo(Running.n, Len(elements))'
  BY <1>1, <1>2, <1>3, <1>4 DEF CountedSo
<1>7. Generation'
  BY <1>1, <1>2, <1>4, <1>5, <1>6, CountsKept
<1>8. Apart'
  BY <1>1, <1>2, AcceptedIsApart
<1> QED
  BY <1>7, <1>8

LEMMA RejectKeeps ==
    ASSUME Generation, NEW p \in Pos, RejectInCluster(p)
    PROVE  Generation'
<1>1. /\ Is({"clusters"}) /\ trial < MaxTrial
      /\ trial' = trial + 1 /\ elements' = elements
      /\ inside' = inside /\ cluster' = cluster
      /\ UNCHANGED <<conf, queue, before, gaveUp, pc>>
  BY DEF RejectInCluster, ClusterOpen
<1>2. trial \in 0..MaxTrial
  BY DEF Generation, Kept
<1>3. trial' \in 0..MaxTrial
  BY <1>1, <1>2, TrialAssumption
<1>4. /\ pc = "draw" /\ Running.kind = "clusters" /\ AtFirst
      /\ CountedSo(Running.n, Len(elements)) /\ elements \in Seq(Pos)
  BY <1>1, InClusters
<1>5. CountedSo(Running.n, Len(elements))'
  BY <1>1, <1>4 DEF CountedSo, Running
<1> QED
  BY <1>1, <1>3, <1>4, <1>5, CountsKept

LEMMA GrowKeeps ==
    ASSUME Generation, GrowSphere
    PROVE  Generation'
<1>1. /\ Is({"clusters"})
      /\ trial' = 0 /\ elements' = elements
      /\ inside' = inside /\ cluster' = cluster
      /\ UNCHANGED <<conf, queue, before, gaveUp, pc>>
  BY DEF GrowSphere
<1>2. trial' \in 0..MaxTrial
  BY <1>1, TrialAssumption
<1>3. /\ pc = "draw" /\ Running.kind = "clusters" /\ AtFirst
      /\ CountedSo(Running.n, Len(elements)) /\ elements \in Seq(Pos)
  BY <1>1, InClusters
<1>4. CountedSo(Running.n, Len(elements))'
  BY <1>1, <1>3 DEF CountedSo, Running
<1> QED
  BY <1>1, <1>2, <1>3, <1>4, CountsKept

(* Only the first cluster is left with particles in it, when it is full.   *)
LEMMA NextClusterKeeps ==
    ASSUME Generation, NextCluster
    PROVE  Generation'
<1>1. /\ Is({"clusters"})
      /\ MoreClusters \/ inside > 0
      /\ ~(MoreClusters /\ inside < Running.sizes[cluster])
      /\ trial' = 0 /\ elements' = elements
      /\ inside' = 0 /\ cluster' = cluster + 1
      /\ UNCHANGED <<conf, queue, before, gaveUp, pc>>
  BY DEF NextCluster, InCluster, ClusterOpen
<1>2. trial' \in 0..MaxTrial
  BY <1>1, TrialAssumption
<1>3. /\ pc = "draw" /\ Running.kind = "clusters" /\ AtFirst
      /\ Running.n \in Nat /\ Running.sizes[1] = Running.n
      /\ 1 <= Len(Running.sizes)
      /\ CountedSo(Running.n, Len(elements))
      /\ elements \in Seq(Pos) /\ Len(elements) \in Nat
  BY <1>1, InClusters
<1>4. cluster = 1 /\ inside = Len(elements) /\ Len(elements) = Running.n
  <2>1. CASE cluster = 2 /\ inside = 0 /\ Len(elements) = Running.n
    BY <1>1, <1>3, <2>1 DEF MoreClusters
  <2>2. CASE cluster = 1 /\ inside = Len(elements) /\ Len(elements) <= Running.n
    BY <1>1, <1>3, <2>2 DEF MoreClusters
  <2> QED
    BY <1>3, <2>1, <2>2 DEF CountedSo
<1>5. CountedSo(Running.n, Len(elements))'
  BY <1>1, <1>4 DEF CountedSo, Running
<1> QED
  BY <1>1, <1>2, <1>3, <1>5, CountsKept

(* The generator ends with as many as it was asked for.                    *)
LEMMA EndClustersKeeps ==
    ASSUME Generation, EndClusters
    PROVE  Generation'
<1>1. /\ Is({"clusters"}) /\ ~MoreClusters /\ ~(inside > 0)
      /\ queue' = Tail(queue) /\ pc' = "next"
      /\ UNCHANGED <<conf, elements, trial, gaveUp>>
  BY DEF EndClusters, InCluster
<1>2. /\ AtFirst
      /\ Tail(queue) = IF conf = 5 THEN <<Tenth>> ELSE <<>>
      /\ Running.n = IF conf = 5 THEN Quarter ELSE NPart
      /\ Running.n \in Nat /\ 1 <= Len(Running.sizes)
      /\ CountedSo(Running.n, Len(elements))
      /\ Len(elements) \in Nat
  BY <1>1, InClusters
<1>3. Len(elements) = Running.n
  <2>1. CASE cluster = 1 /\ inside = Len(elements) /\ Len(elements) <= Running.n
    BY <1>1, <1>2, <2>1 DEF MoreClusters
  <2> QED
    BY <1>2, <2>1 DEF CountedSo
<1>4. Kept'
  BY <1>1 DEF Generation, Kept
<1>5. AtSecond' \/ AtEnd'
  BY <1>1, <1>2, <1>3 DEF AtSecond, AtEnd, Total
<1>6. Counted'
  BY <1>1 DEF Counted
<1> QED
  BY <1>4, <1>5, <1>6 DEF Generation

LEMMA FinishKeeps ==
    ASSUME Generation, Finish
    PROVE  Generation'
<1>1. /\ pc = "next" /\ queue = <<>> /\ pc' = "done"
      /\ UNCHANGED <<conf, queue, elements, before, trial, gaveUp>>
  BY DEF Finish
<1>2. Kept'
  BY <1>1 DEF Generation, Kept
<1>3. AtEnd
  <2>1. conf \in 1..6
    BY DrawAssumption DEF Generation, Kept
  <2>2. ~AtFirst
    <3>1. Generators[conf] = IF conf = 5 THEN <<Leading(conf), Tenth>>
                                         ELSE <<Leading(conf)>>
      BY <2>1, Queued
    <3> HIDE DEF Leading
    <3> QED
      BY <1>1, <3>1 DEF AtFirst
  <2> QED
    BY <1>1, <2>2 DEF Generation, AtSecond
<1>4. AtEnd'
  BY <1>1, <1>3 DEF AtEnd
<1>5. Counted'
  BY <1>1 DEF Counted
<1> QED
  BY <1>2, <1>4, <1>5 DEF Generation

(* Whatever is drawn, the vector holds what the generators run so far were *)
(* asked for, and the running one has no more than its number.             *)
LEMMA AlwaysGeneration == Spec => [](Generation /\ Apart)
<1>1. Init => Generation /\ Apart
  BY StartsSo
<1>2. Generation /\ Apart /\ [Next]_vars => (Generation /\ Apart)'
  <2> SUFFICES ASSUME Generation, Apart, [Next]_vars
               PROVE  Generation' /\ Apart'
    OBVIOUS
  <2>1. CASE Begin
    <3>1. Apart'
      BY <2>1 DEF Apart, Begin
    <3> QED
      BY <2>1, <3>1, BeginKeeps
  <2>2. CASE EndGenerator
    <3>1. Apart'
      BY <2>2 DEF Apart, EndGenerator
    <3> QED
      BY <2>2, <3>1, EndGeneratorKeeps
  <2>3. CASE GrowSphere
    <3>1. Apart'
      BY <2>3 DEF Apart, GrowSphere
    <3> QED
      BY <2>3, <3>1, GrowKeeps
  <2>4. CASE NextCluster
    <3>1. Apart'
      BY <2>4 DEF Apart, NextCluster
    <3> QED
      BY <2>4, <3>1, NextClusterKeeps
  <2>5. CASE EndClusters
    <3>1. Apart'
      BY <2>5 DEF Apart, EndClusters
    <3> QED
      BY <2>5, <3>1, EndClustersKeeps
  <2>6. CASE Finish
    <3>1. Apart'
      BY <2>6 DEF Apart, Finish
    <3> QED
      BY <2>6, <3>1, FinishKeeps
  <2>7. ASSUME NEW p \in Pos, DrawInCells(p)
        PROVE  Generation' /\ Apart'
    BY <2>7, DrawInCellsKeeps
  <2>8. ASSUME NEW p \in Pos, DrawHalf(p)
        PROVE  Generation' /\ Apart'
    BY <2>8, DrawHalfKeeps
  <2>9. ASSUME NEW p \in Pos, PlaceInCluster(p)
        PROVE  Generation' /\ Apart'
    BY <2>9, PlaceKeeps
  <2>10. ASSUME NEW p \in Pos, RejectInCluster(p)
         PROVE  Generation' /\ Apart'
    <3>1. Apart'
      BY <2>10 DEF Apart, RejectInCluster
    <3> QED
      BY <2>10, <3>1, RejectKeeps
  <2>11. CASE UNCHANGED vars
    <3>1. Apart'
      BY <2>11 DEF Apart, vars
    <3>2. Generation'
      BY <2>11
         DEF Generation, Kept, AtFirst, AtSecond, AtEnd, Counted, CountedSo,
             Running, Generated, vars
    <3> QED
      BY <3>1, <3>2
  <2>12. CASE Step
    BY <2>1, <2>2, <2>3, <2>4, <2>5, <2>6, <2>7, <2>8, <2>9, <2>10, <2>12
       DEF Step
  <2> QED
    BY <2>11, <2>12 DEF Next, Stopped
<1> QED
  BY <1>1, <1>2, PTL DEF Spec

(* RejectionCondition keeps the particles of all generators apart that ask *)
(* it, those of an earlier generator included, wherever they were drawn.   *)
THEOREM GeneratedApart == Spec => []Apart
BY AlwaysGeneration, PTL

(* When no generator gave up, there are as many particles as were asked    *)
(* for: the one that counts the vector only ever starts on an empty one.   *)
THEOREM AllGenerated == Spec => []AsManyAsAsked
<1>1. Generation => AsManyAsAsked
  <2> SUFFICES ASSUME Generation, pc = "done", ~gaveUp,
                      conf = 5 => NPart % 4 = 0
               PROVE  Len(elements) = NPart
    BY DEF AsManyAsAsked
  <2>1. Len(elements) = Total(conf)
    BY DEF Generation, AtFirst, AtSecond, AtEnd
  <2>2. conf = 5 => Quarter + Rest = NPart
    BY TrialAssumption DEF Quarter, Rest
  <2> QED
    BY <2>1, <2>2 DEF Total
<1> QED
  BY <1>1, AlwaysGeneration, PTL
=============================================================================
