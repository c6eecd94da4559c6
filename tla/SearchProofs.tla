---------------------------- MODULE SearchProofs ----------------------------
(***************************************************************************)
(* What the search of BranchAndBound finds and what it drops, for every    *)
(* number of frames and iterations per frame and whatever is measured.     *)
(***************************************************************************)
EXTENDS BranchAndBound, SumProofs

LEMMA Params ==
    /\ NFrames \in Nat /\ NFrames >= 1
    /\ NPFrame \in Nat /\ NPFrame >= 1
    /\ NbIterations \in Nat
    /\ NbBestPath \in Nat /\ NbBestPath >= 1
BY ParamsAssumption DEF NbIterations

-----------------------------------------------------------------------------
(***************************************************************************)
(* Frames and their iterations.                                            *)
(***************************************************************************)
LEMMA FrameAndRest ==
    ASSUME NEW f \in Nat, NEW j \in 0..(NPFrame - 1)
    PROVE  /\ (f * NPFrame + j) \div NPFrame = f
           /\ (f * NPFrame + j) % NPFrame = j
BY Params, Division

LEMMA Earlier ==
    ASSUME NEW f \in Int, NEW g \in Int
    PROVE  /\ f <= g => f * NPFrame <= g * NPFrame
           /\ f < g => f * NPFrame + NPFrame <= g * NPFrame
           /\ f * NPFrame = g * NPFrame => f = g
           /\ (f + 1) * NPFrame = f * NPFrame + NPFrame
           /\ f * NPFrame \in Int
BY Params, Products

(* A path through the tree, as far as its last frame.                      *)
Path == {p \in Seq(Decision) : Len(p) >= 1 /\ Len(p) <= NFrames + 1}

LEMMA PathIts ==
    ASSUME NEW p \in Path
    PROVE  /\ Len(p) \in Nat
           /\ StartIt(p) = (Len(p) - 2) * NPFrame
           /\ EndIt(p) = (Len(p) - 1) * NPFrame
           /\ StartIt(p) \in Int
           /\ EndIt(p) \in 0..NbIterations
           /\ IsFinal(p) <=> Len(p) = NFrames + 1
           /\ IsYes(p) <=> DecisionOf(p) = "yes" /\ Len(p) >= 3
           /\ Len(p) >= 2 => FrameOf(p) = Len(p) - 2
<1>1. Len(p) \in Nat /\ Len(p) >= 1 /\ Len(p) <= NFrames + 1
  BY DEF Path
<1> DEFINE n == Len(p)
<1> HIDE DEF n
<1>2. n \in Nat /\ n >= 1 /\ n <= NFrames + 1
  BY <1>1 DEF n
<1>3. /\ (n - 2) * NPFrame \in Int
      /\ (n - 1) * NPFrame = (n - 2) * NPFrame + NPFrame
  <2>1. n - 2 \in Int /\ (n - 2) + 1 = n - 1
    BY <1>2
  <2> QED
    BY <2>1, Earlier
<1>4. /\ 0 * NPFrame = 0
      /\ 0 * NPFrame <= (n - 1) * NPFrame
      /\ (n - 1) * NPFrame <= NFrames * NPFrame
      /\ n - 1 < NFrames => (n - 1) * NPFrame + NPFrame <= NFrames * NPFrame
      /\ n - 2 <= 0 => (n - 2) * NPFrame <= 0 * NPFrame
      /\ 0 < n - 2 => 0 * NPFrame + NPFrame <= (n - 2) * NPFrame
      /\ n - 1 = NFrames => (n - 1) * NPFrame = NFrames * NPFrame
  <2>1. n - 2 \in Int /\ n - 1 \in Int /\ NFrames \in Int /\ 0 \in Int
        /\ 0 <= n - 1 /\ n - 1 <= NFrames
    BY <1>2, Params
  <2>2. 0 * NPFrame = 0
    BY Params
  <2> QED
    BY <2>1, <2>2, Earlier
<1>5. StartIt(p) = (n - 2) * NPFrame /\ EndIt(p) = (n - 1) * NPFrame
  BY <1>3 DEF StartIt, EndIt, n
<1>6. EndIt(p) \in 0..NbIterations
  BY <1>3, <1>4, <1>5, Params DEF NbIterations
<1>7. IsFinal(p) <=> n = NFrames + 1
  BY <1>2, <1>3, <1>4, <1>5, Params DEF NbIterations, IsFinal
<1>8. StartIt(p) > 0 <=> n >= 3
  BY <1>2, <1>3, <1>4, <1>5, Params
<1>9. n >= 2 => FrameOf(p) = n - 2
  <2> SUFFICES ASSUME n >= 2 PROVE FrameOf(p) = n - 2
    OBVIOUS
  <2>1. n - 2 \in Nat /\ 0 \in 0..(NPFrame - 1)
    BY <1>2, Params
  <2>2. ((n - 2) * NPFrame + 0) \div NPFrame = n - 2
    BY <2>1, FrameAndRest
  <2>3. (n - 2) * NPFrame + 0 = (n - 2) * NPFrame
    BY <1>3
  <2> QED
    BY <1>5, <2>2, <2>3 DEF FrameOf
<1> QED
  BY <1>2, <1>3, <1>5, <1>6, <1>7, <1>8, <1>9 DEF IsYes, n

LEMMA ChildPath ==
    ASSUME NEW p \in Path, ~IsFinal(p), NEW x \in Decision
    PROVE  /\ Append(p, x) \in Path
           /\ Len(Append(p, x)) = Len(p) + 1
           /\ Parent(Append(p, x)) = p
           /\ DecisionOf(Append(p, x)) = x
           /\ StartIt(Append(p, x)) = EndIt(p)
           /\ FrameOf(Append(p, x)) = Len(p) - 1
           /\ EndIt(Append(p, x)) = EndIt(p) + NPFrame
<1>1. /\ p \in Seq(Decision) /\ Len(p) \in Nat
      /\ Len(p) >= 1 /\ Len(p) < NFrames + 1
  BY PathIts, Params DEF Path
<1>2. Append(p, x) \in Seq(Decision) /\ Len(Append(p, x)) = Len(p) + 1
  BY <1>1
<1>3. Append(p, x) \in Path
  BY <1>1, <1>2, Params DEF Path
<1>4. Parent(Append(p, x)) = p /\ DecisionOf(Append(p, x)) = x
  BY <1>1, <1>2 DEF Parent, DecisionOf, Front, Last
<1>5. /\ StartIt(Append(p, x)) = ((Len(p) + 1) - 2) * NPFrame
      /\ EndIt(p) = (Len(p) - 1) * NPFrame
      /\ FrameOf(Append(p, x)) = (Len(p) + 1) - 2
  <2> DEFINE c == Append(p, x)
  <2>1. c \in Path /\ Len(c) = Len(p) + 1
    BY <1>2, <1>3
  <2> HIDE DEF c
  <2>2. /\ StartIt(c) = (Len(c) - 2) * NPFrame
        /\ Len(c) >= 2 => FrameOf(c) = Len(c) - 2
    BY <2>1, PathIts
  <2>3. EndIt(p) = (Len(p) - 1) * NPFrame
    BY PathIts
  <2> QED
    BY <1>1, <2>1, <2>2, <2>3 DEF c
<1>6. (Len(p) + 1) - 2 = Len(p) - 1
  BY <1>1
<1>7. EndIt(Append(p, x)) = StartIt(Append(p, x)) + NPFrame
  BY DEF EndIt
<1> QED
  BY <1>2, <1>3, <1>4, <1>5, <1>6, <1>7

LEMMA EveryIt ==
    ASSUME NEW i \in It
    PROVE  \E f \in 0..(NFrames - 1) : \E j \in 0..(NPFrame - 1) :
              i = f * NPFrame + j
<1>1. i \in Nat /\ i < NFrames * NPFrame
  BY Params DEF It, NbIterations
<1>2. ASSUME NEW n \in Nat, n >= 1
      PROVE  /\ i \div n \in Nat /\ i % n \in 0..(n - 1)
             /\ i = (i \div n) * n + (i % n)
  BY <1>1, <1>2
<1> DEFINE f == i \div NPFrame
           j == i % NPFrame
<1>3. f \in Nat /\ j \in 0..(NPFrame - 1) /\ i = f * NPFrame + j
  BY <1>2, Params
<1> HIDE DEF f, j
<1>4. f < NFrames
  <2>1. f \in Int /\ NFrames \in Int
        /\ (NFrames <= f => NFrames * NPFrame <= f * NPFrame)
        /\ f * NPFrame \in Int /\ NFrames * NPFrame \in Int
    BY <1>3, Params, Earlier
  <2>2. f * NPFrame <= i
    BY <1>1, <1>3, <2>1
  <2> QED
    BY <1>1, <2>1, <2>2, <1>3, Params
<1>5. f \in 0..(NFrames - 1)
  BY <1>3, <1>4, Params
<1> QED
  BY <1>3, <1>5

LEMMA ItOf ==
    ASSUME NEW f \in 0..(NFrames - 1), NEW j \in 0..(NPFrame - 1)
    PROVE  f * NPFrame + j \in It /\ f * NPFrame \in It
<1>1. /\ f \in Int /\ NFrames \in Int /\ 0 \in Int /\ 0 <= f /\ f < NFrames
      /\ 0 * NPFrame = 0
  BY Params
<1>2. /\ 0 * NPFrame <= f * NPFrame
      /\ f * NPFrame + NPFrame <= NFrames * NPFrame
      /\ f * NPFrame \in Int /\ NFrames * NPFrame \in Int
  BY <1>1, Earlier
<1> QED
  BY <1>1, <1>2, Params DEF It, NbIterations

(* Paths are of the same frame if they are as long.                        *)
LEMMA SameFrame ==
    ASSUME NEW p \in Path, NEW q \in Path
    PROVE  /\ StartIt(p) = StartIt(q) <=> Len(p) = Len(q)
           /\ EndIt(p) = StartIt(q) <=> Len(q) = Len(p) + 1
           /\ IsYes(p) => FrameOf(p) = Len(p) - 2 /\ FrameOf(p) \in 0..NFrames
<1> DEFINE a == Len(p) - 2
           b == Len(q) - 2
           e == Len(p) - 1
<1>1. /\ Len(p) \in Nat /\ Len(q) \in Nat /\ Len(p) >= 1
      /\ Len(p) <= NFrames + 1
      /\ StartIt(p) = a * NPFrame /\ StartIt(q) = b * NPFrame
      /\ EndIt(p) = e * NPFrame
      /\ IsYes(p) => Len(p) >= 3
      /\ Len(p) >= 2 => FrameOf(p) = Len(p) - 2
  BY PathIts DEF Path
<1>2. a \in Int /\ b \in Int /\ e \in Int
  BY <1>1
<1>3. IsYes(p) => FrameOf(p) = Len(p) - 2 /\ FrameOf(p) \in 0..NFrames
  BY <1>1, Params
<1>4. /\ a = b <=> Len(p) = Len(q)
      /\ e = b <=> Len(q) = Len(p) + 1
  BY <1>1
<1> HIDE DEF a, b, e
<1>5. /\ a * NPFrame = b * NPFrame <=> a = b
      /\ e * NPFrame = b * NPFrame <=> e = b
  BY <1>2, Earlier
<1> QED
  BY <1>1, <1>3, <1>4, <1>5

LEMMA Appended ==
    ASSUME NEW p \in Path, NEW q \in Path, NEW x, NEW y,
           Append(p, x) = Append(q, y)
    PROVE  p = q /\ x = y
<1>1. p \in Seq(Decision) /\ q \in Seq(Decision)
  BY DEF Path
<1>2. Len(p) \in Nat /\ Len(q) \in Nat
  BY <1>1
<1>3. /\ Len(Append(p, x)) = Len(p) + 1 /\ Len(Append(q, y)) = Len(q) + 1
      /\ \A k \in 1..Len(p) : Append(p, x)[k] = p[k]
      /\ \A k \in 1..Len(q) : Append(q, y)[k] = q[k]
      /\ Append(p, x)[Len(p) + 1] = x /\ Append(q, y)[Len(q) + 1] = y
  BY <1>1
<1>4. Len(p) = Len(q)
  BY <1>2, <1>3
<1>5. \A k \in 1..Len(p) : p[k] = q[k]
  BY <1>3, <1>4
<1>6. p = q
  BY <1>1, <1>4, <1>5
<1> QED
  BY <1>3, <1>4, <1>6

-----------------------------------------------------------------------------
(***************************************************************************)
(* The inductive invariant.                                                *)
(***************************************************************************)

(* The tree: with a node its parent, and no load balancing in the first    *)
(* frame.                                                                  *)
Tree ==
    /\ DOMAIN node \subseteq Path
    /\ Root \in DOMAIN node
    /\ \A p \in DOMAIN node :
          /\ node[p].cost \in Nat
          /\ Len(p) >= 2 => p[2] = "no" /\ Parent(p) \in DOMAIN node

(* Where the while loop is.                                                *)
Place ==
    /\ queue \subseteq DOMAIN node
    /\ foundYes \in [0..NFrames -> BOOLEAN]
    /\ current = <<>> => todo = <<>> /\ solutions = <<>> /\ queue # {}
    /\ current # <<>> =>
          /\ current \in DOMAIN node /\ current \notin queue
          /\ IF IsFinal(current) THEN todo = <<>> /\ solutions = <<current>>
             ELSE /\ solutions = <<>>
                  /\ \/ todo = Children(current)
                     \/ todo = <<Append(current, "no")>>
                     \/ todo = <<>> /\ Append(current, "no") \in queue

(* A child is to be looked at.                                             *)
Awaits(z, s) == \E k \in DOMAIN s : s[k] = z

(* What is to be computed was not computed yet.                            *)
Fresh ==
    /\ \A q \in queue : \A x \in Decision : Append(q, x) \notin DOMAIN node
    /\ \A z : Awaits(z, todo) => z \notin DOMAIN node

(* Whatever was expanded costs no more than what is to be expanded.        *)
Fringe ==
    \A e \in DOMAIN node : Expanded(e) =>
        /\ \A q \in queue : node[e].cost <= node[q].cost
        /\ current # <<>> => node[e].cost <= node[current].cost

(* The Yes node that closed the frame of paths as long as n.               *)
Closer(e, n) ==
    e \in DOMAIN node /\ Expanded(e) /\ IsYes(e) /\ Len(e) = n

(* A frame is closed by one Yes node and has none left in the queue.       *)
Closed ==
    /\ \A q \in queue : IsYes(q) => ~foundYes[FrameOf(q)]
    /\ \A f \in 0..NFrames : foundYes[f] => \E e : Closer(e, f + 2)
    /\ \A e, n : Closer(e, n) => foundYes[FrameOf(e)]
    /\ \A e, h, n : Closer(e, n) /\ Closer(h, n) => e = h

(* The node p or what would follow it was given up, for no better.         *)
Lost(p, n) == \E e : Closer(e, n) /\ e # p /\ node[e].cost <= node[p].cost

(* Every node is to be expanded, was expanded or is given up; what follows *)
(* an expanded one was computed, is to be computed or is given up.         *)
Settled ==
    \A p \in DOMAIN node :
        /\ p \in queue \/ Expanded(p) \/ (IsYes(p) /\ Lost(p, Len(p)))
        /\ Expanded(p) /\ ~IsFinal(p) =>
              \A x \in Decision : (Len(p) = 1 => x = "no") =>
                  \/ Append(p, x) \in DOMAIN node
                  \/ Awaits(Append(p, x), todo)
                  \/ x = "yes" /\ Lost(p, Len(p) + 1)

(* Every frame that a node comes after was saved, as itself.               *)
Saved ==
    /\ DOMAIN rollback = 0..NFrames
    /\ \A f \in 0..NFrames : rollback[f] \in {NoData, f}
    /\ \A p \in DOMAIN node : \A f \in 0..(NFrames - 1) :
          f <= Len(p) - 1 => rollback[f] # NoData

(* Frames are written when the search is over.                             *)
Written ==
    /\ recvBuf \in Int
    /\ recorded \in Seq(Int) /\ Len(recorded) <= NFrames + 1
    /\ recorded # <<>> => Done
    /\ \A k \in DOMAIN recorded : k <= NFrames => recorded[k] = k - 1

SInv ==
    /\ Tree
    /\ Place
    /\ Fresh
    /\ Fringe
    /\ Closed
    /\ Settled
    /\ Saved
    /\ Written

-----------------------------------------------------------------------------
(***************************************************************************)
(* What the steps keep.                                                    *)
(***************************************************************************)
(* The time of a batch only grows, and holds that of load balancing.       *)
LEMMA ElapsedIs ==
    ASSUME NEW p, NEW t \in BatchTimes, NEW l \in LBTimes
    PROVE  /\ l \in Nat
           /\ \A k \in 1..NPFrame :
                 /\ Elapsed(p, t, l, k) \in Nat
                 /\ DecisionOf(p) = "yes" => Elapsed(p, t, l, k) >= l
           /\ \A a, b \in 1..NPFrame :
                 a <= b => Elapsed(p, t, l, a) <= Elapsed(p, t, l, b)
<1>1. t \in [1..NPFrame -> Nat] /\ l \in Nat
  BY TimesAssumption
<1>2. \A k \in 0..NPFrame : Totals(t, NPFrame)[k] \in Nat
  BY <1>1, Params, TotalsNat
<1>3. \A a, b \in 0..NPFrame :
         a <= b => Totals(t, NPFrame)[a] <= Totals(t, NPFrame)[b]
  BY <1>1, Params, TotalsGrow
<1>4. 1..NPFrame \subseteq 0..NPFrame
  BY Params
<1> QED
  BY <1>1, <1>2, <1>3, <1>4 DEF Elapsed

(* A child costs no less than its parent.                                  *)
LEMMA ChildCost ==
    ASSUME NEW p, node[Parent(p)].cost \in Nat,
           NEW t \in BatchTimes, NEW l \in LBTimes
    PROVE  /\ Computed(p, t, l).cost \in Nat
           /\ node[Parent(p)].cost <= Computed(p, t, l).cost
<1>1. Elapsed(p, t, l, NPFrame) \in Nat
  <2>1. NPFrame \in 1..NPFrame
    BY Params
  <2> QED
    BY <2>1, ElapsedIs
<1>2. Computed(p, t, l).cost = node[Parent(p)].cost + Elapsed(p, t, l, NPFrame)
  BY DEF Computed
<1> QED
  BY <1>1, <1>2

LEMMA RootIs ==
    /\ Root \in Path /\ Len(Root) = 1 /\ Root # <<>>
    /\ StartIt(Root) < 0 /\ EndIt(Root) = 0 /\ DecisionOf(Root) = "yes"
    /\ ~IsYes(Root) /\ ~IsFinal(Root)
<1>1. Root \in Seq(Decision) /\ Len(Root) = 1 /\ Root # <<>>
      /\ DecisionOf(Root) = "yes"
  BY DEF Root, Decision, DecisionOf, Last
<1>2. Root \in Path
  <2>1. 1 >= 1 /\ 1 <= NFrames + 1
    BY Params
  <2> QED
    BY <1>1, <2>1 DEF Path
<1>3. StartIt(Root) = (1 - 2) * NPFrame /\ EndIt(Root) = (1 - 1) * NPFrame
      /\ (IsYes(Root) => Len(Root) >= 3)
      /\ (IsFinal(Root) => Len(Root) = NFrames + 1)
  BY <1>1, <1>2, PathIts
<1>4. (1 - 2) * NPFrame < 0 /\ (1 - 1) * NPFrame = 0
  BY Params
<1> QED
  BY <1>1, <1>2, <1>3, <1>4, Params

(* What follows a path is no shorter than two and has it as its parent.    *)
LEMMA After ==
    ASSUME NEW p \in Path, NEW x \in Decision
    PROVE  /\ Append(p, x) # p /\ Append(p, x) # <<>>
           /\ Append(p, x) # Root
           /\ Len(Append(p, x)) = Len(p) + 1 /\ Len(p) + 1 >= 2
           /\ Parent(Append(p, x)) = p /\ DecisionOf(Append(p, x)) = x
<1>1. p \in Seq(Decision) /\ Len(p) \in Nat /\ Len(p) >= 1
  BY DEF Path
<1>2. Len(Append(p, x)) = Len(p) + 1
  BY <1>1
<1>3. Parent(Append(p, x)) = p /\ DecisionOf(Append(p, x)) = x
  BY <1>1, <1>2 DEF Parent, DecisionOf, Front, Last
<1>4. Len(Root) = 1 /\ Len(<<>>) = 0
  BY RootIs
<1> QED
  BY <1>1, <1>2, <1>3, <1>4

LEMMA InitSInv ==
    ASSUME Init
    PROVE  SInv
<1>1. /\ DOMAIN node = {Root} /\ node[Root] = RootNode
      /\ node[Root].cost = 0 /\ queue = {Root} /\ current = <<>>
      /\ todo = <<>> /\ solutions = <<>>
      /\ foundYes = [f \in 0..NFrames |-> FALSE]
  BY DEF Init, RootNode
<1>2. \A x \in Decision : Append(Root, x) \notin DOMAIN node
  BY <1>1, RootIs, After
<1>3. ~Expanded(Root) /\ \A p \in DOMAIN node : p = Root
  BY <1>1, <1>2, RootIs DEF Expanded, Decision
<1>4. \A e, n : ~Closer(e, n)
  BY <1>3 DEF Closer
<1>5. Tree
  <2>1. ASSUME NEW p \in DOMAIN node
        PROVE  node[p].cost \in Nat /\ ~(Len(p) >= 2)
    <3>1. p = Root
      BY <1>1
    <3>2. node[Root].cost \in Nat /\ ~(Len(Root) >= 2)
      BY <1>1, RootIs
    <3> QED
      BY <3>1, <3>2
  <2> QED
    BY <1>1, <2>1, RootIs DEF Tree
<1>6. Place
  BY <1>1, RootIs DEF Place
<1>7. Fresh
  BY <1>1, <1>2 DEF Fresh, Awaits
<1>8. Fringe
  BY <1>3 DEF Fringe
<1>9. Closed
  <2>1. \A f \in 0..NFrames : ~foundYes[f]
    BY <1>1
  <2> QED
    BY <1>1, <1>4, <2>1, RootIs DEF Closed
<1>10. Settled
  BY <1>1, <1>3 DEF Settled
<1>11. Saved
  <2>1. /\ DOMAIN rollback = 0..NFrames
        /\ \A f \in 0..NFrames : rollback[f] = IF f = 0 THEN 0 ELSE NoData
    BY DEF Init
  <2>2. \A f \in 0..(NFrames - 1) : f <= 1 - 1 => rollback[f] # NoData
    BY <2>1, Params DEF NoData
  <2> QED
    BY <1>1, <2>1, <2>2, RootIs DEF Saved
<1>12. Written
  BY Params DEF Written, Init
<1> QED
  BY <1>5, <1>6, <1>7, <1>8, <1>9, <1>10, <1>11, <1>12 DEF SInv

LEMMA RecordFrameKeeps ==
    ASSUME SInv, RecordFrame \/ UNCHANGED vars
    PROVE  SInv'
<1>1. /\ node' = node /\ queue' = queue
      /\ current' = current /\ todo' = todo /\ foundYes' = foundYes
      /\ rollback' = rollback /\ solutions' = solutions
  BY DEF RecordFrame, vars, search
<1>2. /\ \A p : Expanded(p)' <=> Expanded(p)
      /\ \A e, n : Closer(e, n)' <=> Closer(e, n)
  BY <1>1 DEF Expanded, Closer
<1>3. \A p, n : Lost(p, n)' <=> Lost(p, n)
  BY <1>1, <1>2 DEF Lost
<1>4. Tree' /\ Place' /\ Fresh' /\ Saved'
  BY <1>1 DEF SInv, Tree, Place, Fresh, Saved
<1>5. Fringe' /\ Closed'
  BY <1>1, <1>2 DEF SInv, Fringe, Closed
<1>6. Settled'
  BY <1>1, <1>2, <1>3 DEF SInv, Settled
<1>8. Written'
  <2>1. CASE UNCHANGED vars
    BY <2>1 DEF SInv, Written, Done, vars, search
  <2>2. CASE RecordFrame
    <3> DEFINE f == Len(recorded)
    <3>1. /\ current # <<>> /\ IsFinal(current) /\ f < NFrames + 1
          /\ recvBuf' = (IF rollback[f] = NoData THEN recvBuf ELSE rollback[f])
          /\ recorded' = Append(recorded, recvBuf')
      BY <2>2 DEF RecordFrame, Done
    <3>2. /\ recorded \in Seq(Int) /\ f \in 0..NFrames
          /\ \A k \in 1..f : k <= NFrames => recorded[k] = k - 1
      BY <3>1, Params DEF SInv, Written
    <3>3. f < NFrames => recvBuf' = f
      <4>1. current \in DOMAIN node /\ current \in Path
        BY <3>1 DEF SInv, Place, Tree
      <4>2. Len(current) = NFrames + 1
        BY <3>1, <4>1, PathIts
      <4>3. \A g \in 0..(NFrames - 1) : rollback[g] # NoData
        BY <4>1, <4>2, Params DEF SInv, Saved
      <4>4. \A g \in 0..NFrames : rollback[g] # NoData => rollback[g] = g
        BY DEF SInv, Saved
      <4> HIDE DEF f
      <4>5. f < NFrames => f \in 0..(NFrames - 1)
        BY <3>2, Params
      <4> QED
        BY <3>1, <3>2, <4>3, <4>4, <4>5
    <3>4. recvBuf' \in Int
      <4>1. \A g \in 0..NFrames : rollback[g] # NoData => rollback[g] = g
        BY DEF SInv, Saved
      <4>2. recvBuf \in Int
        BY DEF SInv, Written
      <4> HIDE DEF f
      <4> QED
        BY <3>1, <3>2, <4>1, <4>2
    <3>5. /\ recorded' \in Seq(Int) /\ Len(recorded') = f + 1
          /\ \A k \in 1..f : recorded'[k] = recorded[k]
          /\ recorded'[f + 1] = recvBuf'
      BY <3>1, <3>2, <3>4
    <3>6. \A k \in 1..(f + 1) : k <= NFrames => recorded'[k] = k - 1
      <4> HIDE DEF f
      <4> TAKE k \in 1..(f + 1)
      <4>1. CASE k = f + 1
        <5>1. f \in Nat
          BY <3>2
        <5>2. k <= NFrames => f < NFrames
          BY <4>1, <5>1, Params
        <5> QED
          BY <3>3, <3>5, <4>1, <5>1, <5>2
      <4>2. CASE k # f + 1
        <5>1. k \in 1..f
          BY <3>2, <4>2
        <5> QED
          BY <3>2, <3>5, <5>1
      <4> QED
        BY <4>1, <4>2
    <3>7. Len(recorded') <= NFrames + 1 /\ DOMAIN (recorded') = 1..(f + 1)
      BY <3>1, <3>2, <3>5, Params
    <3>8. Done'
      BY <1>1, <3>1 DEF Done
    <3> QED
      BY <3>4, <3>5, <3>6, <3>7, <3>8 DEF Written
  <2> QED
    BY <2>1, <2>2
<1> QED
  BY <1>4, <1>5, <1>6, <1>8 DEF SInv

LEMMA LoopKeeps ==
    ASSUME SInv, Loop
    PROVE  SInv'
<1>1. /\ node' = node /\ queue' = queue
      /\ todo' = todo /\ foundYes' = foundYes /\ rollback' = rollback
      /\ solutions' = solutions /\ recvBuf' = recvBuf /\ recorded' = recorded
      /\ current' = <<>> /\ current # <<>> /\ todo = <<>> /\ ~IsFinal(current)
  BY DEF Loop
<1>2. Tree /\ Place /\ Fresh /\ Fringe /\ Closed /\ Settled /\ Saved /\ Written
  BY DEF SInv
<1>3. current \in DOMAIN node /\ current \in Path
  BY <1>1, <1>2 DEF Place, Tree
<1>4. solutions = <<>> /\ Append(current, "no") \in queue
  <2>1. Children(current) # <<>> /\ <<Append(current, "no")>> # <<>>
    BY DEF Children
  <2> QED
    BY <1>1, <1>2, <2>1 DEF Place
<1>5. \A p \in DOMAIN node : Expanded(p)' <=> Expanded(p)
  <2>1. \A p \in DOMAIN node : p # <<>>
    <3>1. \A p \in DOMAIN node : Len(p) >= 1
      BY <1>2 DEF Tree, Path
    <3> QED
      BY <3>1
  <2>2. Append(current, "no") \in DOMAIN node
    BY <1>2, <1>4 DEF Place
  <2> QED
    BY <1>1, <2>1, <2>2 DEF Expanded
<1>6. /\ \A e, n : Closer(e, n)' <=> Closer(e, n)
      /\ \A p, n : Lost(p, n)' <=> Lost(p, n)
  <2>1. \A e, n : Closer(e, n)' <=> Closer(e, n)
    BY <1>1, <1>5 DEF Closer
  <2> QED
    BY <1>1, <2>1 DEF Lost
<1>7. Tree' /\ Saved' /\ Fresh'
  BY <1>1, <1>2 DEF Tree, Saved, Fresh
<1>8. Place'
  <2>1. queue # {}
    BY <1>4
  <2> QED
    BY <1>1, <1>2, <1>4, <2>1 DEF Place
<1>9. Fringe' /\ Closed'
  BY <1>1, <1>2, <1>5, <1>6 DEF Fringe, Closed
<1>10. Settled'
  BY <1>1, <1>2, <1>5, <1>6 DEF Settled
<1>11. Written'
  BY <1>1, <1>2 DEF Written, Done
<1> QED
  BY <1>7, <1>8, <1>9, <1>10, <1>11 DEF SInv

(* The children of a node, and the one the for loop looks at.              *)
LEMMA ChildrenAre ==
    ASSUME NEW p \in Path
    PROVE  Children(p) = IF Len(p) = 1 THEN <<Append(p, "no")>>
                         ELSE <<Append(p, "yes"), Append(p, "no")>>
<1>1. Len(p) = 1 <=> EndIt(p) = 0
  <2>1. /\ Len(p) \in Nat /\ Len(p) >= 1 /\ EndIt(p) = (Len(p) - 1) * NPFrame
    BY PathIts DEF Path
  <2> DEFINE m == Len(p) - 1
  <2>2. m \in Int /\ m >= 0 /\ EndIt(p) = m * NPFrame
    BY <2>1
  <2> HIDE DEF m
  <2>3. 0 < m => 0 * NPFrame + NPFrame <= m * NPFrame
    BY <2>2, Earlier
  <2>4. 0 * NPFrame = 0
    BY Params
  <2>5. m = 0 <=> m * NPFrame = 0
    BY <2>2, <2>3, <2>4, Params
  <2>6. m = 0 <=> Len(p) = 1
    BY <2>1 DEF m
  <2> QED
    BY <2>2, <2>5, <2>6
<1> QED
  BY <1>1 DEF Children

LEMMA ChildInTurn ==
    ASSUME Place, DOMAIN node \subseteq Path, todo # <<>>
    PROVE  /\ current # <<>> /\ current \in DOMAIN node
           /\ ~IsFinal(current) /\ solutions = <<>>
           /\ \E x \in Decision :
                 /\ Head(todo) = Append(current, x)
                 /\ Len(current) = 1 => x = "no"
                 /\ \A z : Awaits(z, todo) <=>
                       z = Append(current, x) \/ Awaits(z, Tail(todo))
                 /\ \A z : Awaits(z, Tail(todo)) =>
                       x = "yes" /\ z = Append(current, "no")
                 /\ IF x = "yes" THEN Tail(todo) = <<Append(current, "no")>>
                                 ELSE Tail(todo) = <<>>
<1> DEFINE yes == Append(current, "yes")
           no == Append(current, "no")
<1>1. /\ current # <<>> /\ current \in DOMAIN node /\ ~IsFinal(current)
      /\ solutions = <<>> /\ current \in Path
      /\ todo = Children(current) \/ todo = <<no>>
  BY DEF Place
<1>2. Children(current) = IF Len(current) = 1 THEN <<no>> ELSE <<yes, no>>
  BY <1>1, ChildrenAre
<1> HIDE DEF yes, no
<1>3. /\ \A z : ~Awaits(z, <<>>)
      /\ \A z : Awaits(z, <<no>>) <=> z = no
      /\ \A z : Awaits(z, <<yes, no>>) <=> z = yes \/ z = no
      /\ Head(<<no>>) = no /\ Tail(<<no>>) = <<>>
      /\ Head(<<yes, no>>) = yes /\ Tail(<<yes, no>>) = <<no>>
  <2>1. \A z : Awaits(z, <<yes, no>>) <=> z = yes \/ z = no
    <3>1. /\ DOMAIN <<yes, no>> = 1..2
          /\ <<yes, no>>[1] = yes /\ <<yes, no>>[2] = no
      OBVIOUS
    <3>2. \A k \in 1..2 : k = 1 \/ k = 2
      OBVIOUS
    <3>3. 1 \in 1..2 /\ 2 \in 1..2
      OBVIOUS
    <3> QED
      BY <3>1, <3>2, <3>3 DEF Awaits
  <2>2. \A z : Awaits(z, <<no>>) <=> z = no
    BY DEF Awaits
  <2>3. \A z : ~Awaits(z, <<>>)
    BY DEF Awaits
  <2>4. /\ Head(<<no>>) = no /\ Tail(<<no>>) = <<>>
        /\ Head(<<yes, no>>) = yes /\ Tail(<<yes, no>>) = <<no>>
    OBVIOUS
  <2> QED
    BY <2>1, <2>2, <2>3, <2>4
<1>4. CASE todo = <<yes, no>> /\ Len(current) # 1
  <2>1. Head(todo) = yes /\ Tail(todo) = <<no>>
    BY <1>3, <1>4
  <2>2. /\ \A z : Awaits(z, todo) <=> z = yes \/ Awaits(z, Tail(todo))
        /\ \A z : Awaits(z, Tail(todo)) => z = no
    BY <1>3, <1>4, <2>1
  <2>3. "yes" \in Decision
    BY DEF Decision
  <2> QED
    BY <1>1, <1>4, <2>1, <2>2, <2>3 DEF yes, no
<1>5. CASE todo = <<no>>
  <2>1. Head(todo) = no /\ Tail(todo) = <<>>
    BY <1>3, <1>5
  <2>2. /\ \A z : Awaits(z, todo) <=> z = no \/ Awaits(z, Tail(todo))
        /\ \A z : ~Awaits(z, Tail(todo))
    BY <1>3, <1>5, <2>1
  <2>3. "no" \in Decision /\ "no" # "yes"
    BY DEF Decision
  <2> QED
    BY <1>1, <1>5, <2>1, <2>2, <2>3 DEF no
<1> QED
  BY <1>1, <1>2, <1>4, <1>5

LEMMA PopKeeps ==
    ASSUME SInv, Pop
    PROVE  SInv'
<1>1. PICK p \in queue :
         /\ \A o \in queue : Precedes(p, o)
         /\ queue' = IF IsYes(p) THEN Pruned(p, queue \ {p}) ELSE queue \ {p}
         /\ foundYes' = IF IsYes(p)
                        THEN [foundYes EXCEPT ![FrameOf(p)] = TRUE]
                        ELSE foundYes
         /\ current' = p
         /\ IF IsFinal(p)
            THEN solutions' = Append(solutions, p) /\ todo' = <<>>
            ELSE todo' = Children(p) /\ solutions' = solutions
  BY DEF Pop
<1>2. /\ node' = node
      /\ rollback' = rollback /\ recvBuf' = recvBuf /\ recorded' = recorded
      /\ current = <<>>
  BY DEF Pop
<1>3. Tree /\ Place /\ Fresh /\ Fringe /\ Closed /\ Settled /\ Saved /\ Written
  BY DEF SInv
<1>4. /\ todo = <<>> /\ solutions = <<>> /\ queue \subseteq DOMAIN node
      /\ DOMAIN node \subseteq Path /\ foundYes \in [0..NFrames -> BOOLEAN]
      /\ ~Done /\ \A z : ~Awaits(z, todo)
  BY <1>2, <1>3 DEF Place, Tree, Done, Awaits
<1>5. \A q \in DOMAIN node : node[q].cost \in Nat
  BY <1>3 DEF Tree
<1>6. \A o \in queue : node[p].cost <= node[o].cost
  BY <1>1, <1>4, <1>5 DEF Precedes
<1>7. /\ p \in Path /\ p \in DOMAIN node /\ p # <<>> /\ Len(p) \in Nat
      /\ IsYes(p) <=> DecisionOf(p) = "yes" /\ Len(p) >= 3
      /\ IsYes(p) => FrameOf(p) = Len(p) - 2 /\ FrameOf(p) \in 0..NFrames
  <2>1. p \in Path /\ p \in DOMAIN node
    BY <1>4
  <2>2. Len(p) \in Nat /\ Len(p) >= 1
        /\ (IsYes(p) <=> DecisionOf(p) = "yes" /\ Len(p) >= 3)
    BY <2>1, PathIts DEF Path
  <2>3. p # <<>>
    BY <2>2
  <2> QED
    BY <2>1, <2>2, <2>3, SameFrame
<1>8. \A q \in queue : q \in queue' \/ q = p \/
         (IsYes(p) /\ IsYes(q) /\ Len(q) = Len(p))
  <2> SUFFICES ASSUME NEW q \in queue, q \notin queue', q # p
               PROVE  IsYes(p) /\ IsYes(q) /\ Len(q) = Len(p)
    OBVIOUS
  <2>1. IsYes(p) /\ StartIt(q) = StartIt(p) /\ DecisionOf(q) = "yes"
    BY <1>1 DEF Pruned
  <2>2. q \in Path
    BY <1>4
  <2>3. Len(q) = Len(p)
    BY <1>7, <2>1, <2>2, SameFrame
  <2> QED
    BY <1>7, <2>1, <2>2, <2>3, PathIts
<1>9. /\ queue' \subseteq queue /\ p \notin queue'
      /\ IsYes(p) => \A q \in queue' : IsYes(q) => Len(q) # Len(p)
  <2>1. queue' \subseteq queue /\ p \notin queue'
    BY <1>1 DEF Pruned
  <2>2. ASSUME IsYes(p), NEW q \in queue', IsYes(q) PROVE Len(q) # Len(p)
    <3>1. ~(StartIt(q) = StartIt(p) /\ EndIt(q) = EndIt(p))
      BY <1>1, <2>2 DEF Pruned, IsYes
    <3>2. StartIt(q) # StartIt(p)
      BY <3>1 DEF EndIt
    <3>3. q \in Path
      BY <1>4, <2>1
    <3> QED
      BY <1>7, <3>2, <3>3, SameFrame
  <2> QED
    BY <2>1, <2>2
<1>10. /\ foundYes' \in [0..NFrames -> BOOLEAN]
       /\ \A f \in 0..NFrames :
             foundYes'[f] <=> foundYes[f] \/ (IsYes(p) /\ f = Len(p) - 2)
  BY <1>1, <1>4, <1>7
<1>11. \A q \in DOMAIN node : Expanded(q)' <=> Expanded(q) \/ q = p
  <2>1. \A q \in DOMAIN node : q # <<>>
    <3>1. \A q \in DOMAIN node : Len(q) >= 1
      BY <1>4 DEF Path
    <3> QED
      BY <3>1
  <2> QED
    BY <1>1, <1>2, <2>1 DEF Expanded
<1>12. \A e, n : Closer(e, n)' <=>
          Closer(e, n) \/ (e = p /\ IsYes(p) /\ n = Len(p))
  BY <1>2, <1>7, <1>11 DEF Closer
<1>13. \A q, n : Lost(q, n) => Lost(q, n)'
  BY <1>2, <1>12 DEF Lost
<1>14. Tree' /\ Saved' /\ Written'
  BY <1>2, <1>3, <1>4 DEF Tree, Saved, Written, Done
<1>15. Place'
  <2>1. /\ queue' \subseteq DOMAIN node'
        /\ foundYes' \in [0..NFrames -> BOOLEAN]
        /\ current' # <<>> /\ current' \in DOMAIN node'
        /\ current' \notin queue'
    BY <1>1, <1>2, <1>4, <1>7, <1>9, <1>10
  <2>2. IF IsFinal(current') THEN todo' = <<>> /\ solutions' = <<current'>>
        ELSE solutions' = <<>> /\ todo' = Children(current')
    <3>1. Append(<<>>, p) = <<p>>
      OBVIOUS
    <3> QED
      BY <1>1, <1>4, <3>1
  <2> QED
    BY <2>1, <2>2 DEF Place
<1>16. ~IsFinal(p) => \A x \in Decision : (Len(p) = 1 => x = "no")
                         => Awaits(Append(p, x), todo')
  <2> SUFFICES ASSUME ~IsFinal(p), NEW x \in Decision, Len(p) = 1 => x = "no"
               PROVE  Awaits(Append(p, x), todo')
    OBVIOUS
  <2> DEFINE yes == Append(p, "yes")
             no == Append(p, "no")
  <2>1. todo' = IF Len(p) = 1 THEN <<no>> ELSE <<yes, no>>
    BY <1>1, <1>7, ChildrenAre
  <2>2. Append(p, x) = yes \/ Append(p, x) = no
    BY DEF Decision
  <2>3. Len(p) = 1 => Append(p, x) = no
    OBVIOUS
  <2> HIDE DEF yes, no
  <2>4. /\ 1 \in DOMAIN <<no>> /\ <<no>>[1] = no
        /\ 1 \in DOMAIN <<yes, no>> /\ <<yes, no>>[1] = yes
        /\ 2 \in DOMAIN <<yes, no>> /\ <<yes, no>>[2] = no
    OBVIOUS
  <2> QED
    BY <2>1, <2>2, <2>3, <2>4 DEF Awaits
<1>17. \A z : Awaits(z, todo') => \E x \in Decision : z = Append(p, x)
  <2> SUFFICES ASSUME NEW k \in DOMAIN todo'
               PROVE  \E x \in Decision : todo'[k] = Append(p, x)
    BY DEF Awaits
  <2> DEFINE yes == Append(p, "yes")
             no == Append(p, "no")
  <2>1. todo' = <<no>> \/ todo' = <<yes, no>>
    <3>1. todo' # <<>>
      OBVIOUS
    <3> QED
      BY <1>1, <1>7, <3>1, ChildrenAre
  <2> HIDE DEF yes, no
  <2>2. /\ \A j \in DOMAIN <<no>> : <<no>>[j] = no
        /\ \A j \in DOMAIN <<yes, no>> : <<yes, no>>[j] \in {yes, no}
    OBVIOUS
  <2>3. todo'[k] \in {yes, no}
    BY <2>1, <2>2
  <2> QED
    BY <2>3 DEF yes, no, Decision
<1>18. Fresh'
  <2>1. \A x \in Decision : Append(p, x) \notin DOMAIN node
    BY <1>3 DEF Fresh
  <2> QED
    BY <1>2, <1>3, <1>9, <1>17, <2>1 DEF Fresh
<1>19. Fringe'
  <2> SUFFICES ASSUME NEW e \in DOMAIN node, Expanded(e) \/ e = p
               PROVE  /\ \A q \in queue' : node[e].cost <= node[q].cost
                      /\ node[e].cost <= node[p].cost
    BY <1>1, <1>2, <1>11 DEF Fringe
  <2>1. /\ node[e].cost <= node[p].cost
        /\ \A q \in queue : node[e].cost <= node[q].cost
    BY <1>3, <1>5, <1>6, <1>7 DEF Fringe
  <2> QED
    BY <1>9, <2>1
<1>20. Closed'
  <2>1. ASSUME NEW q \in queue', IsYes(q) PROVE ~foundYes'[FrameOf(q)]
    <3>1. q \in queue /\ q \in Path
      BY <1>4, <1>9
    <3>2. FrameOf(q) = Len(q) - 2 /\ FrameOf(q) \in 0..NFrames
      BY <2>1, <3>1, SameFrame
    <3>3. ~foundYes[FrameOf(q)]
      BY <1>3, <2>1, <3>1 DEF Closed
    <3>4. IsYes(p) => FrameOf(q) # Len(p) - 2
      <4>1. Len(q) \in Nat
        BY <3>1, PathIts
      <4> QED
        BY <1>7, <1>9, <2>1, <3>2, <4>1
    <3> QED
      BY <1>10, <3>2, <3>3, <3>4
  <2>2. ASSUME NEW f \in 0..NFrames, foundYes'[f]
        PROVE  \E e : Closer(e, f + 2)'
    <3>1. CASE foundYes[f]
      BY <1>3, <1>12, <3>1 DEF Closed
    <3>2. CASE IsYes(p) /\ f = Len(p) - 2
      <4>1. f + 2 = Len(p)
        BY <1>7, <3>2
      <4> QED
        BY <1>12, <3>2, <4>1
    <3> QED
      BY <1>10, <2>2, <3>1, <3>2
  <2>3. ASSUME NEW e, NEW n, Closer(e, n)' PROVE foundYes'[FrameOf(e)]
    <3>1. CASE Closer(e, n)
      <4>1. foundYes[FrameOf(e)] /\ e \in Path /\ IsYes(e)
        BY <1>3, <1>4, <3>1 DEF Closed, Closer
      <4>2. FrameOf(e) \in 0..NFrames
        BY <4>1, SameFrame
      <4> QED
        BY <1>10, <4>1, <4>2
    <3>2. CASE e = p /\ IsYes(p)
      BY <1>7, <1>10, <3>2
    <3> QED
      BY <1>12, <2>3, <3>1, <3>2
  <2>4. ASSUME NEW e, NEW n, Closer(e, n) PROVE ~(IsYes(p) /\ n = Len(p))
    <3> SUFFICES ASSUME IsYes(p), n = Len(p) PROVE FALSE
      OBVIOUS
    <3>1. e \in Path /\ IsYes(e) /\ Len(e) = Len(p) /\ foundYes[FrameOf(e)]
      BY <1>3, <1>4, <2>4 DEF Closer, Closed
    <3>2. FrameOf(e) = FrameOf(p)
      BY <1>7, <3>1, SameFrame
    <3> QED
      BY <1>3, <3>1, <3>2 DEF Closed
  <2>5. ASSUME NEW e, NEW h, NEW n, Closer(e, n)', Closer(h, n)'
        PROVE  e = h
    BY <1>3, <1>12, <2>4, <2>5 DEF Closed
  <2> QED
    BY <2>1, <2>2, <2>3, <2>5 DEF Closed
<1>21. Settled'
  <2> SUFFICES ASSUME NEW q \in DOMAIN node
               PROVE  /\ \/ q \in queue'
                         \/ Expanded(q)'
                         \/ IsYes(q) /\ Lost(q, Len(q))'
                      /\ Expanded(q)' /\ ~IsFinal(q) =>
                            \A x \in Decision : (Len(q) = 1 => x = "no") =>
                               \/ Append(q, x) \in DOMAIN node
                               \/ Awaits(Append(q, x), todo')
                               \/ x = "yes" /\ Lost(q, Len(q) + 1)'
    BY <1>2 DEF Settled
  <2>1. \/ q \in queue'
        \/ Expanded(q)'
        \/ IsYes(q) /\ Lost(q, Len(q))'
    <3>1. CASE q \in queue /\ q \notin queue' /\ q # p
      <4>1. IsYes(p) /\ IsYes(q) /\ Len(q) = Len(p)
        BY <1>8, <3>1
      <4>2. Closer(p, Len(q))'
        BY <1>12, <4>1
      <4>3. node'[p].cost <= node'[q].cost
        BY <1>2, <1>6, <3>1
      <4> QED
        BY <3>1, <4>1, <4>2, <4>3 DEF Lost
    <3>2. CASE q = p
      BY <1>7, <1>11, <3>2
    <3>3. CASE Expanded(q)
      BY <1>11, <3>3
    <3>4. CASE IsYes(q) /\ Lost(q, Len(q))
      BY <1>13, <3>4
    <3> QED
      BY <1>3, <3>1, <3>2, <3>3, <3>4 DEF Settled
  <2>2. ASSUME Expanded(q)', ~IsFinal(q), NEW x \in Decision,
               Len(q) = 1 => x = "no"
        PROVE  \/ Append(q, x) \in DOMAIN node
               \/ Awaits(Append(q, x), todo')
               \/ x = "yes" /\ Lost(q, Len(q) + 1)'
    <3>1. CASE q = p
      BY <1>16, <2>2, <3>1
    <3>2. CASE Expanded(q)
      <4>1. \/ Append(q, x) \in DOMAIN node
            \/ x = "yes" /\ Lost(q, Len(q) + 1)
        BY <1>3, <1>4, <2>2, <3>2 DEF Settled
      <4> QED
        BY <1>13, <4>1
    <3> QED
      BY <1>11, <2>2, <3>1, <3>2
  <2> QED
    BY <2>1, <2>2
<1> QED
  BY <1>14, <1>15, <1>18, <1>19, <1>20, <1>21 DEF SInv

(* A child that is not worthwhile is given up for the node that closed its *)
(* frame, which cost no more than the expanded one.                        *)
LEMMA ChildSkips ==
    ASSUME SInv, Child, ~Worthwhile(Head(todo))
    PROVE  SInv'
<1>1. /\ node' = node /\ queue' = queue /\ rollback' = rollback
      /\ current' = current /\ foundYes' = foundYes
      /\ solutions' = solutions /\ recvBuf' = recvBuf /\ recorded' = recorded
      /\ todo # <<>> /\ todo' = Tail(todo)
  BY DEF Child
<1>2. Tree /\ Place /\ Fresh /\ Fringe /\ Closed /\ Settled /\ Saved /\ Written
  BY DEF SInv
<1>3. DOMAIN node \subseteq Path
  BY <1>2 DEF Tree
<1>4. /\ current # <<>> /\ current \in DOMAIN node /\ current \in Path
      /\ ~IsFinal(current) /\ solutions = <<>>
  BY <1>1, <1>2, <1>3, ChildInTurn
<1>5. PICK x \in Decision :
         /\ Head(todo) = Append(current, x)
         /\ Len(current) = 1 => x = "no"
         /\ \A z : Awaits(z, todo) <=>
                      z = Append(current, x) \/ Awaits(z, Tail(todo))
         /\ IF x = "yes" THEN Tail(todo) = <<Append(current, "no")>>
                         ELSE Tail(todo) = <<>>
  BY <1>1, <1>2, <1>3, ChildInTurn
<1> DEFINE c == Append(current, x)
<1>6. /\ c \in Path /\ Len(c) = Len(current) + 1 /\ DecisionOf(c) = x
      /\ FrameOf(c) = Len(current) - 1
      /\ Len(current) \in Nat /\ Len(current) >= 1
      /\ Len(current) <= NFrames
  <2>1. /\ Len(current) \in Nat /\ Len(current) >= 1
        /\ Len(current) <= NFrames + 1 /\ Len(current) # NFrames + 1
    BY <1>4, PathIts DEF Path
  <2> QED
    BY <1>4, <2>1, ChildPath, Params
<1>7. x = "yes" /\ foundYes[FrameOf(c)] /\ FrameOf(c) \in 0..NFrames
      /\ FrameOf(c) + 2 = Len(current) + 1
  <2>1. DecisionOf(c) # "no" /\ foundYes[FrameOf(c)]
    BY <1>5 DEF Worthwhile
  <2> QED
    BY <1>6, <2>1, Params DEF Decision
<1>8. Lost(current, Len(current) + 1)
  <2>1. PICK e : Closer(e, Len(current) + 1)
    BY <1>2, <1>7 DEF Closed
  <2>2. e # current /\ node[e].cost <= node[current].cost
    BY <1>2, <1>4, <1>6, <2>1 DEF Closer, Fringe
  <2> QED
    BY <2>1, <2>2 DEF Lost
<1>9. /\ \A p : Expanded(p)' <=> Expanded(p)
      /\ \A e, n : Closer(e, n)' <=> Closer(e, n)
  BY <1>1 DEF Expanded, Closer
<1>10. \A p, n : Lost(p, n)' <=> Lost(p, n)
  BY <1>1, <1>9 DEF Lost
<1>11. Tree' /\ Saved'
  BY <1>1, <1>2 DEF Tree, Saved
<1>12. Place'
  BY <1>1, <1>2, <1>4, <1>5, <1>7 DEF Place
<1>13. Fresh'
  BY <1>1, <1>2, <1>5 DEF Fresh
<1>14. Fringe' /\ Closed'
  BY <1>1, <1>2, <1>9 DEF Fringe, Closed
<1>15. Settled'
  <2> SUFFICES ASSUME NEW p \in DOMAIN node, Expanded(p), ~IsFinal(p),
                      NEW y \in Decision, Len(p) = 1 => y = "no"
               PROVE  \/ Append(p, y) \in DOMAIN node
                      \/ Awaits(Append(p, y), Tail(todo))
                      \/ y = "yes" /\ Lost(p, Len(p) + 1)
    BY <1>1, <1>2, <1>9, <1>10 DEF Settled
  <2>1. \/ Append(p, y) \in DOMAIN node
        \/ Awaits(Append(p, y), todo)
        \/ y = "yes" /\ Lost(p, Len(p) + 1)
    BY <1>2 DEF Settled
  <2>2. CASE Append(p, y) = c
    <3>1. p = current /\ y = x
      BY <1>3, <1>4, <2>2, Appended
    <3> QED
      BY <1>7, <1>8, <3>1
  <2> QED
    BY <1>5, <2>1, <2>2
<1>16. Written'
  BY <1>1, <1>2 DEF Written, Done
<1> QED
  BY <1>11, <1>12, <1>13, <1>14, <1>15, <1>16 DEF SInv

LEMMA TwoOrMore ==
    ASSUME NEW n \in Nat, n >= 1, n # 1
    PROVE  n >= 2 /\ 2 \in 1..n
OBVIOUS

(* A child that is computed costs no less than anything expanded, whatever *)
(* was measured.                                                           *)
LEMMA ChildComputes ==
    ASSUME SInv, Child, Worthwhile(Head(todo))
    PROVE  SInv'
<1>1. /\ current' = current /\ foundYes' = foundYes
      /\ solutions' = solutions /\ recvBuf' = recvBuf /\ recorded' = recorded
      /\ todo # <<>> /\ todo' = Tail(todo)
  BY DEF Child
<1>2. Tree /\ Place /\ Fresh /\ Fringe /\ Closed /\ Settled /\ Saved /\ Written
  BY DEF SInv
<1>3. DOMAIN node \subseteq Path
  BY <1>2 DEF Tree
<1>4. /\ current # <<>> /\ current \in DOMAIN node /\ current \in Path
      /\ ~IsFinal(current) /\ solutions = <<>>
  BY <1>1, <1>2, <1>3, ChildInTurn
<1>5. PICK x \in Decision :
         /\ Head(todo) = Append(current, x)
         /\ Len(current) = 1 => x = "no"
         /\ \A z : Awaits(z, todo) <=>
                      z = Append(current, x) \/ Awaits(z, Tail(todo))
         /\ \A z : Awaits(z, Tail(todo)) =>
                      x = "yes" /\ z = Append(current, "no")
         /\ IF x = "yes" THEN Tail(todo) = <<Append(current, "no")>>
                         ELSE Tail(todo) = <<>>
  BY <1>1, <1>2, <1>3, ChildInTurn
<1>0. PICK c : c = Append(current, x)
  OBVIOUS
<1> DEFINE fr == Len(current) - 1
<1>6. /\ Len(current) \in Nat /\ Len(current) >= 1
      /\ Len(current) <= NFrames
  <2>1. /\ Len(current) \in Nat /\ Len(current) >= 1
        /\ Len(current) <= NFrames + 1 /\ Len(current) # NFrames + 1
    BY <1>4, PathIts DEF Path
  <2> QED
    BY <2>1, Params
<1>7. /\ c \in Path
      /\ Len(c) = Len(current) + 1 /\ Len(c) >= 2
      /\ DecisionOf(c) = x
      /\ Parent(c) = current /\ c # current
      /\ FrameOf(c) = fr
      /\ \A y \in Decision : Append(c, y) # c /\ Parent(Append(c, y)) = c
                             /\ Len(Append(c, y)) >= 2
                             /\ Append(c, y) # current
  <2>1. /\ c \in Path /\ Len(c) = Len(current) + 1 /\ DecisionOf(c) = x
        /\ Parent(c) = current /\ FrameOf(c) = fr
    BY <1>0, <1>4, <1>6, ChildPath
  <2>2. /\ c # current /\ Len(c) >= 2
    BY <1>0, <1>4, <1>6, <2>1, After
  <2>3. \A y \in Decision : Append(c, y) # c /\ Parent(Append(c, y)) = c
                            /\ Len(Append(c, y)) = Len(c) + 1
    BY <2>1, After
  <2>4. \A y \in Decision : Len(Append(c, y)) >= 2 /\ Append(c, y) # current
    BY <1>6, <2>1, <2>3
  <2> QED
    BY <2>1, <2>2, <2>3, <2>4
<1>8. c[2] = "no"
  <2>1. /\ \A k \in 1..Len(current) : c[k] = current[k]
        /\ c[Len(current) + 1] = x
    BY <1>0, <1>4 DEF Path
  <2>2. CASE Len(current) = 1
    <3>1. x = "no" /\ Len(current) + 1 = 2
      BY <1>5, <2>2
    <3> QED
      BY <2>1, <3>1
  <2>3. CASE Len(current) # 1
    <3>1. Len(current) >= 2 /\ 2 \in 1..Len(current)
      BY <1>6, <2>3, TwoOrMore
    <3>2. current[2] = "no"
      BY <1>2, <1>4, <3>1 DEF Tree
    <3> QED
      BY <2>1, <3>1, <3>2
  <2> QED
    BY <2>2, <2>3
<1>9. /\ Worthwhile(c)
      /\ queue' = queue \cup {c}
      /\ rollback' = IF IsFinal(c) THEN rollback
                     ELSE [rollback EXCEPT ![SavedAt(c)] =
                             rollback[FrameOf(c)] + 1]
  BY <1>0, <1>5 DEF Child
<1>10. PICK t \in BatchTimes : \E l \in LBTimes :
          node' = [q \in DOMAIN node \cup {c} |->
                      IF q = c THEN Computed(c, t, l) ELSE node[q]]
  <2>1. Head(todo) = c
    BY <1>0, <1>5
  <2>2. \E t \in BatchTimes, l \in LBTimes :
           node' = [q \in DOMAIN node \cup {Head(todo)} |->
                       IF q = Head(todo) THEN Computed(Head(todo), t, l)
                                         ELSE node[q]]
    BY DEF Child
  <2> QED
    BY <2>1, <2>2
<1>11. PICK l \in LBTimes :
          node' = [q \in DOMAIN node \cup {c} |->
                      IF q = c THEN Computed(c, t, l) ELSE node[q]]
  BY <1>10
<1>12. c \notin DOMAIN node
  BY <1>0, <1>2, <1>5 DEF Fresh
<1>13. /\ DOMAIN node' = DOMAIN node \cup {c}
       /\ \A q \in DOMAIN node : node'[q] = node[q]
       /\ node'[c] = Computed(c, t, l)
  BY <1>11, <1>12
<1>14. node'[c].cost \in Nat /\ node[current].cost <= node'[c].cost
  <2>1. node[Parent(c)].cost \in Nat
    BY <1>2, <1>4, <1>7 DEF Tree
  <2> QED
    BY <1>7, <1>13, <2>1, ChildCost
<1>15. \A q \in DOMAIN node : node'[q].cost = node[q].cost
  BY <1>13
<1>16. ASSUME NEW y \in Decision
       PROVE  Append(c, y) \notin DOMAIN node /\ Append(c, y) # c
  <2>1. Append(c, y) \in DOMAIN node => Parent(Append(c, y)) \in DOMAIN node
    BY <1>2, <1>7 DEF Tree
  <2> QED
    BY <1>7, <1>12, <2>1
<1>17. \A q \in DOMAIN node : Append(q, "no") = c => q = current
  BY <1>0, <1>3, <1>4, Appended
<1>18. /\ \A q \in DOMAIN node : Expanded(q)' <=> Expanded(q)
       /\ ~Expanded(c)'
  <2>1. "no" \in Decision
    BY DEF Decision
  <2>2. ~Expanded(c)'
    BY <1>1, <1>7, <1>13, <1>16, <2>1 DEF Expanded
  <2> QED
    BY <1>1, <1>13, <1>17, <2>2 DEF Expanded
<1>19. \A e, n : Closer(e, n)' <=> Closer(e, n)
  BY <1>12, <1>13, <1>18 DEF Closer
<1>20. ASSUME NEW p \in DOMAIN node, NEW n
       PROVE  Lost(p, n)' <=> Lost(p, n)
  <2>1. \A e : Closer(e, n) => e \in DOMAIN node
    BY DEF Closer
  <2> QED
    BY <1>15, <1>19, <2>1 DEF Lost
<1>21. Tree'
  <2>1. ASSUME NEW p \in DOMAIN node'
        PROVE  /\ node'[p].cost \in Nat
               /\ Len(p) >= 2 => p[2] = "no" /\ Parent(p) \in DOMAIN node'
    <3>1. CASE p = c
      BY <1>4, <1>7, <1>8, <1>13, <1>14, <3>1
    <3>2. CASE p \in DOMAIN node
      BY <1>2, <1>13, <3>2 DEF Tree
    <3> QED
      BY <1>13, <3>1, <3>2
  <2>2. DOMAIN node' \subseteq Path /\ Root \in DOMAIN node'
    BY <1>2, <1>7, <1>13 DEF Tree
  <2> QED
    BY <2>1, <2>2 DEF Tree
<1>22. Place'
  <2>1. queue' \subseteq DOMAIN node' /\ current \in DOMAIN node'
    BY <1>2, <1>4, <1>9, <1>13 DEF Place
  <2>2. current \notin queue'
    BY <1>2, <1>4, <1>7, <1>9 DEF Place
  <2>3. \/ todo' = <<Append(current, "no")>>
        \/ todo' = <<>> /\ Append(current, "no") \in queue'
    <3>1. x = "yes" \/ x = "no"
      BY DEF Decision
    <3> QED
      BY <1>0, <1>1, <1>5, <1>9, <3>1
  <2>4. foundYes' \in [0..NFrames -> BOOLEAN]
    BY <1>1, <1>2 DEF Place
  <2> QED
    BY <1>1, <1>4, <2>1, <2>2, <2>3, <2>4 DEF Place
<1>23. Fresh'
  <2>1. ASSUME NEW q \in queue', NEW y \in Decision
        PROVE  Append(q, y) \notin DOMAIN node'
    <3>1. CASE q = c
      BY <1>13, <1>16, <3>1
    <3>2. CASE q \in queue
      <4>1. q \in DOMAIN node /\ q # current /\ Append(q, y) \notin DOMAIN node
        BY <1>2, <1>4, <3>2 DEF Place, Fresh
      <4>2. Append(q, y) # c
        BY <1>0, <1>3, <1>4, <4>1, Appended
      <4> QED
        BY <1>13, <4>1, <4>2
    <3> QED
      BY <1>9, <3>1, <3>2
  <2>2. ASSUME NEW z, Awaits(z, todo') PROVE z \notin DOMAIN node'
    <3>1. Awaits(z, todo) /\ x = "yes" /\ z = Append(current, "no")
      BY <1>1, <1>5, <2>2
    <3>2. z # c
      BY <1>0, <1>4, <3>1, Appended
    <3> QED
      BY <1>2, <1>13, <3>1, <3>2 DEF Fresh
  <2> QED
    BY <2>1, <2>2 DEF Fresh
<1>24. Fringe'
  <2>1. ASSUME NEW e \in DOMAIN node, Expanded(e)
        PROVE  /\ \A q \in queue' : node'[e].cost <= node'[q].cost
               /\ node'[e].cost <= node'[current].cost
    <3>1. node[e].cost <= node[current].cost
          /\ \A q \in queue : node[e].cost <= node[q].cost
      BY <1>2, <1>4, <2>1 DEF Fringe
    <3>2. node[e].cost <= node'[c].cost
      <4>1. node[e].cost \in Nat /\ node[current].cost \in Nat
        BY <1>2, <1>4 DEF Tree
      <4> QED
        BY <1>14, <3>1, <4>1
    <3>3. queue \subseteq DOMAIN node
      BY <1>2 DEF Place
    <3> QED
      BY <1>4, <1>9, <1>15, <3>1, <3>2, <3>3
  <2> QED
    BY <1>1, <1>13, <1>18, <2>1 DEF Fringe
<1>25. Closed'
  <2>1. IsYes(c) => ~foundYes[FrameOf(c)]
    BY <1>9 DEF IsYes, Worthwhile
  <2> QED
    BY <1>1, <1>2, <1>9, <1>19, <2>1 DEF Closed
<1>26. Settled'
  <2> SUFFICES ASSUME NEW p \in DOMAIN node'
               PROVE  /\ \/ p \in queue'
                         \/ Expanded(p)'
                         \/ IsYes(p) /\ Lost(p, Len(p))'
                      /\ Expanded(p)' /\ ~IsFinal(p) =>
                            \A y \in Decision : (Len(p) = 1 => y = "no") =>
                               \/ Append(p, y) \in DOMAIN node'
                               \/ Awaits(Append(p, y), todo')
                               \/ y = "yes" /\ Lost(p, Len(p) + 1)'
    BY DEF Settled
  <2>1. CASE p = c
    BY <1>9, <1>18, <2>1
  <2>2. CASE p \in DOMAIN node
    <3>1. /\ \/ p \in queue
             \/ Expanded(p)
             \/ IsYes(p) /\ Lost(p, Len(p))
          /\ Expanded(p) /\ ~IsFinal(p) =>
                \A y \in Decision : (Len(p) = 1 => y = "no") =>
                   \/ Append(p, y) \in DOMAIN node
                   \/ Awaits(Append(p, y), todo)
                   \/ y = "yes" /\ Lost(p, Len(p) + 1)
      BY <1>2, <2>2 DEF Settled
    <3>2. /\ Expanded(p)' <=> Expanded(p)
          /\ Lost(p, Len(p))' <=> Lost(p, Len(p))
          /\ Lost(p, Len(p) + 1)' <=> Lost(p, Len(p) + 1)
      BY <1>18, <1>20, <2>2
    <3>3. ASSUME NEW y, Awaits(Append(p, y), todo)
          PROVE  Append(p, y) \in DOMAIN node' \/ Awaits(Append(p, y), todo')
      BY <1>0, <1>1, <1>5, <1>13, <3>3
    <3> QED
      BY <1>9, <1>13, <3>1, <3>2, <3>3
  <2> QED
    BY <1>13, <2>1, <2>2
<1>27. Saved'
  <2>1. fr \in 0..(NFrames - 1) /\ fr + 1 \in 0..NFrames /\ SavedAt(c) = fr + 1
    BY <1>6, <1>7, Params DEF SavedAt
  <2>2. rollback[fr] = fr
    <3>1. rollback[fr] # NoData
      BY <1>2, <1>4, <2>1 DEF Saved
    <3> QED
      BY <1>2, <2>1, <3>1, Params DEF Saved
  <2>3. IsFinal(c) <=> Len(current) = NFrames
    BY <1>6, <1>7, PathIts, Params
  <2>4. rollback' = IF IsFinal(c) THEN rollback
                    ELSE [rollback EXCEPT ![fr + 1] = fr + 1]
    BY <1>7, <1>9, <2>1, <2>2
  <2>5. DOMAIN rollback' = 0..NFrames
    BY <1>2, <2>4 DEF Saved
  <2>6. ASSUME NEW f \in 0..NFrames
        PROVE  rollback'[f] = IF ~IsFinal(c) /\ f = fr + 1
                              THEN fr + 1 ELSE rollback[f]
    BY <1>2, <2>4 DEF Saved
  <2>7. \A f \in 0..NFrames : rollback'[f] \in {NoData, f}
    BY <1>2, <2>6 DEF Saved
  <2>8. fr + 1 # NoData
    BY <2>1 DEF NoData
  <2>9. ASSUME NEW p \in DOMAIN node', NEW f \in 0..(NFrames - 1),
               f <= Len(p) - 1
        PROVE  rollback'[f] # NoData
    <3>0. f \in 0..NFrames
      BY Params
    <3>1. CASE p \in DOMAIN node
      <4>1. rollback[f] # NoData
        BY <1>2, <2>9, <3>1 DEF Saved
      <4> QED
        BY <2>6, <2>8, <3>0, <4>1
    <3>2. CASE p = c /\ f <= fr
      <4>1. rollback[f] # NoData
        BY <1>2, <1>4, <2>1, <3>2 DEF Saved
      <4> QED
        BY <2>6, <2>8, <3>0, <4>1
    <3>3. CASE p = c /\ f = fr + 1
      <4>1. ~IsFinal(c)
        BY <1>6, <2>3, <3>3, Params
      <4> QED
        BY <2>6, <2>8, <3>0, <3>3, <4>1
    <3>4. p = c => f <= fr + 1
      BY <1>6, <1>7, <2>9
    <3> QED
      BY <1>13, <2>1, <3>1, <3>2, <3>3, <3>4
  <2> QED
    BY <2>5, <2>7, <2>9 DEF Saved
<1>28. Written'
  BY <1>1, <1>2, <1>4 DEF Written, Done
<1> QED
  BY <1>21, <1>22, <1>23, <1>24, <1>25, <1>26, <1>27, <1>28 DEF SInv

LEMMA NextSInv ==
    ASSUME SInv, [Next]_vars
    PROVE  SInv'
<1>1. CASE Pop
  BY <1>1, PopKeeps
<1>2. CASE Child
  BY <1>2, ChildSkips, ChildComputes
<1>3. CASE Loop
  BY <1>3, LoopKeeps
<1>4. CASE RecordFrame \/ UNCHANGED vars
  BY <1>4, RecordFrameKeeps
<1>5. Finished => UNCHANGED vars
  BY DEF Finished
<1> QED
  BY <1>1, <1>2, <1>3, <1>4, <1>5 DEF Next

(* The invariant holds in every state of the search.                       *)
THEOREM AlwaysSInv == Spec => []SInv
<1>1. Init => SInv
  BY InitSInv
<1>2. SInv /\ [Next]_vars => SInv'
  BY NextSInv
<1> QED
  BY <1>1, <1>2, PTL DEF Spec

-----------------------------------------------------------------------------
(***************************************************************************)
(* What the search promises.                                               *)
(***************************************************************************)
(* The for loop visits children of the current node.                       *)
LEMMA AwaitsChild ==
    ASSUME Tree, Place, NEW z, Awaits(z, todo)
    PROVE  /\ current # <<>> /\ current \in DOMAIN node /\ current \in Path
           /\ ~IsFinal(current)
           /\ \E x \in Decision : z = Append(current, x)
<1>1. todo # <<>>
  BY DEF Awaits
<1>2. DOMAIN node \subseteq Path
  BY DEF Tree
<1>3. /\ current # <<>> /\ current \in DOMAIN node /\ ~IsFinal(current)
      /\ \E x \in Decision :
            /\ \A y : Awaits(y, todo) <=>
                         y = Append(current, x) \/ Awaits(y, Tail(todo))
            /\ \A y : Awaits(y, Tail(todo)) => y = Append(current, "no")
  BY <1>1, <1>2, ChildInTurn
<1>4. PICK x \in Decision :
         /\ \A y : Awaits(y, todo) <=>
                      y = Append(current, x) \/ Awaits(y, Tail(todo))
         /\ \A y : Awaits(y, Tail(todo)) => y = Append(current, "no")
  BY <1>3
<1>5. "no" \in Decision
  BY DEF Decision
<1> QED
  BY <1>2, <1>3, <1>4, <1>5

(* A plan that a node begins goes on with a decision of its next frame.    *)
LEMMA GoesOn ==
    ASSUME NEW d \in Plans, NEW p \in Path, ~IsFinal(p), Begins(p, d)
    PROVE  /\ d[Len(p) - 1] \in Decision
           /\ Begins(Append(p, d[Len(p) - 1]), d)
           /\ Len(p) = 1 => d[Len(p) - 1] = "no"
<1>1. /\ p \in Seq(Decision) /\ Len(p) \in Nat /\ Len(p) >= 1
      /\ Len(p) <= NFrames + 1 /\ Len(p) # NFrames + 1
  BY PathIts DEF Path
<1>2. d \in [0..(NFrames - 1) -> Decision] /\ d[0] = "no"
  BY DEF Plans
<1>3. Len(p) - 1 \in 0..(NFrames - 1) /\ (Len(p) = 1 => Len(p) - 1 = 0)
  BY <1>1, Params
<1> DEFINE x == d[Len(p) - 1]
<1>4. x \in Decision
  BY <1>2, <1>3
<1>5. /\ Len(Append(p, x)) = Len(p) + 1
      /\ \A k \in 1..Len(p) : Append(p, x)[k] = p[k]
      /\ Append(p, x)[Len(p) + 1] = x
  BY <1>1
<1>6. ASSUME NEW f \in 0..((Len(p) + 1) - 2)
      PROVE  Append(p, x)[f + 2] = d[f]
  <2>1. CASE f \in 0..(Len(p) - 2)
    <3>1. f + 2 \in 1..Len(p)
      BY <1>1, <2>1
    <3> QED
      BY <1>5, <2>1, <3>1 DEF Begins
  <2>2. CASE f = Len(p) - 1
    <3>1. f + 2 = Len(p) + 1
      BY <1>1, <2>2
    <3> QED
      BY <1>5, <2>2, <3>1
  <2> QED
    BY <1>1, <2>1, <2>2
<1>7. Begins(Append(p, x), d)
  BY <1>5, <1>6 DEF Begins
<1> QED
  BY <1>2, <1>3, <1>4, <1>7

(* Of the nodes that begin a plan one goes furthest.                       *)
LEMMA Furthest ==
    ASSUME Tree, NEW d \in Plans
    PROVE  \E p \in DOMAIN node :
              /\ Begins(p, d)
              /\ \A x : Begins(Append(p, x), d) =>
                           Append(p, x) \notin DOMAIN node
<1> DEFINE lens == {n \in 0..(NFrames + 1) :
                       \E p \in DOMAIN node : Begins(p, d) /\ Len(p) = n}
<1>1. \A p \in DOMAIN node : /\ p \in Seq(Decision) /\ Len(p) \in Nat
                             /\ Len(p) <= NFrames + 1
  BY DEF Tree, Path
<1>2. lens # {}
  <2>1. /\ Root \in DOMAIN node /\ Len(Root) = 1
        /\ 1 \in 0..(NFrames + 1)
    BY Params DEF Tree, Root
  <2>2. Begins(Root, d)
    <3>1. \A f \in 0..(1 - 2) : FALSE
      OBVIOUS
    <3> QED
      BY <2>1, <3>1 DEF Begins
  <2> QED
    BY <2>1, <2>2
<1>3. lens \in SUBSET (0..(NFrames + 1)) /\ NFrames + 1 \in Nat
  BY Params
<1>4. PICK n \in lens : \A m \in lens : m <= n
  <2> HIDE DEF lens
  <2> QED
    BY <1>2, <1>3, GreatestOf
<1>5. PICK p \in DOMAIN node : Begins(p, d) /\ Len(p) = n
  BY <1>4
<1>6. ASSUME NEW x, Begins(Append(p, x), d), Append(p, x) \in DOMAIN node
      PROVE  FALSE
  <2>1. Len(Append(p, x)) = Len(p) + 1
    BY <1>1, <1>5
  <2>2. Len(p) + 1 \in lens
    <3>1. PICK c \in DOMAIN node : c = Append(p, x)
      BY <1>6
    <3>2. Begins(c, d) /\ Len(c) = Len(p) + 1
      BY <1>6, <2>1, <3>1
    <3>3. Len(c) \in 0..(NFrames + 1)
      <4>1. Len(c) \in Nat /\ Len(c) <= NFrames + 1
        BY <1>1, <3>1
      <4> HIDE DEF lens
      <4> QED
        BY <4>1, Params
    <3>4. Len(c) \in lens
      BY <3>1, <3>2, <3>3
    <3> QED
      BY <3>2, <3>4
  <2>3. Len(p) + 1 <= n
    BY <1>4, <2>2
  <2> QED
    BY <1>1, <1>5, <2>3
<1> QED
  BY <1>5, <1>6

(* When a solution is returned every other plan had, as far as it was      *)
(* computed, taken as long or was dropped for a Yes node that was no       *)
(* slower: the loop of shortest_path.hpp gives up no plan otherwise.       *)
THEOREM PlansAccounted == Spec => []EveryPlanAccounted
<1>1. ASSUME SInv PROVE EveryPlanAccounted
  <2> SUFFICES ASSUME solutions # <<>>, NEW d \in Plans
               PROVE  \E p \in DOMAIN node :
                         /\ Begins(p, d)
                         /\ \/ node[p].cost >= node[solutions[1]].cost
                            \/ \E e \in DOMAIN node :
                                  /\ DroppedFor(e, p, d)
                                  /\ node[e].cost <= node[p].cost
    BY DEF EveryPlanAccounted
  <2>1. Tree /\ Place /\ Fringe /\ Settled
    BY <1>1 DEF SInv
  <2>2. /\ current # <<>> /\ current \in DOMAIN node /\ IsFinal(current)
        /\ solutions[1] = current /\ todo = <<>>
    BY <2>1 DEF Place
  <2>3. PICK p \in DOMAIN node :
           /\ Begins(p, d)
           /\ \A x : Begins(Append(p, x), d) => Append(p, x) \notin DOMAIN node
    BY <2>1, Furthest
  <2>4. /\ p \in Path /\ node[p].cost \in Nat /\ node[current].cost \in Nat
        /\ Len(p) \in Nat /\ Len(p) >= 1
    BY <2>1, <2>2, <2>3 DEF Tree, Path
  <2>5. CASE p \in queue
    <3>1. node[current].cost <= node[p].cost
      BY <2>1, <2>2, <2>5 DEF Fringe, Expanded
    <3> QED
      BY <2>2, <2>3, <2>4, <3>1
  <2>6. CASE IsYes(p) /\ Lost(p, Len(p))
    <3>1. PICK e : /\ Closer(e, Len(p)) /\ e # p
                   /\ node[e].cost <= node[p].cost
      BY <2>6 DEF Lost
    <3>2. e \in DOMAIN node /\ Expanded(e) /\ IsYes(e) /\ e \in Path
          /\ Len(e) = Len(p)
      BY <2>1, <3>1 DEF Closer, Tree
    <3>3. StartIt(p) = StartIt(e)
      BY <2>4, <3>2, SameFrame
    <3>4. DroppedFor(e, p, d)
      BY <2>6, <3>1, <3>2, <3>3 DEF DroppedFor
    <3> QED
      BY <2>3, <3>1, <3>2, <3>4
  <2>7. CASE Expanded(p) /\ IsFinal(p)
    <3>1. p = current
      <4>1. Append(p, "no") \notin DOMAIN node
        <5>1. Len(Append(p, "no")) = Len(p) + 1
          BY <2>4 DEF Path
        <5>2. Len(p) = NFrames + 1
          BY <2>4, <2>7, PathIts
        <5>3. \A q \in DOMAIN node : Len(q) <= NFrames + 1
          BY <2>1 DEF Tree, Path
        <5>4. ~((NFrames + 1) + 1 <= NFrames + 1)
          BY Params
        <5> QED
          BY <5>1, <5>2, <5>3, <5>4
      <4> QED
        BY <2>7, <4>1 DEF Expanded
    <3>2. node[p].cost >= node[solutions[1]].cost
      BY <2>2, <2>4, <3>1
    <3> QED
      BY <2>3, <3>2
  <2>8. CASE Expanded(p) /\ ~IsFinal(p)
    <3>1. PICK x : x = d[Len(p) - 1]
      OBVIOUS
    <3>2. /\ x \in Decision /\ (Len(p) = 1 => x = "no")
          /\ Append(p, x) \notin DOMAIN node
      BY <2>3, <2>4, <2>8, <3>1, GoesOn
    <3>3. ~Awaits(Append(p, x), todo)
      BY <2>2 DEF Awaits
    <3>4. x = "yes" /\ Lost(p, Len(p) + 1)
      BY <2>1, <2>8, <3>2, <3>3 DEF Settled
    <3>5. PICK e : /\ Closer(e, Len(p) + 1)
                   /\ node[e].cost <= node[p].cost
      BY <3>4 DEF Lost
    <3>6. e \in DOMAIN node /\ Expanded(e) /\ IsYes(e) /\ e \in Path
          /\ Len(e) = Len(p) + 1
      BY <2>1, <3>5 DEF Closer, Tree
    <3>7. EndIt(p) = StartIt(e) /\ FrameOf(e) = Len(e) - 2
      BY <2>4, <3>6, SameFrame
    <3>8. d[FrameOf(e)] = "yes"
      <4>1. FrameOf(e) = Len(p) - 1
        BY <2>4, <3>6, <3>7
      <4> QED
        BY <3>1, <3>4, <4>1
    <3>9. DroppedFor(e, p, d)
      BY <3>2, <3>4, <3>6, <3>7, <3>8 DEF DroppedFor
    <3> QED
      BY <2>3, <3>5, <3>6, <3>9
  <2>9. p \in queue \/ Expanded(p) \/ (IsYes(p) /\ Lost(p, Len(p)))
    BY <2>1, <2>3 DEF Settled
  <2> QED
    BY <2>5, <2>6, <2>7, <2>8, <2>9
<1> QED
  BY <1>1, AlwaysSInv, PTL

(* Once a Yes node is expanded its frame has no other: each was measured   *)
(* to end the frame no earlier, or would have started it after that end.   *)
THEOREM OneYesPerFrame == Spec => []FirstYesIsBest
<1>1. ASSUME SInv PROVE FirstYesIsBest
  <2> SUFFICES ASSUME NEW e \in DOMAIN node, NEW p \in DOMAIN node,
                      Expanded(e), IsYes(e), Expanded(p),
                      EndIt(p) = StartIt(e), Append(p, "yes") # e
               PROVE  LET q == Append(p, "yes") IN
                      /\ q \notin queue
                      /\ ~Expanded(q)
                      /\ node[e].cost <=
                           node[IF q \in DOMAIN node THEN q ELSE p].cost
    BY DEF FirstYesIsBest
  <2>1. Tree /\ Place /\ Fringe /\ Closed /\ Settled
    BY <1>1 DEF SInv
  <2>2. PICK q : q = Append(p, "yes")
    OBVIOUS
  <2>3. /\ e \in Path /\ p \in Path
        /\ Len(e) \in Nat /\ Len(p) \in Nat /\ Len(e) >= 3
        /\ Len(e) <= NFrames + 1
        /\ Len(e) = Len(p) + 1 /\ FrameOf(e) = Len(e) - 2
    BY <2>1, PathIts, SameFrame DEF Tree, Path
  <2>4. ~IsFinal(p)
    <3>1. Len(p) # NFrames + 1
      BY <2>3, Params
    <3> QED
      BY <2>3, <3>1, PathIts
  <2>5. /\ q \in Path /\ Len(q) = Len(e) /\ Parent(q) = p
        /\ DecisionOf(q) = "yes" /\ FrameOf(q) = FrameOf(e) /\ IsYes(q)
    <3>1. "yes" \in Decision
      BY DEF Decision
    <3>2. /\ q \in Path /\ Len(q) = Len(p) + 1 /\ Parent(q) = p
          /\ DecisionOf(q) = "yes" /\ FrameOf(q) = Len(p) - 1
      BY <2>2, <2>3, <2>4, <3>1, ChildPath
    <3>3. Len(p) - 1 = Len(e) - 2 /\ Len(q) >= 3
      BY <2>3, <3>2
    <3> QED
      BY <2>3, <3>2, <3>3, PathIts
  <2>6. Closer(e, Len(e))
    BY DEF Closer
  <2>7. ASSUME NEW h, Closer(h, Len(e)) PROVE h = e
    BY <2>1, <2>6, <2>7 DEF Closed
  <2>8. q \notin queue
    BY <2>1, <2>5, <2>6 DEF Closed
  <2>9. ~Expanded(q)
    <3>1. ASSUME Expanded(q) PROVE q \in DOMAIN node
      <4>1. CASE q = current
        <5>1. current # <<>>
          BY <2>3, <2>5, <4>1
        <5> QED
          BY <2>1, <4>1, <5>1 DEF Place
      <4>2. CASE Append(q, "no") \in DOMAIN node
        <5>1. Parent(Append(q, "no")) = q /\ Len(Append(q, "no")) >= 2
          BY <2>5, After DEF Decision
        <5> QED
          BY <2>1, <4>2, <5>1 DEF Tree
      <4> QED
        BY <3>1, <4>1, <4>2 DEF Expanded
    <3>2. Expanded(q) => Closer(q, Len(e))
      BY <2>5, <3>1 DEF Closer
    <3> QED
      BY <2>2, <2>7, <3>2
  <2>10. CASE q \in DOMAIN node
    <3>1. Lost(q, Len(e))
      BY <2>1, <2>5, <2>8, <2>9, <2>10 DEF Settled
    <3>2. node[e].cost <= node[q].cost
      BY <2>7, <3>1 DEF Lost
    <3> QED
      BY <2>2, <2>8, <2>9, <2>10, <3>2
  <2>11. CASE q \notin DOMAIN node
    <3>1. Len(p) # 1 /\ "yes" \in Decision
      <4>1. 1 + 1 # Len(e)
        BY <2>3
      <4>2. Len(p) # 1
        BY <2>3, <4>1
      <4> QED
        BY <4>2 DEF Decision
    <3>2. Awaits(q, todo) \/ Lost(p, Len(e))
      BY <2>1, <2>2, <2>3, <2>4, <2>11, <3>1 DEF Settled
    <3>3. CASE Awaits(q, todo)
      <4>1. current # <<>> /\ current \in Path
            /\ \E x \in Decision : q = Append(current, x)
        BY <2>1, <3>3, AwaitsChild
      <4>2. p = current
        BY <2>2, <2>3, <4>1, Appended
      <4> QED
        BY <2>1, <2>2, <2>8, <2>9, <2>11, <4>1, <4>2 DEF Fringe
    <3>4. CASE Lost(p, Len(e))
      <4>1. node[e].cost <= node[p].cost
        BY <2>7, <3>4 DEF Lost
      <4> QED
        BY <2>2, <2>8, <2>9, <2>11, <4>1
    <3> QED
      BY <3>2, <3>3, <3>4
  <2> QED
    BY <2>10, <2>11
<1> QED
  BY <1>1, AlwaysSInv, PTL

(* The particles that a child is computed from were saved, and are those   *)
(* at the start of its frame; every file but the last holds its own frame. *)
THEOREM FramesSaved == Spec => []SnapshotOfFrame
<1>1. ASSUME SInv PROVE SnapshotOfFrame
  <2>1. Tree /\ Place /\ Saved /\ Written
    BY <1>1 DEF SInv
  <2>2. ASSUME NEW k \in DOMAIN todo
        PROVE  rollback[FrameOf(todo[k])] # NoData
    <3>1. Awaits(todo[k], todo)
      BY DEF Awaits
    <3>2. /\ current \in DOMAIN node /\ current \in Path /\ ~IsFinal(current)
          /\ \E x \in Decision : todo[k] = Append(current, x)
      BY <2>1, <3>1, AwaitsChild
    <3>3. FrameOf(todo[k]) = Len(current) - 1
      BY <3>2, ChildPath
    <3>4. Len(current) - 1 \in 0..(NFrames - 1)
      <4>1. /\ Len(current) \in Nat /\ Len(current) >= 1
            /\ Len(current) <= NFrames + 1 /\ Len(current) # NFrames + 1
        BY <3>2, PathIts DEF Path
      <4> QED
        BY <4>1, Params
    <3> QED
      BY <2>1, <3>2, <3>3, <3>4 DEF Saved
  <2> QED
    BY <2>1, <2>2 DEF SnapshotOfFrame, Saved, Written
<1> QED
  BY <1>1, AlwaysSInv, PTL

(* The queue is never empty while the search goes on, and the costs of the *)
(* nodes it gives out only grow.                                           *)
THEOREM CostsGrow == Spec => []QueueOrdered
<1>1. ASSUME SInv PROVE QueueOrdered
  <2>1. Place /\ Fringe
    BY <1>1 DEF SInv
  <2> QED
    BY <2>1 DEF QueueOrdered, Place, Fringe, Expanded
<1> QED
  BY <1>1, AlwaysSInv, PTL

-----------------------------------------------------------------------------
(***************************************************************************)
(* The histories.  Every node went on from what its parent recorded; the   *)
(* nodes of a path are all there, so that their records add up to those of *)
(* the whole run.                                                          *)
(***************************************************************************)
YesAt(p) == {f \in 0..(Len(p) - 2) : p[f + 2] = "yes"}

(* What a node n at the end of path p has recorded.                        *)
Records(p, n) ==
    /\ p[1] = "yes"
    /\ n.lbTimes \in Seq(Nat) /\ Len(n.lbTimes) = Cardinality(YesAt(p))
    /\ n.effs \in Nat
    /\ Len(p) >= 2 =>
          /\ n.effs > 0
          /\ n.decs = DecHist(p)
          /\ n.times \in [1..NPFrame -> Nat]
          /\ n.times[NPFrame] = n.cost
          /\ \A a, b \in 1..NPFrame : a <= b => n.times[a] <= n.times[b]

(* How it goes on from what its parent recorded.                           *)
GoesOnFrom(p, n, up) ==
    /\ up.cost <= n.times[1]
    /\ DecisionOf(p) # "yes" => n.lbTimes = up.lbTimes
    /\ DecisionOf(p) = "yes" =>
          \E l \in Nat : /\ n.lbTimes = Append(up.lbTimes, l)
                        /\ up.cost + l <= n.times[1]

(* t begins with s.                                                        *)
Begun(s, t) == Len(s) <= Len(t) /\ \A j \in 1..Len(s) : t[j] = s[j]

(* All the way to p is in the tree, and load-balancing times stay.         *)
HandedDown(p, tree) ==
    \A n \in 1..Len(p) : /\ SubSeq(p, 1, n) \in DOMAIN tree
                         /\ Begun(tree[SubSeq(p, 1, n)].lbTimes,
                                  tree[p].lbTimes)

Histories ==
    \A p \in DOMAIN node :
        /\ Records(p, node[p])
        /\ HandedDown(p, node)
        /\ Len(p) >= 2 => GoesOnFrom(p, node[p], node[Parent(p)])

LEMMA YesOfChild ==
    ASSUME NEW p \in Path, ~IsFinal(p), NEW x \in Decision
    PROVE  /\ IsFiniteSet(YesAt(p)) /\ Cardinality(YesAt(p)) \in Nat
           /\ Cardinality(YesAt(Append(p, x))) =
                 Cardinality(YesAt(p)) + (IF x = "yes" THEN 1 ELSE 0)
<1> DEFINE c == Append(p, x)
           new == Len(p) - 1
<1>1. /\ p \in Seq(Decision) /\ Len(p) \in Nat /\ Len(p) >= 1
      /\ Len(c) = Len(p) + 1
      /\ \A k \in 1..Len(p) : c[k] = p[k]
      /\ c[Len(p) + 1] = x
  BY DEF Path
<1> HIDE DEF c
<1>2. IsFiniteSet(0..(Len(p) - 2))
  BY <1>1, FS_Interval
<1>3. IsFiniteSet(YesAt(p)) /\ Cardinality(YesAt(p)) \in Nat
  <2>1. YesAt(p) \in SUBSET (0..(Len(p) - 2))
    BY DEF YesAt
  <2> QED
    BY <1>2, <2>1, FS_Subset, FS_CardinalityType
<1>4. new \notin YesAt(p)
  BY <1>1 DEF YesAt
<1>5. \A f : f \in YesAt(c) <=> f \in YesAt(p) \/ (f = new /\ x = "yes")
  <2>1. ASSUME NEW f \in 0..(Len(p) - 2)
        PROVE  /\ f \in 0..((Len(p) + 1) - 2) /\ f + 2 \in 1..Len(p)
    BY <1>1
  <2>2. /\ new \in 0..((Len(p) + 1) - 2) /\ new + 2 = Len(p) + 1
        /\ \A f \in 0..((Len(p) + 1) - 2) : f \in 0..(Len(p) - 2) \/ f = new
    BY <1>1
  <2>3. YesAt(c) = {f \in 0..((Len(p) + 1) - 2) : c[f + 2] = "yes"}
    BY <1>1 DEF YesAt
  <2>4. \A f \in 0..(Len(p) - 2) : c[f + 2] = p[f + 2]
    BY <1>1, <2>1
  <2>5. c[new + 2] = x
    BY <1>1, <2>2
  <2>6. YesAt(p) = {f \in 0..(Len(p) - 2) : p[f + 2] = "yes"}
    BY DEF YesAt
  <2> HIDE DEF new
  <2> QED
    BY <2>1, <2>2, <2>3, <2>4, <2>5, <2>6
<1>6. CASE x = "yes"
  <2>1. YesAt(c) = YesAt(p) \cup {new}
    BY <1>5, <1>6
  <2> HIDE DEF new
  <2> QED
    BY <1>3, <1>4, <1>6, <2>1, FS_AddElement DEF c
<1>7. CASE x # "yes"
  <2>1. YesAt(c) = YesAt(p)
    BY <1>5, <1>7
  <2> QED
    BY <1>3, <1>7, <2>1 DEF c
<1> QED
  BY <1>6, <1>7

LEMMA OneOrMore ==
    ASSUME NEW n \in Nat, n >= 1 PROVE n = 1 \/ n >= 2
OBVIOUS

LEMMA FunctionIsSeq ==
    ASSUME NEW n \in Nat, NEW S, NEW f \in [1..n -> S]
    PROVE  f \in Seq(S) /\ Len(f) = n
OBVIOUS

LEMMA TruthsAre ==
    ASSUME NEW n, NEW e
    PROVE  [j \in 1..n |-> e = "yes" /\ j = 1] \in [1..n -> BOOLEAN]
OBVIOUS

LEMMA SumGrows ==
    ASSUME NEW a \in Nat, NEW b \in Nat, NEW c \in Nat, b <= c
    PROVE  a + b <= a + c
OBVIOUS

LEMMA SumNotLess ==
    ASSUME NEW a \in Nat, NEW b \in Nat PROVE a <= a + b
OBVIOUS

(* What the batch of a child records.                                      *)
LEMMA ChildRecords ==
    ASSUME Tree, Histories, NEW p \in DOMAIN node, ~IsFinal(p),
           NEW x \in Decision, NEW c, c = Append(p, x),
           NEW t \in BatchTimes, NEW l \in LBTimes
    PROVE  /\ Records(c, Computed(c, t, l))
           /\ GoesOnFrom(c, Computed(c, t, l), node[p])
<1> DEFINE new == Computed(c, t, l)
<1>1. /\ p \in Path /\ p \in Seq(Decision) /\ Len(p) \in Nat /\ Len(p) >= 1
      /\ node[p].cost \in Nat
  BY DEF Tree, Path
<1>2. Parent(c) = p /\ DecisionOf(c) = x
  BY <1>1, ChildPath
<1>3. Records(p, node[p])
  BY DEF Histories
<1>4. c[1] = "yes"
  <2>1. c[1] = p[1]
    BY <1>1
  <2> QED
    BY <1>3, <2>1 DEF Records
<1>5. Cardinality(YesAt(p)) \in Nat
      /\ Cardinality(YesAt(c)) =
            Cardinality(YesAt(p)) + (IF x = "yes" THEN 1 ELSE 0)
  BY <1>1, YesOfChild
<1>6. /\ new.lbTimes = IF x = "yes" THEN Append(node[p].lbTimes, l)
                                    ELSE node[p].lbTimes
      /\ new.effs = IF DecisionOf(p) = "yes" THEN node[p].effs + NPFrame
                                             ELSE node[p].effs
      /\ new.decs = DecHist(c)
      /\ new.times = [k \in 1..NPFrame |-> node[p].cost + Elapsed(c, t, l, k)]
      /\ new.cost = node[p].cost + Elapsed(c, t, l, NPFrame)
  BY <1>2 DEF Computed
<1> HIDE DEF new
<1>7. /\ l \in Nat
      /\ \A k \in 1..NPFrame : /\ Elapsed(c, t, l, k) \in Nat
                               /\ x = "yes" => Elapsed(c, t, l, k) >= l
      /\ \A a, b \in 1..NPFrame :
            a <= b => Elapsed(c, t, l, a) <= Elapsed(c, t, l, b)
  BY <1>2, ElapsedIs
<1>8. new.lbTimes \in Seq(Nat) /\ Len(new.lbTimes) = Cardinality(YesAt(c))
  <2>1. /\ node[p].lbTimes \in Seq(Nat)
        /\ Len(node[p].lbTimes) = Cardinality(YesAt(p))
    BY <1>3 DEF Records
  <2>2. CASE x = "yes"
    BY <1>5, <1>6, <1>7, <2>1, <2>2
  <2>3. CASE x # "yes"
    BY <1>5, <1>6, <2>1, <2>3
  <2> QED
    BY <2>2, <2>3
<1>9. new.effs \in Nat /\ new.effs > 0
  <2>1. node[p].effs \in Nat /\ (Len(p) >= 2 => node[p].effs > 0)
    BY <1>3 DEF Records
  <2>2. Len(p) = 1 => DecisionOf(p) = "yes"
    BY <1>1, <1>3 DEF Records, DecisionOf, Last
  <2>3. Len(p) = 1 \/ Len(p) >= 2
    BY <1>1, OneOrMore
  <2> QED
    BY <1>6, <2>1, <2>2, <2>3, Params
<1>10. 1 \in 1..NPFrame /\ NPFrame \in 1..NPFrame
  BY Params
<1>11. /\ new.times \in [1..NPFrame -> Nat]
       /\ new.times[NPFrame] = new.cost
       /\ \A a, b \in 1..NPFrame : a <= b => new.times[a] <= new.times[b]
       /\ node[p].cost <= new.times[1]
       /\ x = "yes" => node[p].cost + l <= new.times[1]
  <2>1. PICK e : e = [k \in 1..NPFrame |-> Elapsed(c, t, l, k)]
    OBVIOUS
  <2>2. /\ \A k \in 1..NPFrame : e[k] \in Nat /\ (x = "yes" => e[k] >= l)
        /\ \A a, b \in 1..NPFrame : a <= b => e[a] <= e[b]
        /\ new.times = [k \in 1..NPFrame |-> node[p].cost + e[k]]
        /\ new.cost = node[p].cost + e[NPFrame]
    BY <1>6, <1>7, <1>10, <2>1
  <2>3. PICK a : a = node[p].cost
    OBVIOUS
  <2>4. a \in Nat /\ new.cost = a + e[NPFrame]
        /\ new.times = [k \in 1..NPFrame |-> a + e[k]]
    BY <1>1, <2>2, <2>3
  <2>5. /\ new.times \in [1..NPFrame -> Nat]
        /\ \A k \in 1..NPFrame : new.times[k] = a + e[k]
    BY <2>2, <2>4
  <2>6. \A k, m \in 1..NPFrame : k <= m => new.times[k] <= new.times[m]
    BY <2>2, <2>4, <2>5, SumGrows
  <2>7. a <= new.times[1] /\ (x = "yes" => a + l <= new.times[1])
    <3>1. e[1] \in Nat /\ new.times[1] = a + e[1]
          /\ (x = "yes" => e[1] >= l)
      BY <1>10, <2>2, <2>5
    <3> QED
      BY <3>1, <1>7, <2>4, SumGrows, SumNotLess
  <2>8. new.times[NPFrame] = new.cost
    BY <1>10, <2>4, <2>5
  <2> QED
    BY <2>3, <2>5, <2>6, <2>7, <2>8
<1>12. GoesOnFrom(c, new, node[p])
  BY <1>2, <1>6, <1>7, <1>11 DEF GoesOnFrom
<1>13. Records(c, new)
  BY <1>4, <1>6, <1>8, <1>9, <1>11 DEF Records
<1> QED
  BY <1>12, <1>13 DEF new

LEMMA BegunThrough ==
    ASSUME NEW q, NEW s, NEW t, Len(q) \in Nat, Len(s) \in Nat,
           Len(t) \in Nat, Begun(q, s), Begun(s, t)
    PROVE  Begun(q, t)
<1>1. Len(q) <= Len(t)
  BY DEF Begun
<1>2. ASSUME NEW j \in 1..Len(q) PROVE t[j] = q[j]
  <2>1. j \in 1..Len(s)
    BY DEF Begun
  <2> QED
    BY <2>1 DEF Begun
<1> QED
  BY <1>1, <1>2 DEF Begun

(* A child begins with what its parent began with.                         *)
LEMMA WayToChild ==
    ASSUME Tree, Histories, NEW p \in DOMAIN node, NEW x \in Decision,
           NEW c, c = Append(p, x), c \notin DOMAIN node,
           NEW n, GoesOnFrom(c, n, node[p]), n.lbTimes \in Seq(Nat),
           ~IsFinal(p),
           NEW tree, DOMAIN tree = DOMAIN node \cup {c}, tree[c] = n,
           \A q \in DOMAIN node : tree[q] = node[q]
    PROVE  HandedDown(c, tree)
<1>1. p \in Path /\ p \in Seq(Decision) /\ Len(p) \in Nat
  BY DEF Tree, Path
<1>2. HandedDown(p, node) /\ Records(p, node[p]) /\ DecisionOf(c) = x
  BY <1>1, ChildPath DEF Histories
<1>3. Begun(node[p].lbTimes, n.lbTimes)
  <2>1. node[p].lbTimes \in Seq(Nat)
    BY <1>2 DEF Records
  <2>2. ASSUME NEW l \in Nat, n.lbTimes = Append(node[p].lbTimes, l)
        PROVE  Begun(node[p].lbTimes, n.lbTimes)
    BY <2>1, <2>2 DEF Begun
  <2>3. ASSUME n.lbTimes = node[p].lbTimes
        PROVE  Begun(node[p].lbTimes, n.lbTimes)
    BY <2>1, <2>3 DEF Begun
  <2> QED
    BY <2>2, <2>3 DEF GoesOnFrom
<1>4. ASSUME NEW m \in 1..Len(c)
      PROVE  /\ SubSeq(c, 1, m) \in DOMAIN tree
             /\ Begun(tree[SubSeq(c, 1, m)].lbTimes, tree[c].lbTimes)
  <2>1. Len(c) = Len(p) + 1 /\ m \in Nat
    BY <1>1
  <2>2. CASE m = Len(c)
    <3>1. SubSeq(c, 1, Len(c)) = c
      BY <1>1
    <3>2. Begun(n.lbTimes, n.lbTimes)
      <4>1. Len(n.lbTimes) \in Nat
        OBVIOUS
      <4> QED
        BY <4>1 DEF Begun
    <3> QED
      BY <2>2, <3>1, <3>2
  <2>3. CASE m # Len(c)
    <3>1. m \in 1..Len(p)
      BY <2>1, <2>3
    <3>2. SubSeq(c, 1, m) = SubSeq(p, 1, m)
      BY <1>1, <3>1
    <3>3. PICK q : q = SubSeq(p, 1, m)
      OBVIOUS
    <3>4. q \in DOMAIN node /\ Begun(node[q].lbTimes, node[p].lbTimes)
      BY <1>2, <3>1, <3>3 DEF HandedDown
    <3>5. Records(q, node[q])
      BY <3>4 DEF Histories
    <3>6. Begun(node[q].lbTimes, n.lbTimes)
      <4>1. Len(node[q].lbTimes) \in Nat /\ Len(node[p].lbTimes) \in Nat
        BY <1>2, <3>5 DEF Records
      <4>2. Len(n.lbTimes) \in Nat
        OBVIOUS
      <4> QED
        BY <1>3, <3>4, <4>1, <4>2, BegunThrough
    <3> QED
      BY <3>2, <3>3, <3>4, <3>6
  <2> QED
    BY <2>2, <2>3
<1> QED
  BY <1>4 DEF HandedDown

LEMMA ChildKeepsHistories ==
    ASSUME SInv, Histories, Child PROVE Histories'
<1>1. todo # <<>> /\ Tree /\ Place /\ Fresh /\ DOMAIN node \subseteq Path
  BY DEF SInv, Tree, Child
<1>2. current \in DOMAIN node /\ ~IsFinal(current)
  BY <1>1, ChildInTurn
<1>3. PICK x \in Decision : Head(todo) = Append(current, x)
                            /\ Awaits(Append(current, x), todo)
  BY <1>1, ChildInTurn
<1>4. PICK p, c : p = current /\ c = Append(p, x)
  OBVIOUS
<1>5. p \in DOMAIN node /\ ~IsFinal(p) /\ c = Head(todo)
      /\ c \notin DOMAIN node
  BY <1>1, <1>2, <1>3, <1>4 DEF Fresh
<1>6. CASE ~Worthwhile(c)
  <2>1. node' = node
    BY <1>5, <1>6 DEF Child
  <2> QED
    BY <2>1 DEF Histories
<1>7. CASE Worthwhile(c)
  <2>1. \E t \in BatchTimes, l \in LBTimes :
           node' = [q \in DOMAIN node \cup {Head(todo)} |->
                       IF q = Head(todo) THEN Computed(Head(todo), t, l)
                                         ELSE node[q]]
    BY <1>5, <1>7 DEF Child
  <2>2. PICK t \in BatchTimes : \E l \in LBTimes :
           node' = [q \in DOMAIN node \cup {c} |->
                       IF q = c THEN Computed(c, t, l) ELSE node[q]]
    BY <1>5, <2>1
  <2>3. PICK l \in LBTimes :
           node' = [q \in DOMAIN node \cup {c} |->
                       IF q = c THEN Computed(c, t, l) ELSE node[q]]
    BY <2>2
  <2>4. PICK new : new = Computed(c, t, l)
    OBVIOUS
  <2>5. /\ DOMAIN node' = DOMAIN node \cup {c}
        /\ node'[c] = new
        /\ \A q \in DOMAIN node : node'[q] = node[q]
    BY <1>5, <2>3, <2>4
  <2>6. Records(c, new) /\ GoesOnFrom(c, new, node[p])
    BY <1>1, <1>4, <1>5, <2>4, ChildRecords
  <2>7. PICK tree : tree = node'
    OBVIOUS
  <2>8. HandedDown(c, tree)
    <3>1. new.lbTimes \in Seq(Nat)
      BY <2>6 DEF Records
    <3> QED
      BY <1>1, <1>4, <1>5, <2>5, <2>6, <2>7, <3>1, WayToChild
  <2>9. Parent(c) = p
    BY <1>1, <1>4, <1>5, ChildPath
  <2>10. ASSUME NEW q \in DOMAIN tree
         PROVE  /\ Records(q, tree[q]) /\ HandedDown(q, tree)
                /\ Len(q) >= 2 => GoesOnFrom(q, tree[q], tree[Parent(q)])
    <3>1. CASE q = c
      BY <1>5, <2>5, <2>6, <2>7, <2>8, <2>9, <3>1
    <3>2. CASE q \in DOMAIN node
      <4>1. /\ Records(q, node[q]) /\ HandedDown(q, node)
            /\ Len(q) >= 2 => GoesOnFrom(q, node[q], node[Parent(q)])
            /\ Len(q) >= 2 => Parent(q) \in DOMAIN node
        BY <1>1, <3>2 DEF Histories, Tree
      <4>2. HandedDown(q, tree)
        BY <2>5, <2>7, <3>2, <4>1 DEF HandedDown
      <4> QED
        BY <2>5, <2>7, <3>2, <4>1, <4>2
    <3> QED
      BY <2>5, <2>7, <3>1, <3>2
  <2> QED
    BY <2>7, <2>10 DEF Histories
<1> QED
  BY <1>6, <1>7

LEMMA InitHistories == ASSUME Init PROVE Histories
<1>1. DOMAIN node = {Root} /\ node[Root] = RootNode
  BY DEF Init
<1>2. Len(Root) = 1 /\ Root[1] = "yes"
  BY DEF Root
<1>3. YesAt(Root) = {}
  BY <1>2 DEF YesAt
<1>4. Records(Root, RootNode)
  BY <1>2, <1>3, FS_EmptySet DEF Records, RootNode
<1>5. HandedDown(Root, node)
  <2>1. Root \in Seq(Decision)
    BY RootIs DEF Path
  <2>2. SubSeq(Root, 1, 1) = Root
    BY <1>2, <2>1
  <2>3. Begun(RootNode.lbTimes, RootNode.lbTimes)
    BY DEF Begun, RootNode
  <2>4. \A n \in 1..Len(Root) : SubSeq(Root, 1, n) = Root
    BY <1>2, <2>2
  <2> QED
    BY <1>1, <2>3, <2>4 DEF HandedDown
<1>6. ~(Len(Root) >= 2)
  BY <1>2
<1>7. ASSUME NEW p \in DOMAIN node
      PROVE  /\ Records(p, node[p]) /\ HandedDown(p, node)
             /\ Len(p) >= 2 => GoesOnFrom(p, node[p], node[Parent(p)])
  BY <1>1, <1>4, <1>5, <1>6
<1> QED
  BY <1>7 DEF Histories

LEMMA AlwaysHistories == Spec => [](SInv /\ Histories)
<1>1. Init => Histories
  BY InitHistories
<1>2. SInv /\ Histories /\ [Next]_vars => Histories'
  <2> SUFFICES ASSUME SInv, Histories, [Next]_vars PROVE Histories'
    OBVIOUS
  <2>1. CASE Child
    BY <2>1, ChildKeepsHistories
  <2>2. CASE Pop \/ Loop \/ RecordFrame \/ UNCHANGED vars
    <3>1. node' = node
      BY <2>2 DEF Pop, Loop, RecordFrame, search, vars
    <3> QED
      BY <3>1 DEF Histories
  <2> QED
    BY <2>1, <2>2 DEF Next, Finished
<1> QED
  BY <1>1, <1>2, AlwaysSInv, PTL DEF Spec

(* The plan of a path that reaches the end, and the paths on the way.      *)
LEMMA PlanOfPath ==
    ASSUME Tree, NEW p \in DOMAIN node, IsFinal(p)
    PROVE  /\ p \in Seq(Decision) /\ Len(p) = NFrames + 1
           /\ PlanOf(p) \in Plans
           /\ \A f \in 0..(NFrames - 1) : PlanOf(p)[f] = p[f + 2]
           /\ EndIt(p) = NbIterations
<1>1. p \in Path /\ p \in Seq(Decision) /\ Len(p) = NFrames + 1
  BY PathIts DEF Tree, Path
<1>2. p[2] = "no"
  BY <1>1, Params DEF Tree
<1>3. PlanOf(p) = [f \in 0..(NFrames - 1) |-> p[f + 2]]
  <2>1. Len(p) - 2 = NFrames - 1
    BY <1>1, Params
  <2> QED
    BY <2>1 DEF PlanOf
<1>4. \A f \in 0..(NFrames - 1) : p[f + 2] \in Decision
  BY <1>1, Params
<1>5. PlanOf(p) \in Plans
  <2>1. 0 \in 0..(NFrames - 1) /\ 0 + 2 = 2
    BY Params
  <2> QED
    BY <1>2, <1>3, <1>4, <2>1 DEF Plans
<1>6. EndIt(p) = NbIterations
  <2>1. EndIt(p) = (Len(p) - 1) * NPFrame /\ Len(p) - 1 = NFrames
    BY <1>1, PathIts, Params
  <2> QED
    BY <2>1 DEF NbIterations
<1> QED
  BY <1>1, <1>3, <1>5, <1>6

(* A node on the way to the end.                                           *)
Passed(p, k, q) ==
    /\ q \in DOMAIN node /\ Len(q) = k + 1 /\ Records(q, node[q])
    /\ DecisionOf(q) = PlanOf(p)[k - 1]
    /\ YesAt(q) = {f \in 0..(k - 1) : PlanOf(p)[f] = "yes"}
    /\ Begun(node[q].lbTimes, node[p].lbTimes)

LEMMA OnTheWay ==
    ASSUME Tree, Histories, NEW p \in DOMAIN node, IsFinal(p),
           NEW k \in 1..NFrames, NEW q, q = SubSeq(p, 1, k + 1)
    PROVE  /\ Passed(p, k, q)
           /\ k = NFrames => q = p
           /\ Parent(q) = SubSeq(p, 1, k)
<1>1. /\ p \in Seq(Decision) /\ Len(p) = NFrames + 1
      /\ \A f \in 0..(NFrames - 1) : PlanOf(p)[f] = p[f + 2]
  BY PlanOfPath
<1>2. k \in Nat /\ k >= 1 /\ k <= NFrames /\ NFrames \in Nat
      /\ k + 1 \in 1..Len(p)
  BY <1>1, Params
<1>3. q \in DOMAIN node /\ Begun(node[q].lbTimes, node[p].lbTimes)
  BY <1>2 DEF Histories, HandedDown
<1>4. Len(q) = k + 1 /\ \A i \in 1..(k + 1) : q[i] = p[i]
  BY <1>1, <1>2
<1>5. YesAt(q) = {f \in 0..(k - 1) : PlanOf(p)[f] = "yes"}
  <2>1. ASSUME NEW f \in 0..(k - 1)
        PROVE  q[f + 2] = PlanOf(p)[f]
    <3>1. f \in 0..(NFrames - 1) /\ f + 2 \in 1..(k + 1)
      BY <1>2
    <3> QED
      BY <1>1, <1>4, <3>1
  <2>2. (k + 1) - 2 = k - 1
    BY <1>2
  <2> QED
    BY <1>4, <2>1, <2>2 DEF YesAt
<1>6. DecisionOf(q) = PlanOf(p)[k - 1]
  <2>1. DecisionOf(q) = q[k + 1]
    BY <1>4 DEF DecisionOf, Last
  <2>2. /\ k - 1 \in 0..(NFrames - 1) /\ (k - 1) + 2 = k + 1
        /\ k + 1 \in 1..(k + 1)
    BY <1>2
  <2> QED
    BY <1>1, <1>4, <2>1, <2>2
<1>7. k = NFrames => q = p
  BY <1>1, <1>2
<1>8. Parent(q) = SubSeq(p, 1, k)
  <2>1. Parent(q) = SubSeq(q, 1, k)
    <3>1. (k + 1) - 1 = k
      BY <1>2
    <3> QED
      BY <1>4, <3>1 DEF Parent, Front
  <2>2. SubSeq(q, 1, k) = SubSeq(p, 1, k)
    BY <1>1, <1>2, <1>4
  <2> QED
    BY <2>1, <2>2
<1>9. Records(q, node[q])
  BY <1>3 DEF Histories
<1> QED
  BY <1>3, <1>4, <1>5, <1>6, <1>7, <1>8, <1>9 DEF Passed

(* The times along a path to the end are those of its nodes.               *)
LEMMA TimesOfPath ==
    ASSUME Tree, Histories, NEW p \in DOMAIN node, IsFinal(p)
    PROVE  /\ TimeHist(p) \in Seq(Nat)
           /\ Len(TimeHist(p)) = NbIterations
           /\ \A f \in 0..(NFrames - 1) : \A j \in 1..NPFrame :
                 TimeHist(p)[f * NPFrame + j] =
                    node[SubSeq(p, 1, f + 2)].times[j]
<1> DEFINE at(k) == SubSeq(p, 1, k + 1)
           ss == [k \in 1..NFrames |-> node[at(k)].times]
<1>1. TimeHist(p) = FlattenSeq(ss)
  <2>1. Len(p) - 1 = NFrames
    BY PlanOfPath, Params
  <2>2. PathNodes(p) = [k \in 1..NFrames |-> at(k)]
    BY <2>1 DEF PathNodes
  <2>3. [k \in DOMAIN PathNodes(p) |-> node[PathNodes(p)[k]].times] = ss
    BY <2>2
  <2> QED
    BY <2>3 DEF TimeHist
<1>2. ASSUME NEW k \in 1..NFrames
      PROVE  ss[k] \in [1..NPFrame -> Nat]
  <2>1. PICK q : q = at(k)
    OBVIOUS
  <2>2. Passed(p, k, q)
    BY <2>1, OnTheWay
  <2>3. Len(q) >= 2 /\ Records(q, node[q])
    BY <2>2 DEF Passed
  <2>4. ss[k] = node[q].times
    BY <2>1
  <2> HIDE DEF ss
  <2> QED
    BY <2>3, <2>4 DEF Records
<1>3. \A f \in 0..(NFrames - 1) :
         ss[f + 1] = node[SubSeq(p, 1, f + 2)].times
  <2>1. ASSUME NEW f \in 0..(NFrames - 1)
        PROVE  f + 1 \in 1..NFrames /\ (f + 1) + 1 = f + 2
    BY Params
  <2> QED
    BY <2>1
<1> HIDE DEF ss
<1>4. ss \in [1..NFrames -> Seq(Nat)]
      /\ \A k \in 1..NFrames : Len(ss[k]) = NPFrame
  <2>1. ASSUME NEW k \in 1..NFrames
        PROVE  ss[k] \in Seq(Nat) /\ Len(ss[k]) = NPFrame
    BY <1>2, Params, FunctionIsSeq
  <2>2. ss = [k \in 1..NFrames |-> ss[k]]
    BY DEF ss
  <2> QED
    BY <2>1, <2>2
<1>5. /\ FlattenSeq(ss) \in Seq(Nat)
      /\ Len(FlattenSeq(ss)) = NFrames * NPFrame
      /\ \A f \in 0..(NFrames - 1) : \A j \in 1..NPFrame :
            FlattenSeq(ss)[f * NPFrame + j] = ss[f + 1][j]
  <2>1. EvenParts(ss, Nat, NFrames, NPFrame)
    BY <1>4, Params DEF EvenParts
  <2>2. PutTogether(FlattenSeq(ss), ss, Nat, NFrames, NPFrame)
    BY <2>1, EqualParts
  <2> QED
    BY <2>2 DEF PutTogether
<1> QED
  BY <1>1, <1>3, <1>5 DEF NbIterations

(* And the decisions.                                                      *)
LEMMA DecisionsOfPath ==
    ASSUME Tree, Histories, NEW p \in DOMAIN node, IsFinal(p)
    PROVE  /\ Decisions(p) \in Seq(BOOLEAN)
           /\ Len(Decisions(p)) = NbIterations
           /\ \A f \in 0..(NFrames - 1) : \A j \in 0..(NPFrame - 1) :
                 Decisions(p)[f * NPFrame + j + 1] =
                    (j = 0 /\ PlanOf(p)[f] = "yes")
<1> DEFINE at(k) == SubSeq(p, 1, k + 1)
           ss == [k \in 1..NFrames |-> node[at(k)].decs]
           d == PlanOf(p)
<1>1. Decisions(p) = FlattenSeq(ss)
  <2>1. Len(p) - 1 = NFrames
    BY PlanOfPath, Params
  <2>2. PathNodes(p) = [k \in 1..NFrames |-> at(k)]
    BY <2>1 DEF PathNodes
  <2>3. [k \in DOMAIN PathNodes(p) |-> node[PathNodes(p)[k]].decs] = ss
    BY <2>2
  <2> QED
    BY <2>3 DEF Decisions
<1>2. ASSUME NEW k \in 1..NFrames
      PROVE  ss[k] = [j \in 1..NPFrame |-> d[k - 1] = "yes" /\ j = 1]
  <2>1. PICK q : q = at(k)
    OBVIOUS
  <2>2. Passed(p, k, q) /\ ss[k] = node[q].decs
    BY <2>1, OnTheWay
  <2> HIDE DEF d, ss
  <2>3. Len(q) >= 2 /\ Records(q, node[q]) /\ DecisionOf(q) = d[k - 1]
    BY <2>2 DEF Passed, d
  <2>4. node[q].decs = DecHist(q)
    BY <2>3 DEF Records
  <2>5. DecHist(q) = [j \in 1..NPFrame |-> d[k - 1] = "yes" /\ j = 1]
    BY <2>3, Zenon DEF DecHist
  <2> QED
    BY <2>2, <2>4, <2>5, Zenon
<1> HIDE DEF ss, d
<1>3. ss \in [1..NFrames -> Seq(BOOLEAN)]
      /\ \A k \in 1..NFrames : Len(ss[k]) = NPFrame
  <2>1. ASSUME NEW k \in 1..NFrames
        PROVE  ss[k] \in Seq(BOOLEAN) /\ Len(ss[k]) = NPFrame
    <3>1. ss[k] \in [1..NPFrame -> BOOLEAN]
      <4>1. PICK e : e = d[k - 1]
        OBVIOUS
      <4>2. ss[k] = [j \in 1..NPFrame |-> e = "yes" /\ j = 1]
        BY <1>2, <4>1
      <4> QED
        BY <4>2, TruthsAre
    <3>2. NPFrame \in Nat
      BY Params
    <3> QED
      BY <3>1, <3>2, FunctionIsSeq
  <2>2. ss = [k \in 1..NFrames |-> ss[k]]
    BY DEF ss
  <2> QED
    BY <2>1, <2>2
<1>4. /\ FlattenSeq(ss) \in Seq(BOOLEAN)
      /\ Len(FlattenSeq(ss)) = NFrames * NPFrame
      /\ \A f \in 0..(NFrames - 1) : \A j \in 1..NPFrame :
            FlattenSeq(ss)[f * NPFrame + j] = ss[f + 1][j]
  <2>1. EvenParts(ss, BOOLEAN, NFrames, NPFrame)
    BY <1>3, Params DEF EvenParts
  <2>2. PutTogether(FlattenSeq(ss), ss, BOOLEAN, NFrames, NPFrame)
    BY <2>1, EqualParts
  <2> QED
    BY <2>2 DEF PutTogether
<1>5. ASSUME NEW f \in 0..(NFrames - 1), NEW j \in 0..(NPFrame - 1)
      PROVE  Decisions(p)[f * NPFrame + j + 1] = (j = 0 /\ d[f] = "yes")
  <2>1. /\ f * NPFrame \in Int /\ j + 1 \in 1..NPFrame
        /\ f + 1 \in 1..NFrames /\ (f + 1) - 1 = f
        /\ j + 1 = 1 <=> j = 0
    BY Params, Earlier
  <2>2. f * NPFrame + j + 1 = f * NPFrame + (j + 1)
    BY <2>1
  <2>3. Decisions(p)[f * NPFrame + (j + 1)] = ss[f + 1][j + 1]
    BY <1>1, <1>4, <2>1
  <2>4. ss[f + 1] = [i \in 1..NPFrame |-> d[f] = "yes" /\ i = 1]
    BY <1>2, <2>1
  <2>5. ss[f + 1][j + 1] = (d[f] = "yes" /\ j + 1 = 1)
    BY <2>1, <2>4
  <2>6. (d[f] = "yes" /\ j + 1 = 1) = (j = 0 /\ d[f] = "yes")
    BY <2>1
  <2> QED
    BY <2>2, <2>3, <2>5, <2>6, Zenon
<1> QED
  BY <1>1, <1>4, <1>5 DEF NbIterations, d

(* Up to any iteration of a frame a path has decided as often as it has    *)
(* Yes nodes up to the frame.                                              *)
LEMMA DecisionsCounted ==
    ASSUME Tree, Histories, NEW p \in DOMAIN node, IsFinal(p),
           NEW h \in 0..(NFrames - 1), NEW n \in 1..NbIterations,
           h * NPFrame < n, n <= h * NPFrame + NPFrame
    PROVE  Cardinality({i \in 1..n : Decisions(p)[i]}) =
              Cardinality({f \in 0..h : PlanOf(p)[f] = "yes"})
<1> DEFINE S == {i \in 1..n : Decisions(p)[i]}
           Y == {f \in 0..h : PlanOf(p)[f] = "yes"}
           g == [f \in Y |-> f * NPFrame + 1]
<1>1. \A f \in 0..(NFrames - 1) : \A j \in 0..(NPFrame - 1) :
         Decisions(p)[f * NPFrame + j + 1] = (j = 0 /\ PlanOf(p)[f] = "yes")
  BY DecisionsOfPath
<1>2. h \in Nat /\ h \in Int /\ h * NPFrame \in Int /\ n \in Nat
      /\ n <= NbIterations
  BY Params, Earlier
<1>3. \A f : f \in Y <=> f \in 0..h /\ PlanOf(p)[f] = "yes"
  OBVIOUS
<1>4. IsFiniteSet(Y)
  <2>1. Y \in SUBSET (0..h) /\ IsFiniteSet(0..h)
    BY <1>2, FS_Interval
  <2> HIDE DEF Y
  <2> QED
    BY <2>1, FS_Subset
<1> HIDE DEF Y
<1>5. ASSUME NEW f \in Y PROVE g[f] \in S
  <2>1. f \in 0..h /\ f \in 0..(NFrames - 1) /\ PlanOf(p)[f] = "yes"
        /\ f \in Int /\ f <= h
    BY <1>3, Params
  <2>2. 0 \in 0..(NPFrame - 1)
    BY Params
  <2>3. f * NPFrame \in It /\ f * NPFrame + 0 = f * NPFrame
    BY <2>1, <2>2, ItOf DEF It
  <2>4. f * NPFrame + 1 \in 1..n
    <3>1. f * NPFrame <= h * NPFrame
      BY <1>2, <2>1, Earlier
    <3>2. f * NPFrame \in Nat
      BY <2>3 DEF It
    <3> QED
      BY <1>2, <3>1, <3>2
  <2>5. Decisions(p)[f * NPFrame + 0 + 1] = (0 = 0 /\ PlanOf(p)[f] = "yes")
    BY <1>1, <2>1, <2>2
  <2>6. Decisions(p)[f * NPFrame + 1] = (0 = 0 /\ PlanOf(p)[f] = "yes")
    BY <2>3, <2>5
  <2>7. Decisions(p)[f * NPFrame + 1]
    BY <2>1, <2>6, Zenon
  <2> QED
    BY <2>4, <2>7
<1>6. ASSUME NEW f \in Y, NEW e \in Y, g[f] = g[e] PROVE f = e
  <2>1. f \in Int /\ e \in Int
    BY <1>3
  <2>2. f * NPFrame \in Int /\ e * NPFrame \in Int
    BY <2>1, Earlier
  <2>3. f * NPFrame + 1 = e * NPFrame + 1
    BY <1>6
  <2>4. f * NPFrame = e * NPFrame
    BY <2>2, <2>3
  <2> QED
    BY <2>1, <2>4, Earlier
<1>7. ASSUME NEW i \in S PROVE \E f \in Y : g[f] = i
  <2>1. i \in 1..n /\ Decisions(p)[i]
    OBVIOUS
  <2>2. i - 1 \in It /\ (i - 1) + 1 = i
    BY <1>2, <2>1, Params DEF It
  <2>3. PICK f \in 0..(NFrames - 1) : \E j \in 0..(NPFrame - 1) :
            i - 1 = f * NPFrame + j
    BY <2>2, EveryIt
  <2>4. PICK j \in 0..(NPFrame - 1) : i - 1 = f * NPFrame + j
    BY <2>3
  <2>5. f * NPFrame + j + 1 = i
    BY <2>2, <2>4
  <2>6. Decisions(p)[i] = (j = 0 /\ PlanOf(p)[f] = "yes")
    BY <1>1, <2>5
  <2>7. j = 0 /\ PlanOf(p)[f] = "yes"
    BY <2>1, <2>6, Zenon
  <2>8. f \in Int /\ f * NPFrame \in Int /\ f * NPFrame + 1 = i
    <3>1. f \in Int /\ f * NPFrame \in Int
      BY Earlier
    <3> QED
      BY <2>5, <2>7, <3>1
  <2>9. f <= h
    <3>1. h < f => h * NPFrame + NPFrame <= f * NPFrame
      BY <1>2, <2>8, Earlier
    <3>2. f * NPFrame < n
      BY <2>1, <2>8
    <3>3. ~(h * NPFrame + NPFrame <= f * NPFrame)
      BY <1>2, <2>8, <3>2, Params
    <3> QED
      BY <1>2, <2>8, <3>1, <3>3
  <2>10. f \in Y
    BY <1>3, <2>7, <2>9
  <2> QED
    BY <2>8, <2>10
<1>8. g \in Bijection(Y, S)
  <2>1. g \in [Y -> S]
    BY <1>5
  <2> HIDE DEF g, S
  <2>2. g \in Injection(Y, S)
    BY <1>6, <2>1 DEF Injection, IsInjective
  <2>3. g \in Surjection(Y, S)
    BY <1>7, <2>1 DEF Surjection
  <2> QED
    BY <2>2, <2>3 DEF Bijection
<1> HIDE DEF g, S
<1>9. Cardinality(S) = Cardinality(Y)
  BY <1>4, <1>8, FS_Bijection DEF ExistsBijection
<1> QED
  BY <1>9 DEF S, Y

(* One iteration of a path to the end.                                     *)
TimedWell(p, time, dec, lb, i) ==
    LET At(k) == IF k = 0 THEN 0 ELSE time[k] IN
    /\ At(i) <= At(i + 1)
    /\ dec[i + 1] = (/\ i % NPFrame = 0
                     /\ PlanOf(p)[i \div NPFrame] = "yes")
    /\ dec[i + 1] => At(i + 1) - At(i) >=
                        lb[Cardinality({j \in 1..(i + 1) : dec[j]})]

LEMMA IterationOfPath ==
    ASSUME Tree, Histories, NEW p \in DOMAIN node, IsFinal(p), NEW i \in It
    PROVE  TimedWell(p, TimeHist(p), Decisions(p), node[p].lbTimes, i)
<1> DEFINE time == TimeHist(p)
           dec == Decisions(p)
           lb == node[p].lbTimes
           At(k) == IF k = 0 THEN 0 ELSE time[k]
<1>1. PICK f \in 0..(NFrames - 1) : \E j \in 0..(NPFrame - 1) :
          i = f * NPFrame + j
  BY EveryIt
<1>2. PICK j \in 0..(NPFrame - 1) : i = f * NPFrame + j
  BY <1>1
<1>3. PICK b : b = f * NPFrame
  OBVIOUS
<1>4. /\ f \in Nat /\ j \in Nat /\ b \in Nat /\ i = b + j /\ i \in Nat
      /\ i + 1 = b + (j + 1) /\ j + 1 \in 1..NPFrame
      /\ f + 1 \in 1..NFrames /\ (f + 1) + 1 = f + 2 /\ (f + 1) - 1 = f
      /\ i + 1 # 0 /\ i + 1 \in 1..NbIterations
  <2>1. f * NPFrame \in It /\ i \in It
    BY ItOf
  <2>2. b \in Nat /\ i \in 0..(NbIterations - 1)
    BY <1>3, <2>1 DEF It
  <2>3. i = b + j
    BY <1>2, <1>3
  <2>4. f \in Nat /\ f < NFrames /\ j \in Nat /\ j < NPFrame
    BY Params
  <2> QED
    BY <2>2, <2>3, <2>4, Params
<1>5. i \div NPFrame = f /\ i % NPFrame = j
  BY <1>2, <1>4, FrameAndRest
<1>6. dec[i + 1] = (j = 0 /\ PlanOf(p)[f] = "yes")
  <2>1. dec[f * NPFrame + j + 1] = (j = 0 /\ PlanOf(p)[f] = "yes")
    BY DecisionsOfPath
  <2>2. f * NPFrame + j + 1 = i + 1
    BY <1>2
  <2> QED
    BY <2>1, <2>2, Zenon
<1>7. \A e \in 0..(NFrames - 1) : \A k \in 1..NPFrame :
         time[e * NPFrame + k] = node[SubSeq(p, 1, e + 2)].times[k]
  BY TimesOfPath
<1>8. PICK q : q = SubSeq(p, 1, f + 2)
  OBVIOUS
<1>9. Passed(p, f + 1, q) /\ Parent(q) = SubSeq(p, 1, f + 1)
  BY <1>4, <1>8, OnTheWay
<1>10. /\ q \in DOMAIN node /\ Len(q) >= 2 /\ Records(q, node[q])
       /\ DecisionOf(q) = PlanOf(p)[f]
       /\ YesAt(q) = {e \in 0..f : PlanOf(p)[e] = "yes"}
       /\ Begun(node[q].lbTimes, lb)
  <2>1. Len(q) = (f + 1) + 1
    BY <1>9 DEF Passed
  <2>2. Len(q) >= 2
    BY <1>4, <2>1
  <2> QED
    BY <1>4, <1>9, <2>2 DEF Passed
<1>11. /\ node[q].times \in [1..NPFrame -> Nat]
       /\ \A k, m \in 1..NPFrame :
             k <= m => node[q].times[k] <= node[q].times[m]
       /\ node[q].lbTimes \in Seq(Nat)
       /\ Len(node[q].lbTimes) = Cardinality(YesAt(q))
  BY <1>10 DEF Records
<1>12. At(i + 1) = node[q].times[j + 1]
  BY <1>3, <1>4, <1>7, <1>8
<1>13. GoesOnFrom(q, node[q], node[Parent(q)])
  BY <1>10 DEF Histories
<1> HIDE DEF time, dec, lb
<1>14. CASE j # 0
  <2>1. j \in 1..NPFrame /\ i # 0
    <3>1. i # 0
      BY <1>4, <1>14
    <3>2. j <= NPFrame
      BY Params
    <3> QED
      BY <1>4, <1>14, <3>1, <3>2
  <2>2. At(i) = node[q].times[j]
    BY <1>3, <1>4, <1>7, <1>8, <2>1
  <2>3. node[q].times[j] <= node[q].times[j + 1]
    BY <1>4, <1>11, <2>1
  <2>4. ~dec[i + 1]
    BY <1>6, <1>14, Zenon
  <2>5. At(i) <= At(i + 1)
    BY <1>12, <2>2, <2>3
  <2>6. dec[i + 1] = (i % NPFrame = 0 /\ PlanOf(p)[i \div NPFrame] = "yes")
    BY <1>5, <1>6, Zenon
  <2> QED
    BY <2>4, <2>5, <2>6, Zenon DEF TimedWell, time, dec, lb
<1>15. CASE j = 0 /\ f = 0
  <2>1. i = 0 /\ At(i) = 0
    <3>1. 0 * NPFrame = 0
      BY Params
    <3> QED
      BY <1>2, <1>15, <3>1
  <2>2. At(i) <= At(i + 1)
    <3>1. node[q].times[j + 1] \in Nat
      BY <1>4, <1>11
    <3> QED
      BY <1>12, <2>1, <3>1
  <2>3. ~dec[i + 1]
    <3>1. PlanOf(p)[0] = "no"
      BY PlanOfPath DEF Plans
    <3>2. PlanOf(p)[f] # "yes"
      BY <1>15, <3>1
    <3> QED
      BY <1>6, <3>2, Zenon
  <2>4. dec[i + 1] = (i % NPFrame = 0 /\ PlanOf(p)[i \div NPFrame] = "yes")
    BY <1>5, <1>6, Zenon
  <2> QED
    BY <2>2, <2>3, <2>4, Zenon DEF TimedWell, time, dec, lb
<1>16. CASE j = 0 /\ f # 0
  <2>1. /\ f - 1 \in 0..(NFrames - 1) /\ (f - 1) + 2 = f + 1
        /\ f \in 1..NFrames /\ f \in Int /\ f - 1 \in Int /\ (f - 1) + 1 = f
    BY <1>4, <1>16, Params
  <2>2. PICK u : u = Parent(q)
    OBVIOUS
  <2>3. Passed(p, f, u)
    BY <1>9, <2>1, <2>2, OnTheWay
  <2>4. u \in DOMAIN node /\ Len(u) = f + 1 /\ Records(u, node[u])
    BY <2>3 DEF Passed
  <2>5. /\ node[u].times[NPFrame] = node[u].cost
        /\ node[u].cost \in Nat /\ node[u].lbTimes \in Seq(Nat)
    <3>1. Len(u) >= 2
      BY <1>4, <1>16, <2>4
    <3> QED
      BY <2>4, <3>1 DEF Records, Tree
  <2>6. At(i) = node[u].cost
    <3>1. i = b /\ i # 0 /\ b = (f - 1) * NPFrame + NPFrame
      <4>1. b = (f - 1) * NPFrame + NPFrame
        BY <1>3, <2>1, Earlier
      <4>2. 0 * NPFrame = 0 /\ 0 * NPFrame + NPFrame <= f * NPFrame
        <5>1. 0 < f /\ 0 \in Int
          BY <1>4, <1>16
        <5> QED
          BY <2>1, <5>1, Earlier, Params
      <4> QED
        BY <1>3, <1>4, <1>16, <4>1, <4>2, Params
    <3>2. NPFrame \in 1..NPFrame
      BY Params
    <3>3. time[(f - 1) * NPFrame + NPFrame] =
             node[SubSeq(p, 1, (f - 1) + 2)].times[NPFrame]
      BY <1>7, <2>1, <3>2
    <3> QED
      BY <1>9, <2>1, <2>2, <2>5, <3>1, <3>3
  <2>7. At(i + 1) = node[q].times[1] /\ node[q].times[1] \in Nat
    <3>1. j + 1 = 1 /\ 1 \in 1..NPFrame
      BY <1>16, Params
    <3> QED
      BY <1>11, <1>12, <3>1
  <2>8. node[u].cost <= node[q].times[1]
    BY <1>13, <2>2 DEF GoesOnFrom
  <2>9. At(i) <= At(i + 1)
    BY <2>5, <2>6, <2>7, <2>8
  <2>10. dec[i + 1] = (i % NPFrame = 0 /\ PlanOf(p)[i \div NPFrame] = "yes")
    BY <1>5, <1>6, Zenon
  <2>11. ASSUME dec[i + 1]
         PROVE  At(i + 1) - At(i) >=
                   lb[Cardinality({k \in 1..(i + 1) : dec[k]})]
    <3>1. PlanOf(p)[f] = "yes"
      BY <1>6, <2>11, Zenon
    <3>2. PICK l \in Nat : /\ node[q].lbTimes = Append(node[u].lbTimes, l)
                           /\ node[u].cost + l <= node[q].times[1]
      BY <1>10, <1>13, <2>2, <3>1 DEF GoesOnFrom
    <3>3. PICK n : n = Len(node[q].lbTimes)
      OBVIOUS
    <3>4. node[q].lbTimes[n] = l /\ n \in 1..n
      BY <2>5, <3>2, <3>3
    <3>5. lb[n] = l
      BY <1>10, <3>3, <3>4 DEF Begun
    <3>6. Cardinality({k \in 1..(i + 1) : dec[k]}) = n
      <4>1. f * NPFrame < i + 1 /\ i + 1 <= f * NPFrame + NPFrame
        BY <1>3, <1>4, <1>16, Params
      <4>2. Cardinality({k \in 1..(i + 1) : Decisions(p)[k]}) =
               Cardinality({e \in 0..f : PlanOf(p)[e] = "yes"})
        BY <1>4, <4>1, DecisionsCounted
      <4> QED
        BY <1>10, <1>11, <3>3, <4>2 DEF dec
    <3>7. At(i + 1) - At(i) >= l
      BY <2>5, <2>6, <2>7, <3>2
    <3> QED
      BY <3>5, <3>6, <3>7
  <2> QED
    BY <2>9, <2>10, <2>11, Zenon DEF TimedWell, time, dec, lb
<1> QED
  BY <1>14, <1>15, <1>16

(* What shortest_path.hpp returns with a solution, the histories of the    *)
(* nodes of its path put one after the other, are those of a whole run     *)
(* under the plan: times that only grow, up to the cost, a load-balancing  *)
(* decision exactly where the plan has one, and a time for each that the   *)
(* iteration of the decision includes.                                     *)
THEOREM HistoriesAddUp == Spec => []HistoryOfSolution
<1>1. ASSUME SInv, Histories PROVE HistoryOfSolution
  <2>1. Tree /\ Place
    BY <1>1 DEF SInv
  <2> SUFFICES ASSUME NEW n \in DOMAIN solutions,
                      NEW p, p = solutions[n]
               PROVE  /\ Len(TimeHist(p)) = NbIterations
                      /\ (IF NbIterations = 0 THEN 0
                          ELSE TimeHist(p)[NbIterations]) = node[p].cost
                      /\ \A i \in It :
                            TimedWell(p, TimeHist(p), Decisions(p),
                                      node[p].lbTimes, i)
                      /\ Len(node[p].lbTimes) =
                            Cardinality({i \in 1..NbIterations :
                                            Decisions(p)[i]})
                      /\ node[p].effs > 0
    BY Zenon DEF HistoryOfSolution, TimedWell
  <2>2. p \in DOMAIN node /\ IsFinal(p)
    <3>1. current # <<>> /\ current \in DOMAIN node
      BY <2>1 DEF Place
    <3>2. IsFinal(current) /\ solutions = <<current>>
      BY <2>1, <3>1 DEF Place
    <3>3. p = current
      BY <3>2
    <3> QED
      BY <3>1, <3>2, <3>3
  <2>3. Len(p) = NFrames + 1 /\ Len(p) >= 2 /\ Records(p, node[p])
    BY <1>1, <2>1, <2>2, PlanOfPath, Params DEF Histories
  <2>4. Len(TimeHist(p)) = NbIterations
    BY <1>1, <2>1, <2>2, TimesOfPath
  <2>5. PICK f : f = NFrames - 1
    OBVIOUS
  <2>6. /\ f \in 0..(NFrames - 1) /\ f + 1 = NFrames /\ f + 2 = Len(p)
        /\ f * NPFrame \in Int /\ NbIterations = f * NPFrame + NPFrame
        /\ NPFrame \in 1..NPFrame /\ NFrames \in 1..NFrames
        /\ NFrames - 1 = f
    <3>1. f \in Int /\ f + 1 = NFrames /\ f \in 0..(NFrames - 1)
      BY <2>5, Params
    <3>2. NFrames * NPFrame = f * NPFrame + NPFrame /\ f * NPFrame \in Int
      BY <3>1, Earlier
    <3> QED
      BY <2>3, <2>5, <3>1, <3>2, Params DEF NbIterations
  <2>7. SubSeq(p, 1, NFrames + 1) = p /\ Passed(p, NFrames, p)
    <3>1. PICK q : q = SubSeq(p, 1, NFrames + 1)
      OBVIOUS
    <3>2. Passed(p, NFrames, q) /\ q = p
      BY <1>1, <2>1, <2>2, <2>6, <3>1, OnTheWay
    <3> QED
      BY <3>1, <3>2
  <2>8. NbIterations # 0 /\ TimeHist(p)[NbIterations] = node[p].cost
    <3>1. TimeHist(p)[f * NPFrame + NPFrame] =
             node[SubSeq(p, 1, f + 2)].times[NPFrame]
      BY <1>1, <2>1, <2>2, <2>6, TimesOfPath
    <3>2. f * NPFrame >= 0
      <4>1. f * NPFrame \in It
        <5>1. 0 \in 0..(NPFrame - 1)
          BY Params
        <5> QED
          BY <2>6, <5>1, ItOf
      <4> QED
        BY <4>1 DEF It
    <3>3. NbIterations # 0
      BY <2>6, <3>2, Params
    <3>4. f + 2 = NFrames + 1
      BY <2>3, <2>6
    <3> QED
      BY <2>3, <2>6, <2>7, <3>1, <3>3, <3>4 DEF Records
  <2>9. Len(node[p].lbTimes) =
           Cardinality({i \in 1..NbIterations : Decisions(p)[i]})
    <3>1. f * NPFrame < NbIterations /\ NbIterations \in 1..NbIterations
          /\ NbIterations <= f * NPFrame + NPFrame
      BY <2>6, <2>8, Params
    <3>2. Cardinality({i \in 1..NbIterations : Decisions(p)[i]}) =
             Cardinality({e \in 0..f : PlanOf(p)[e] = "yes"})
      BY <1>1, <2>1, <2>2, <2>6, <3>1, DecisionsCounted
    <3>3. YesAt(p) = {e \in 0..f : PlanOf(p)[e] = "yes"}
      BY <2>6, <2>7 DEF Passed
    <3> QED
      BY <2>3, <3>2, <3>3 DEF Records
  <2>10. node[p].effs > 0
    BY <2>3 DEF Records
  <2>11. ASSUME NEW i \in It
         PROVE  TimedWell(p, TimeHist(p), Decisions(p), node[p].lbTimes, i)
    BY <1>1, <2>1, <2>2, IterationOfPath
  <2> QED
    BY <2>4, <2>8, <2>9, <2>10, <2>11
<1> QED
  BY <1>1, AlwaysHistories, PTL
=============================================================================
