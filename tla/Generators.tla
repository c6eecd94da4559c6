----------------------------- MODULE Generators -----------------------------
(***************************************************************************)
(* The initial particles: main queues one or two generators, chosen by the *)
(* configuration, and rank 0 runs them one after the other on the same     *)
(* vector.  A generator draws positions until one is accepted, and counts  *)
(* the trials.                                                             *)
(*                                                                         *)
(*   configuration  generators                                             *)
(*   1              uniform                                                *)
(*   2              half: up to the middle of the box                      *)
(*   3              wall                                                   *)
(*   4, 6           one cluster                                            *)
(*   5              clusters, then half: up to a tenth of the box          *)
(*                                                                         *)
(* A draw is any position the distribution can give.  The sphere clusters  *)
(* are drawn from grows without bound: here it is all of Pos.              *)
(***************************************************************************)
EXTENDS Box, SequencesExt

CONSTANTS NPart,    \* particles asked for
          Confs,    \* the configurations considered
          MaxTrial, \* MAX_TRIAL
          Pos,      \* positions that can be drawn, triples
          MinR2     \* least square of a distance

Dim == 1..3

ASSUME TrialAssumption == NPart \in Nat /\ MaxTrial \in Nat \ {0}
ASSUME DrawAssumption == Pos \subseteq [Dim -> Int] /\ Confs \subseteq 1..6

VARIABLES
    conf,     \* particle_init_conf
    queue,    \* elements_generators, the front one running
    elements, \* positions generated so far
    before,   \* elements.size() when the running generator started
    trial,    \* draws rejected in a row
    cluster,  \* cluster_id + 1
    inside,   \* part_in_cluster
    cells,    \* cell -> indices in its list (head, lscl)
    gaveUp,   \* a generator stopped after MaxTrial
    pc

vars == <<conf, queue, elements, before, trial, cluster, inside, cells,
          gaveUp, pc>>

-----------------------------------------------------------------------------
Uniform == [kind |-> "uniform", n |-> NPart]
Wall == [kind |-> "wall", n |-> NPart]
Half(n, upto) == [kind |-> "half", n |-> n, upto |-> upto]
Clusters(n, sizes) == [kind |-> "clusters", n |-> n, sizes |-> sizes]

Generators == [
    c \in 1..6 |->
        CASE c = 1 -> <<Uniform>>
          [] c = 2 -> <<Half(NPart, Size \div 2)>>
          [] c = 3 -> <<Wall>>
          [] c = 5 -> <<Clusters(NPart \div 4, <<NPart \div 4, NPart \div 4>>),
                        Half((3 * NPart) \div 4, Size \div 10)>>
          [] OTHER -> <<Clusters(NPart, <<NPart>>)>>]

Running == Head(queue)
Is(kinds) == pc = "draw" /\ Running.kind \in kinds

(* Mutant: particles of an earlier generator are counted.                  *)
GeneratedAll == Len(elements)

Generated == Len(elements) - before

WallAt == (99 * Size) \div 100

(* What the distributions of a generator can give: lower bounds included,  *)
(* upper bounds not.                                                       *)
Between(lo, hi) == {p \in Pos : \A d \in Dim : lo[d] <= p[d] /\ p[d] < hi[d]}

Draws ==
    CASE Running.kind = "uniform" -> Between(<<0, 0, 0>>, <<Size, Size, Size>>)
      [] Running.kind = "wall" -> Between(<<WallAt, 0, 0>>,
                                          <<WallAt + 1, Size, Size>>)
      [] Running.kind = "half" -> Between(<<0, 0, 0>>,
                                          <<Running.upto, Size, Size>>)
      [] OTHER -> Pos

Dist2(p, q) == LET sq(d) == (p[d] - q[d]) * (p[d] - q[d])
               IN sq(1) + sq(2) + sq(3)

(* Cells per dimension; the box is rounded by one generator and truncated  *)
(* by the other.                                                           *)
Rounded(x) == (2 * x + RC) \div (2 * RC)
Truncated(x) == x \div RC

Lc(kind) == IF kind = "uniform" THEN Rounded(Size) ELSE Truncated(Size)

(* position_to_cell.                                                       *)
CellOf(lc, p) == p[1] \div RC + lc * (p[2] \div RC) + lc * lc * (p[3] \div RC)

(* The cells whose lists a candidate in cell c is compared with.           *)
LookedAt(lc, c) ==
    LET near == {c \div lc - 1, c \div lc} \cap 0..(lc - 1)
    IN {x + lc * y + lc * lc * z : x \in near, y \in near, z \in near}

Init ==
    /\ conf \in Confs
    /\ queue = Generators[conf]
    /\ elements = <<>>
    /\ before = 0
    /\ trial = 0
    /\ cluster = 1
    /\ inside = 0
    /\ cells = <<>>
    /\ gaveUp = FALSE
    /\ pc = "next"

(* A generator starts, with empty lists if it has any.                     *)
Begin ==
    /\ pc = "next"
    /\ queue # <<>>
    /\ before' = Len(elements)
    /\ trial' = 0
    /\ cluster' = 1
    /\ inside' = 0
    /\ cells' = LET lc == Lc(Running.kind)
                IN [c \in 0..(lc * lc * lc - 1) |-> {}]
    /\ pc' = "draw"
    /\ UNCHANGED <<conf, queue, elements, gaveUp>>

-----------------------------------------------------------------------------
(***************************************************************************)
(* Uniform and wall: linked cells.                                         *)
(***************************************************************************)

(* Only indices above the number generated count, and the lists have none. *)
AcceptedByCells(p) ==
    LET lc == Lc(Running.kind)
    IN \A c \in LookedAt(lc, CellOf(lc, p)) : \A j \in cells[c] :
          Generated < j => Dist2(elements[j + 1], p) >= MinR2

Unfinished == Generated < Running.n /\ trial < MaxTrial

(* CLL_append throws when the cell is not in the grid.                     *)
DrawInCells(p) ==
    /\ Is({"uniform", "wall"})
    /\ Unfinished
    /\ p \in Draws
    /\ LET c == CellOf(Lc(Running.kind), p)
       IN IF ~AcceptedByCells(p)
          THEN /\ trial' = trial + 1
               /\ UNCHANGED <<elements, cells, pc>>
          ELSE /\ trial' = 0
               /\ elements' = Append(elements, p)
               /\ IF c \in DOMAIN cells
                  THEN /\ cells' = [cells EXCEPT ![c] = @ \cup {Generated}]
                       /\ UNCHANGED pc
                  ELSE pc' = "aborted" /\ UNCHANGED cells
    /\ UNCHANGED <<conf, queue, before, cluster, inside, gaveUp>>

-----------------------------------------------------------------------------
(***************************************************************************)
(* Half and clusters: RejectionCondition.  Without other particles nothing *)
(* is checked.                                                             *)
(***************************************************************************)
StrictlyInBox(p) == \A d \in Dim : 0 < p[d] /\ p[d] < Size

(* Mutant: only the generator's own particles are looked at.               *)
PredicateOwn(p) ==
    \A k \in DOMAIN elements :
        StrictlyInBox(p) /\ (k > before => Dist2(p, elements[k]) >= MinR2)

Predicate(p) ==
    \A k \in DOMAIN elements :
        StrictlyInBox(p) /\ Dist2(p, elements[k]) >= MinR2

DrawHalf(p) ==
    /\ Is({"half"})
    /\ Unfinished
    /\ p \in Draws
    /\ IF Predicate(p)
       THEN trial' = 0 /\ elements' = Append(elements, p)
       ELSE trial' = trial + 1 /\ UNCHANGED elements
    /\ UNCHANGED <<conf, queue, before, cluster, inside, cells, gaveUp, pc>>

(* Mutant: a generator that has given up is not left.                      *)
OverWhenComplete == Generated >= Running.n

Over == Generated >= Running.n \/ trial = MaxTrial

EndGenerator ==
    /\ Is({"uniform", "wall", "half"})
    /\ Over
    /\ gaveUp' = (gaveUp \/ trial = MaxTrial)
    /\ queue' = Tail(queue)
    /\ pc' = "next"
    /\ UNCHANGED <<conf, elements, before, trial, cluster, inside, cells>>

-----------------------------------------------------------------------------
(***************************************************************************)
(* Clusters: the size of the vector is compared with n, and MaxTrial trials*)
(* only make the sphere larger.                                            *)
(***************************************************************************)
MoreClusters == cluster <= Len(Running.sizes) /\ Len(elements) < Running.n

(* With a particle in it, a cluster is also left when the last one filled  *)
(* the vector.                                                             *)
InCluster == MoreClusters \/ inside > 0

ClusterOpen ==
    MoreClusters /\ trial < MaxTrial /\ inside < Running.sizes[cluster]

PlaceInCluster(p) ==
    /\ Is({"clusters"})
    /\ ClusterOpen
    /\ p \in Draws /\ Predicate(p)
    /\ trial' = 0
    /\ elements' = Append(elements, p)
    /\ inside' = inside + 1
    /\ UNCHANGED <<conf, queue, before, cluster, cells, gaveUp, pc>>

RejectInCluster(p) ==
    /\ Is({"clusters"})
    /\ ClusterOpen
    /\ p \in Draws /\ ~Predicate(p)
    /\ trial' = trial + 1
    /\ UNCHANGED <<conf, queue, elements, before, cluster, inside, cells,
                   gaveUp, pc>>

GrowSphere ==
    /\ Is({"clusters"})
    /\ MoreClusters
    /\ trial = MaxTrial
    /\ trial' = 0
    /\ UNCHANGED <<conf, queue, elements, before, cluster, inside, cells,
                   gaveUp, pc>>

NextCluster ==
    /\ Is({"clusters"})
    /\ InCluster /\ ~ClusterOpen
    /\ trial < MaxTrial
    /\ trial' = 0
    /\ inside' = 0
    /\ cluster' = cluster + 1
    /\ UNCHANGED <<conf, queue, elements, before, cells, gaveUp, pc>>

EndClusters ==
    /\ Is({"clusters"})
    /\ ~InCluster
    /\ queue' = Tail(queue)
    /\ pc' = "next"
    /\ UNCHANGED <<conf, elements, before, trial, cluster, inside, cells,
                   gaveUp>>

Finish ==
    /\ pc = "next"
    /\ queue = <<>>
    /\ pc' = "done"
    /\ UNCHANGED <<conf, queue, elements, before, trial, cluster, inside, cells,
                   gaveUp>>

Stopped == pc \in {"done", "aborted"} /\ UNCHANGED vars

Step ==
    \/ Begin \/ EndGenerator \/ GrowSphere \/ NextCluster \/ EndClusters
    \/ Finish
    \/ \E p \in Pos : \/ DrawInCells(p) \/ DrawHalf(p)
                      \/ PlaceInCluster(p) \/ RejectInCluster(p)

Next == Step \/ Stopped

Spec == Init /\ [][Next]_vars

(* The program runs, and a random draw is not for ever one that is         *)
(* rejected if others are possible.                                        *)
FairSpec == /\ Spec
            /\ WF_vars(Step)
            /\ SF_vars(\E p \in Pos : PlaceInCluster(p))

-----------------------------------------------------------------------------
(***************************************************************************)
(* Properties.                                                             *)
(***************************************************************************)

(* RejectionCondition keeps the particles of all generators apart that ask *)
(* it, those of an earlier generator included.                             *)
Apart ==
    conf \in {2, 4, 5, 6} =>
        \A k, m \in DOMAIN elements :
            k # m => Dist2(elements[k], elements[m]) >= MinR2

(* "Number of particles" (params.hpp:24): when no generator gave up, there *)
(* are as many as were asked for.  Configuration 5 rounds two parts down.  *)
AsManyAsAsked ==
    /\ pc = "done" /\ ~gaveUp
    /\ conf = 5 => NPart % 4 = 0
    => Len(elements) = NPart

(* A generation ends, however the draws fall, where there is room for the  *)
(* particles of a cluster, and never by the exception of at(): both grids  *)
(* have a cell for every position drawn.                                   *)
Ends == <>(pc = "done")
=============================================================================
