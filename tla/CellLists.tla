------------------------------ MODULE CellLists ------------------------------
(***************************************************************************)
(* The linked-cell lists of one rank, from iteration to iteration:         *)
(*                                                                         *)
(*   bounding box and border cells    (get_bounding_box,                   *)
(*                                     get_border_cells_index)             *)
(*   lists of its own particles       (get_ghost_data, CLL_init)           *)
(*   particles to copy to other ranks (exchange_data)                      *)
(*   lists of particles and ghosts    (lj::compute_one_step, CLL_init)     *)
(*   pairs                            (CLL_compute_forces3d)               *)
(*                                                                         *)
(* head and lscl live as long as the simulation and only ever grow, so     *)
(* each step finds in them what earlier ones left.  Positions and lengths  *)
(* are integers, RC units making one cut-off radius; a box or a position   *)
(* is a triple.  What the other ranks send and where the particles go is   *)
(* the business of Exchange: here it is any choice.                        *)
(***************************************************************************)
EXTENDS Integers, FiniteSets, SequencesExt

CONSTANTS RC,        \* cut-off radius, an even number
          Pos,       \* positions of the particles, triples
          Rank,      \* the communicator
          Me,        \* the rank modelled
          Region,    \* rank -> its region, [lo, hi): two triples
          MaxEls,    \* bound of the model: particles of the rank
          MaxGhosts, \* bound of the model: ghosts of the rank
          MaxIter    \* bound of the model: iterations

Dim == 1..3

ASSUME RadiusAssumption == RC \in Nat \ {0} /\ RC % 2 = 0
ASSUME PosAssumption == Pos \subseteq [Dim -> Nat]
ASSUME RankAssumption == Me \in Rank /\ IsFiniteSet(Rank)
ASSUME BoundAssumption == MaxEls \in Nat /\ MaxGhosts \in Nat

VARIABLES
    els,     \* positions of the rank's particles (mesh_data->els)
    ghosts,  \* positions of the others' particles (remote_el)
    bbox,    \* its lo and hi
    borders, \* bordering cells, each with the ranks it is near to
    head,    \* cell -> first index of its list
    lscl,    \* index -> next index in its list
    sent,    \* rank -> indices copied to it, in order (data_to_migrate)
    met,     \* the calls of computeForceFunc, as <<i, j>>
    pc,
    iter

vars == <<els, ghosts, bbox, borders, head, lscl, sent, met, pc, iter>>

EMPTY == -1

Below(q) == 0..(Len(q) - 1)
At(q, i) == q[i + 1]

-----------------------------------------------------------------------------
(***************************************************************************)
(* The grid of a bounding box.                                             *)
(***************************************************************************)
Floor(x) == (x \div RC) * RC
Ceil(x) == ((x + RC - 1) \div RC) * RC

Least(S) == CHOOSE x \in S : \A y \in S : x <= y
Greatest(S) == CHOOSE x \in S : \A y \in S : x >= y

(* Two cells of margin on each side, and never below 0.                    *)
Upper(S) == Ceil(Greatest(S)) + 2 * RC
Lower(S) == Greatest({0, Floor(Least(S)) - 2 * RC})

BoundingBox(q) ==
    LET coord(d) == {q[i][d] : i \in DOMAIN q}
    IN [lo |-> [d \in Dim |-> Lower(coord(d))],
        hi |-> [d \in Dim |-> Upper(coord(d))]]

(* get_cell_number_by_dimension, get_total_cell_number.                    *)
Lc(b) == [d \in Dim |-> (b.hi[d] - b.lo[d]) \div RC]
NCells(b) == Lc(b)[1] * Lc(b)[2] * Lc(b)[3]

(* translate_xyz_into_linear_index; x varies fastest.                      *)
Linear(b, xyz) == LET lc == Lc(b)
                  IN xyz[1] + xyz[2] * lc[1] + xyz[3] * lc[1] * lc[2]

(* position_to_local_cell_index.                                           *)
CellOf(b, p) == Linear(b, [d \in Dim |-> (p[d] - b.lo[d]) \div RC])

Grid(b) == LET lc == Lc(b)
           IN (0..(lc[1] - 1)) \X (0..(lc[2] - 1)) \X (0..(lc[3] - 1))

(* translate_local_index_into_position: y is divided by the number of rows *)
(* and all three coordinates are computed from x.                          *)
CornerOf(b, cell) == [d \in Dim |-> (cell % Lc(b)[1]) * RC + b.lo[d]]

-----------------------------------------------------------------------------
(***************************************************************************)
(* The border cells.  In a row that is not on a face of the box only the   *)
(* first and the last cell are visited: the step is lc[0] - 1.             *)
(***************************************************************************)
OnFace(b, y, z) == y = 0 \/ y = Lc(b)[2] - 1 \/ z = 0 \/ z = Lc(b)[3] - 1

(* Mutant: the last cell of a row is forgotten.                            *)
StepShort(b, y, z) == IF OnFace(b, y, z) THEN 1 ELSE Lc(b)[1]

StepX(b, y, z) == IF OnFace(b, y, z) THEN 1 ELSE Lc(b)[1] - 1

Row(b, y, z) ==
    [k \in 1..((Lc(b)[1] - 1) \div StepX(b, y, z) + 1) |->
        <<(k - 1) * StepX(b, y, z), y, z>>]

VisitedCells(b) ==
    FlattenSeq([k \in 1..(Lc(b)[2] * Lc(b)[3]) |->
                  Row(b, (k - 1) % Lc(b)[2], (k - 1) \div Lc(b)[2])])

(* Zoltan_LB_Box_Assign: the ranks whose region the box meets.             *)
BoxAssign(lo, hi) ==
    {r \in Rank : \A d \in Dim : /\ lo[d] < Region[r].hi[d]
                                 /\ hi[d] >= Region[r].lo[d]}

(* The box goes half a cell around the cell at the corner c.               *)
RanksNear(c) == BoxAssign([d \in Dim |-> c[d] - RC \div 2],
                          [d \in Dim |-> c[d] + RC + RC \div 2])

Alone == Cardinality(Rank) = 1

(* The regions cover the space: Zoltan extends the outer ones without end. *)
ASSUME RegionAssumption ==
    \A q \in BoundedSeq(Pos, MaxEls) \ {<<>>} :
        LET b == BoundingBox(q)
        IN \A cell \in 0..(NCells(b) - 1) : RanksNear(CornerOf(b, cell)) # {}

(* The number of bordering cells reserved, xyz - (x-2)(y-2)(z-2).          *)
Reserved(b) ==
    NCells(b) - (Lc(b)[1] - 2) * (Lc(b)[2] - 2) * (Lc(b)[3] - 2)

(* The entry of a cell: none when no rank is near to it.                   *)
BorderCell(b, cell) ==
    LET pes == RanksNear(CornerOf(b, cell))
    IN IF pes = {} THEN <<>> ELSE <<[cell |-> cell, pes |-> pes]>>

BorderCells(b) ==
    IF Alone THEN <<>>
    ELSE LET cells == VisitedCells(b)
         IN FlattenSeq([k \in DOMAIN cells |->
                          BorderCell(b, Linear(b, cells[k]))])

FindBorders ==
    /\ pc = "borders"
    /\ bbox' = BoundingBox(els)
    /\ borders' = BorderCells(BoundingBox(els))
    /\ pc' = "lists"
    /\ UNCHANGED <<els, ghosts, head, lscl, sent, met, iter>>

-----------------------------------------------------------------------------
(***************************************************************************)
(* CLL_init: empty the lists of the cells of the grid, then put each index *)
(* in front of the list of its cell.  A vector that is too short is        *)
(* resized, new entries being 0; one that is too long is left alone.       *)
(***************************************************************************)
Resized(v, n) == [i \in (DOMAIN v) \cup 0..(n - 1) |->
                    IF i \in DOMAIN v THEN v[i] ELSE 0]

(* Mutant: the list of the last cell is not emptied.                       *)
EmptiedButLast(h, b) ==
    [c \in DOMAIN h |-> IF c < NCells(b) - 1 THEN EMPTY ELSE h[c]]

Emptied(h, b) == [c \in DOMAIN h |-> IF c < NCells(b) THEN EMPTY ELSE h[c]]

(* lscl->at(i) = head->at(c); head->at(c) = i.                             *)
PutInFront(lists, i, c) ==
    [head |-> [lists.head EXCEPT ![c] = i],
     lscl |-> [lists.lscl EXCEPT ![i] = lists.head[c]]]

(* The lists of the elements at the positions q.                           *)
Lists(h, l, b, q) ==
    LET made[n \in 0..Len(q)] ==
            IF n = 0 THEN [head |-> Emptied(h, b), lscl |-> l]
            ELSE PutInFront(made[n - 1], n - 1, CellOf(b, q[n]))
    IN made[Len(q)]

(* The list of a cell, followed for at most one link more than there are.  *)
Follow(q) == IF Last(q) = EMPTY THEN q ELSE Append(q, lscl[Last(q)])

Links == Cardinality(DOMAIN lscl) + 1

ListOf(cell) ==
    LET walk[n \in 0..Links] ==
            IF n = 0 THEN <<head[cell]>> ELSE Follow(walk[n - 1])
    IN IF Last(walk[Links]) = EMPTY THEN Front(walk[Links]) ELSE walk[Links]

(* at() throws when an index is in no cell, and nothing catches it.        *)
InCells(h, q) == \A i \in DOMAIN q : CellOf(bbox, q[i]) \in DOMAIN h

MakeLists(q, next) ==
    LET h == Resized(head, NCells(bbox))
        l == Resized(lscl, Len(q))
        made == Lists(h, l, bbox, q)
    IN IF InCells(h, q)
       THEN head' = made.head /\ lscl' = made.lscl /\ pc' = next
       ELSE pc' = "aborted" /\ UNCHANGED <<head, lscl>>

ListLocals ==
    /\ pc = "lists"
    /\ IF Alone
       THEN pc' = "select" /\ UNCHANGED <<head, lscl>>
       ELSE MakeLists(els, "select")
    /\ UNCHANGED <<els, ghosts, bbox, borders, sent, met, iter>>

(* Mutant: the counter of the cells is not advanced for an empty one.      *)
ReceiversCounted(k) ==
    LET before == {m \in 1..(k - 1) : ListOf(borders[m].cell) # <<>>}
    IN borders[Cardinality(before) + 1].pes \ {Me}

(* The other ranks among those recorded for a border cell.                 *)
Receivers(k) == borders[k].pes \ {Me}

(* The particles of each border cell, for each rank it is near to.         *)
SelectGhosts ==
    /\ pc = "select"
    /\ sent' = [r \in Rank |->
                  FlattenSeq([k \in DOMAIN borders |->
                     IF r \in Receivers(k)
                     THEN ListOf(borders[k].cell) ELSE <<>>])]
    /\ pc' = "receive"
    /\ UNCHANGED <<els, ghosts, bbox, borders, head, lscl, met, iter>>

(* What the other ranks have sent.                                         *)
ReceiveGhosts ==
    /\ pc = "receive"
    /\ ghosts' \in IF Alone THEN {<<>>} ELSE BoundedSeq(Pos, MaxGhosts)
    /\ pc' = "relist"
    /\ UNCHANGED <<els, bbox, borders, head, lscl, sent, met, iter>>

-----------------------------------------------------------------------------
(***************************************************************************)
(* compute_one_step.  The second span of CLL_init is meant for the ghosts  *)
(* and has their number, but starts at elements.data(): a ghost is filed   *)
(* under the cell of the particle with its number, and past the end of the *)
(* particles memory is read that holds any position, of a cell or not.     *)
(***************************************************************************)
PositionsRead(junk) ==
    els \o [g \in DOMAIN ghosts |->
              IF g \in DOMAIN els THEN els[g] ELSE junk[g]]

ListAll ==
    /\ pc = "relist"
    /\ \E junk \in [(DOMAIN ghosts) \ (DOMAIN els) -> Pos] :
          MakeLists(PositionsRead(junk), "forces")
    /\ UNCHANGED <<els, ghosts, bbox, borders, sent, met, iter>>

(* The cell a particle is taken to be in: each coordinate is the index of  *)
(* the cell divided by the size of the grid.                               *)
TakenFor(b, cell) == [d \in Dim |-> cell \div Lc(b)[d]]

(* Per dimension that cell and the one before it, within the grid.         *)
LookedAt(b, cell) ==
    LET ic == TakenFor(b, cell)
    IN {xyz \in Grid(b) : \A d \in Dim : xyz[d] \in {ic[d] - 1, ic[d]}}

(* Mutant: every pair is met from both sides.                              *)
FirstBoth(i, j) == i # j

First(i, j) == i < j

(* The calls for a particle and the list of a cell.                        *)
MeetIn(i, list) ==
    FlattenSeq([k \in DOMAIN list |->
                  IF First(i, list[k]) THEN << <<i, list[k]>> >> ELSE <<>>])

(* The calls for a particle.                                               *)
Meet(i) ==
    LET cells == SetToSeq({Linear(bbox, xyz) :
                    xyz \in LookedAt(bbox, CellOf(bbox, At(els, i)))})
    IN FlattenSeq([k \in DOMAIN cells |-> MeetIn(i, ListOf(cells[k]))])

ComputeForces ==
    /\ pc = "forces"
    /\ met' = FlattenSeq([n \in DOMAIN els |-> Meet(n - 1)])
    /\ pc' = "move"
    /\ UNCHANGED <<els, ghosts, bbox, borders, head, lscl, sent, iter>>

(* The particles move, some leave and others come.  sent and met belong to *)
(* calls that are over, the ghosts are not read again.                     *)
Move ==
    /\ pc = "move"
    /\ iter < MaxIter
    /\ els' \in BoundedSeq(Pos, MaxEls) \ {<<>>}
    /\ iter' = iter + 1
    /\ pc' = "borders"
    /\ sent' = [r \in Rank |-> <<>>]
    /\ met' = <<>>
    /\ ghosts' = <<>>
    /\ UNCHANGED <<bbox, borders, head, lscl>>

Stopped ==
    /\ pc = "aborted" \/ (pc = "move" /\ iter = MaxIter)
    /\ UNCHANGED vars

(* head is empty and lscl as long as the vector: simulator.hpp.            *)
Init ==
    /\ els \in BoundedSeq(Pos, MaxEls) \ {<<>>}
    /\ ghosts = <<>>
    /\ bbox = BoundingBox(els)
    /\ borders = <<>>
    /\ head = <<>>
    /\ lscl = [i \in Below(els) |-> 0]
    /\ sent = [r \in Rank |-> <<>>]
    /\ met = <<>>
    /\ pc = "borders"
    /\ iter = 1

Next == \/ FindBorders \/ ListLocals \/ SelectGhosts \/ ReceiveGhosts
        \/ ListAll \/ ComputeForces \/ Move \/ Stopped

Spec == Init /\ [][Next]_vars

-----------------------------------------------------------------------------
(***************************************************************************)
(* Properties.                                                             *)
(***************************************************************************)
(* The indices in the lists of the grid, list after list.                  *)
Listed == FlattenSeq([c \in 1..NCells(bbox) |-> ListOf(c - 1)])

(* CLL_init, on vectors full of what earlier steps left: every particle of *)
(* the rank is in exactly one list, once, and it is the list of its cell;  *)
(* no list runs into entries of a former step.  The bounding box has a cell*)
(* for each of them: at() throws only when ghosts outnumber particles.     *)
ListsPartition ==
    /\ pc \in (IF Alone THEN {"forces"} ELSE {"select", "forces"}) =>
          LET all == Listed
              n == Len(els) + (IF pc = "select" THEN 0 ELSE Len(ghosts))
          IN /\ IsInjective(all)
             /\ \A k \in DOMAIN all : all[k] < n
             /\ \A i \in Below(els) :
                   Contains(ListOf(CellOf(bbox, At(els, i))), i)
    /\ pc = "aborted" => Len(ghosts) > Len(els)

(* Border cells by their definition: an outer cell in some dimension.      *)
Shell(b) == LET lc == Lc(b)
            IN {xyz \in Grid(b) : \E d \in Dim : xyz[d] \in {0, lc[d] - 1}}

(* get_border_cells_index visits every outer cell of the box once and no   *)
(* other, so it fills exactly the entries it has reserved.                 *)
BordersAreShell ==
    pc = "lists" /\ ~Alone =>
        LET cells == [k \in DOMAIN borders |-> borders[k].cell]
        IN /\ Len(cells) = Reserved(bbox)
           /\ IsInjective(cells)
           /\ {cells[k] : k \in DOMAIN cells}
                 = {Linear(bbox, xyz) : xyz \in Shell(bbox)}

(* exchange_data copies to another rank exactly the particles in the cells *)
(* that are bordering on it, each once, and nothing to itself.             *)
CopiedOnce ==
    pc = "receive" =>
        \A r \in Rank :
            LET near == {borders[k].cell : k \in
                           {m \in DOMAIN borders : r \in borders[m].pes}}
            IN /\ IsInjective(sent[r])
               /\ {sent[r][k] : k \in DOMAIN sent[r]}
                     = {i \in Below(els) :
                          r # Me /\ CellOf(bbox, At(els, i)) \in near}

(* No pair of particles contributes twice to the forces, be it from both   *)
(* sides or through two cells, and none with itself.                       *)
PairsOnce ==
    pc = "move" =>
        /\ IsInjective(met)
        /\ \A k, m \in DOMAIN met : met[k] # <<met[m][2], met[m][1]>>

(* "the cell starting point", "the particle linked list"                   *)
(* (ljpotential.hpp:33, :34): what the list of a cell links are the        *)
(* particles in that cell, those of the other ranks included.              *)
GhostsInTheirCells ==
    pc = "forces" =>
        \A c \in 0..(NCells(bbox) - 1) : \A k \in DOMAIN ListOf(c) :
            LET j == ListOf(c)[k]
            IN j >= Len(els) => CellOf(bbox, At(ghosts, j - Len(els))) = c

(* "bordering cells and neighboring processors" (ljpotential.hpp:37): the  *)
(* ranks recorded for a cell are those near that cell.                     *)
NeighborsOfCell ==
    pc = "lists" =>
        \A xyz \in Shell(bbox) : \A k \in DOMAIN borders :
            borders[k].cell = Linear(bbox, xyz) =>
                borders[k].pes =
                    RanksNear([d \in Dim |-> xyz[d] * RC + bbox.lo[d]])
=============================================================================
