--------------------------- MODULE BranchAndBound ---------------------------
(***************************************************************************)
(* The search of src/includes/runners/shortest_path.hpp for the cheapest   *)
(* sequence of load-balancing decisions, with the nodes and the pruning of *)
(* src/includes/astar.hpp.                                                 *)
(*                                                                         *)
(* The ranks search in lockstep: a node's cost is a sum of maxima that     *)
(* MPI_Allreduce gives to all of them, so every rank pops the same node    *)
(* and one search stands for all.  A node is its path from the root; the   *)
(* particles are the frame they have reached.                              *)
(*                                                                         *)
(* Times are natural numbers and any time may be measured for any batch.   *)
(* How long it takes depends on more than the decisions on its path: the   *)
(* forces on a particle depend on its index and on the vector it is in     *)
(* (utils.hpp:683, physics.hpp:22), lj::acc carries values from one node   *)
(* to the next (ljpotential.hpp:24), and the particles are those of        *)
(* whichever node saved the frame last.                                    *)
(***************************************************************************)
EXTENDS Integers, Sequences, SequencesExt, FiniteSets, Sums

CONSTANTS NFrames,     \* params->nframes
          NPFrame,     \* params->npframe
          NbBestPath,  \* params->nb_best_path
          Record,      \* params->record
          BatchTimes,  \* what the NPFrame iterations of a batch may take
          LBTimes      \* what a load balancing may take

ASSUME ParamsAssumption == /\ NFrames \in Nat \ {0}
                           /\ NPFrame \in Nat \ {0}
                           /\ NbBestPath \in Nat \ {0}
                           /\ Record \in BOOLEAN

NbIterations == NFrames * NPFrame
It == 0..(NbIterations - 1)

ASSUME TimesAssumption == /\ BatchTimes \subseteq [1..NPFrame -> Nat]
                          /\ LBTimes \subseteq Nat

VARIABLES
    node,      \* path -> what the search recorded in the Node
    queue,     \* pQueue: the paths in the multiset
    current,   \* currentNode, or <<>> at the top of the while loop
    todo,      \* children the for loop has not visited
    foundYes,  \* frame -> a Yes node was expanded there
    rollback,  \* frame -> the frame that the particles saved for it are at
    solutions, \* solutions found
    recvBuf,   \* frame whose particles recv_buf holds, -1 for none
    recorded   \* frames written to particles.csv.0, particles.csv.1, ...

search == <<node, queue, current, todo, foundYes, rollback, solutions>>
vars == <<search, recvBuf, recorded>>

Decision == {"yes", "no"}
Root == <<"yes">>
Parent(p) == Front(p)
DecisionOf(p) == Last(p)
StartIt(p) == (Len(p) - 2) * NPFrame
EndIt(p) == StartIt(p) + NPFrame

(* rollback_data before any batch was saved there.                         *)
NoData == -1

-----------------------------------------------------------------------------
(***************************************************************************)
(* One node: the batch of NPFrame iterations that starts at first.         *)
(***************************************************************************)

(* time_hist less the starting time: after the first k iterations of a     *)
(* batch whose steps took t.  Load balancing takes place, and l, after the *)
(* first step and counts as a part of it.                                  *)
Elapsed(p, t, l, k) ==
    Totals(t, NPFrame)[k] + (IF DecisionOf(p) = "yes" THEN l ELSE 0)

(* Mutant: every iteration of a Yes batch is recorded as a decision.       *)
DecOfNode(p) == [k \in 1..NPFrame |-> DecisionOf(p) = "yes"]

(* dec_hist: only the first iteration of a batch can load balance.         *)
DecHist(p) == [k \in 1..NPFrame |-> DecisionOf(p) = "yes" /\ k = 1]

(* The Node after its batch: set_cost added comp_time to the cost copied   *)
(* from the parent, and stats, copied from the parent, gained the batch.   *)
(* born tells how many nodes were put in the queue before.                 *)
Computed(p, t, l) ==
    LET up == node[Parent(p)] IN
    [cost |-> up.cost + Elapsed(p, t, l, NPFrame),
     born |-> Cardinality(DOMAIN node),
     times |-> [k \in 1..NPFrame |-> up.cost + Elapsed(p, t, l, k)],
     decs |-> DecHist(p),
     lbTimes |-> IF DecisionOf(p) = "yes" THEN Append(up.lbTimes, l)
                                          ELSE up.lbTimes,
     effs |-> IF DecisionOf(Parent(p)) = "yes" THEN up.effs + NPFrame
                                               ELSE up.effs]

RootNode == [cost |-> 0, born |-> 0,
             times |-> [k \in 1..NPFrame |-> 0],
             decs |-> [k \in 1..NPFrame |-> FALSE],
             lbTimes |-> <<>>, effs |-> 0]

(* get_children: no load balancing in the first frame, it was just done.   *)
Children(p) ==
    IF EndIt(p) = 0 THEN <<Append(p, "no")>>
                    ELSE <<Append(p, "yes"), Append(p, "no")>>

(* Mutant: the nodes leave as they came, as in a breadth-first search.     *)
PrecedesByAge(p, o) == node[p].born <= node[o].born

(* Compare; multiset::insert puts a node after those of equal cost.        *)
Precedes(p, o) ==
    \/ node[p].cost < node[o].cost
    \/ node[p].cost = node[o].cost /\ node[p].born <= node[o].born

(* Mutant: the No nodes of the frame are pruned as well.                   *)
PrunedAll(p, q) == {o \in q : StartIt(o) # StartIt(p) \/ EndIt(o) # EndIt(p)}

(* prune_similar_nodes: the other Yes nodes of the same frame leave.       *)
Pruned(p, q) ==
    {o \in q : ~ (/\ StartIt(o) = StartIt(p)
                 /\ EndIt(o) = EndIt(p)
                 /\ DecisionOf(o) = "yes")}

FrameOf(p) == StartIt(p) \div NPFrame

(* Mutant: a batch is saved over the frame it started from.                *)
SavedOver(p) == FrameOf(p)

(* next_frame: the frame at whose start the batch leaves the particles.    *)
SavedAt(p) == FrameOf(p) + 1

IsFinal(p) == EndIt(p) >= NbIterations

-----------------------------------------------------------------------------
Init ==
    /\ node = [p \in {Root} |-> RootNode]
    /\ queue = {Root}
    /\ current = <<>>
    /\ todo = <<>>
    /\ foundYes = [f \in 0..NFrames |-> FALSE]
    /\ rollback = [f \in 0..NFrames |-> IF f = 0 THEN 0 ELSE NoData]
    /\ solutions = <<>>
    /\ recvBuf = -1
    /\ recorded = <<>>

Searching == Len(solutions) < NbBestPath
IsYes(p) == DecisionOf(p) = "yes" /\ StartIt(p) > 0

(* The top of the loop: take the cheapest node; the first Yes node of a    *)
(* frame closes that frame to other Yes nodes; a node that reaches the end *)
(* is a solution and ends the search.                                      *)
Pop ==
    /\ Searching
    /\ current = <<>>
    /\ \E p \in queue :
       /\ \A o \in queue : Precedes(p, o)
       /\ queue' = IF IsYes(p) THEN Pruned(p, queue \ {p}) ELSE queue \ {p}
       /\ foundYes' = IF IsYes(p) THEN [foundYes EXCEPT ![FrameOf(p)] = TRUE]
                                  ELSE foundYes
       /\ current' = p
       /\ IF IsFinal(p)
          THEN /\ solutions' = Append(solutions, p)
               /\ todo' = <<>>
          ELSE /\ todo' = Children(p)
               /\ UNCHANGED solutions
    /\ UNCHANGED <<node, rollback, recvBuf, recorded>>

(* Mutant: a frame already closed to Yes nodes still gets some.            *)
AlwaysWorthwhile(p) == TRUE

Worthwhile(p) == DecisionOf(p) = "no" \/ ~foundYes[FrameOf(p)]

(* One child: computed from the particles saved for its frame, in whatever *)
(* times are measured, put in the queue, and saved for the next frame.     *)
Child ==
    /\ todo # <<>>
    /\ LET p == Head(todo) IN
       IF Worthwhile(p)
       THEN /\ \E t \in BatchTimes, l \in LBTimes :
                 node' = [q \in DOMAIN node \cup {p} |->
                            IF q = p THEN Computed(p, t, l) ELSE node[q]]
            /\ queue' = queue \cup {p}
            /\ rollback' = IF IsFinal(p) THEN rollback
                           ELSE [rollback EXCEPT ![SavedAt(p)] =
                                   rollback[FrameOf(p)] + 1]
       ELSE UNCHANGED <<node, queue, rollback>>
    /\ todo' = Tail(todo)
    /\ UNCHANGED <<current, foundYes, solutions, recvBuf, recorded>>

(* The for loop is over; a solution leaves the while loop by its break.    *)
Loop ==
    /\ current # <<>>
    /\ todo = <<>>
    /\ ~IsFinal(current)
    /\ current' = <<>>
    /\ UNCHANGED <<node, queue, todo, foundYes, rollback, solutions, recvBuf,
                   recorded>>

Done == current # <<>> /\ IsFinal(current)

(* With --record every snapshot is gathered on rank 0 and written to a file*)
(* of its own.  Gathering an empty snapshot leaves the buffer as it was.   *)
RecordFrame ==
    /\ Done
    /\ Record
    /\ Len(recorded) < NFrames + 1
    /\ LET f == Len(recorded) IN
       /\ recvBuf' = IF rollback[f] = NoData THEN recvBuf ELSE rollback[f]
       /\ recorded' = Append(recorded, recvBuf')
    /\ UNCHANGED search

Finished == /\ Done
            /\ Record => Len(recorded) = NFrames + 1
            /\ UNCHANGED vars

Next == Pop \/ Child \/ Loop \/ RecordFrame \/ Finished

Spec == Init /\ [][Next]_vars

-----------------------------------------------------------------------------
(***************************************************************************)
(* What the function returns: the histories along the solution's path.     *)
(***************************************************************************)
PathNodes(p) == [k \in 1..(Len(p) - 1) |-> SubSeq(p, 1, k + 1)]

TimeHist(p) ==
    FlattenSeq([k \in DOMAIN PathNodes(p) |-> node[PathNodes(p)[k]].times])
Decisions(p) ==
    FlattenSeq([k \in DOMAIN PathNodes(p) |-> node[PathNodes(p)[k]].decs])

(***************************************************************************)
(* What the properties speak of.  A plan is a sequence of decisions for    *)
(* all frames; the search computes the beginnings of many plans.           *)
(***************************************************************************)
Plans == {d \in [0..(NFrames - 1) -> Decision] : d[0] = "no"}

PlanOf(p) == [f \in 0..(Len(p) - 2) |-> p[f + 2]]

Begins(p, d) == \A f \in 0..(Len(p) - 2) : p[f + 2] = d[f]

(* A node that was taken from the queue to be expanded: its No child       *)
(* always is computed.                                                     *)
Expanded(p) == p = current \/ Append(p, "no") \in DOMAIN node

(* The plan d was computed as far as p and then dropped, because the Yes   *)
(* node e of the frame was expanded: either p was pruned, or its Yes child *)
(* was not worthwhile.                                                     *)
DroppedFor(e, p, d) ==
    /\ Expanded(e) /\ IsYes(e)
    /\ \/ IsYes(p) /\ StartIt(p) = StartIt(e) /\ p # e
       \/ /\ StartIt(e) = EndIt(p) /\ d[FrameOf(e)] = "yes"
          /\ Append(p, "yes") \notin DOMAIN node

-----------------------------------------------------------------------------
(***************************************************************************)
(* Properties.                                                             *)
(***************************************************************************)
(* When the search returns a solution, every other plan is accounted for:  *)
(* as far as it was computed it already took as long as the solution, or   *)
(* it was dropped at a frame where it load balances for a node that load   *)
(* balances there too and was no slower up to the point it was dropped at. *)
(* Only prune_similar_nodes and foundYes may keep a faster plan from being *)
(* the one returned, and only there.                                       *)
EveryPlanAccounted ==
    solutions # <<>> =>
        \A d \in Plans : \E p \in DOMAIN node :
            /\ Begins(p, d)
            /\ \/ node[p].cost >= node[solutions[1]].cost
               \/ \E e \in DOMAIN node : /\ DroppedFor(e, p, d)
                                         /\ node[e].cost <= node[p].cost

(* "no other Yes node at this depth can be better": once a Yes node is     *)
(* expanded, no other Yes node of its frame is in the queue or is ever     *)
(* expanded; each had been measured to end the frame no earlier or, when   *)
(* it was not computed, would have started it after the other had ended.   *)
FirstYesIsBest ==
    \A e, p \in DOMAIN node :
        LET q == Append(p, "yes") IN
        /\ Expanded(e) /\ IsYes(e)
        /\ Expanded(p) /\ EndIt(p) = StartIt(e) /\ q # e
        => /\ q \notin queue
           /\ ~Expanded(q)
           /\ node[e].cost <= node[IF q \in DOMAIN node THEN q ELSE p].cost

(* A snapshot read by a child holds the particles at the start of the      *)
(* child's frame, whichever node wrote it, and the expanded node did save  *)
(* one: a frame is never skipped nor computed twice.  Every file written   *)
(* for a frame before the last holds that frame.                           *)
SnapshotOfFrame ==
    /\ \A f \in 0..NFrames : rollback[f] \in {NoData, f}
    /\ \A k \in DOMAIN todo : rollback[FrameOf(todo[k])] # NoData
    /\ \A k \in DOMAIN recorded : k <= NFrames => recorded[k] = k - 1

(* The search always has a node to take, and the costs it takes them at    *)
(* only grow: nothing cheaper than an expanded node comes in after it.     *)
QueueOrdered ==
    /\ current = <<>> /\ Searching => queue # {}
    /\ current # <<>> => \A q \in queue : node[current].cost <= node[q].cost

(* The histories returned with a solution are those of the plan it stands  *)
(* for: one entry per iteration, the times never go back and end at the    *)
(* cost, a decision exactly where the plan has one, and the n-th load-     *)
(* balancing time is part of the iteration of the n-th decision.           *)
HistoryOfSolution ==
    \A k \in DOMAIN solutions :
        LET p == solutions[k]
            time == TimeHist(p)
            dec == Decisions(p)
            lb == node[p].lbTimes
            At(i) == IF i = 0 THEN 0 ELSE time[i]
            Decided(i) == Cardinality({j \in 1..i : dec[j]}) IN
        /\ Len(time) = NbIterations
        /\ At(NbIterations) = node[p].cost
        /\ \A i \in It :
              /\ At(i) <= At(i + 1)
              /\ dec[i + 1] = (/\ i % NPFrame = 0
                               /\ PlanOf(p)[i \div NPFrame] = "yes")
              /\ dec[i + 1] => At(i + 1) - At(i) >= lb[Decided(i + 1)]
        /\ Len(lb) = Decided(NbIterations)
        /\ node[p].effs > 0
=============================================================================
