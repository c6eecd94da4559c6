------------------------------ MODULE Simulator ------------------------------
(***************************************************************************)
(* The time loop of src/includes/runners/simulator.hpp on every rank, with *)
(* the Probe of src/includes/utils.hpp, the criteria of src/src/nbmpi.cpp  *)
(* and the policies of src/includes/decision_makers/strategy.hpp that      *)
(* simulate can be given.                                                  *)
(*                                                                         *)
(* Each rank decides by itself, from its own Probe, whether the next       *)
(* collective call is the load balancing or the migration.  A collective   *)
(* takes place when all ranks have called it: ranks in different ones wait *)
(* for ever.  Exchange.tla shows why the migration and the ghost exchange  *)
(* can be taken as one such call.                                          *)
(*                                                                         *)
(* Times are natural numbers.  The imbalance max - sum / nproc is kept     *)
(* multiplied by nproc, and ratios are compared after cross-multiplication.*)
(* cum_li_hist and the reports are left out: they only repeat the Probe.   *)
(***************************************************************************)
EXTENDS Integers, Sequences, SequencesExt, FiniteSets, Sums

CONSTANTS NProc,     \* size of the communicator
          NFrames,   \* params->nframes
          NPFrame,   \* params->npframe
          Policies,  \* those considered: "menon", "procassini", "marquez"
                     \* (criteria), "file" (InFilePolicy), "random"
          Files,     \* files of decisions: sequences of lines of numbers
          Record,    \* params->record
          Times,     \* times one step may take on a rank
          LBTimes,   \* times of a load balancing
          FirstCost, \* load_balancing_cost found by the branch and bound
          FirstEff,  \* its load_balancing_parallel_efficiency, <<num, den>>
          Garbage    \* values an uninitialised Time may have

Rank == 0..(NProc - 1)

ASSUME SizeAssumption == /\ NProc \in Nat \ {0}
                         /\ NFrames \in Nat
                         /\ NPFrame \in Nat \ {0}
ASSUME TimesAssumption == /\ Times \subseteq Nat \ {0}
                          /\ LBTimes \subseteq Nat
                          /\ FirstCost \in Nat
                          /\ Garbage \subseteq Nat
ASSUME PoliciesAssumption ==
    Policies \subseteq {"menon", "procassini", "marquez", "file", "random"}
(* InFilePolicy looks at the last number of every line.                    *)
ASSUME FilesAssumption ==
    \A file \in Files : file \in Seq(Seq(Int) \ {<<>>})

VARIABLES
    policy,   \* the criterion or policy of this experiment
    lines,    \* the file InFilePolicy reads
    script,   \* rank -> the decisions its policy still has in store
    pc,       \* rank -> the call it is in or comes to
    frame,    \* rank -> frame
    i,        \* rank -> iteration in the frame
    itTime,   \* rank -> it_compute_time
    probe,    \* rank -> its Probe
    comp,     \* rank -> comp_time
    app,      \* rank -> app_time
    timeHist, \* rank -> time_hist
    dec,      \* rank -> decisions taken
    gathered, \* frames gathered on rank 0 to be recorded
    measured  \* times of the steps so far, rank by rank (history)

vars == <<policy, lines, script, pc, frame, i, itTime, probe, comp, app,
          timeHist, dec, gathered, measured>>

chosen == <<policy, lines>>

SumOf(s) == Totals(s, Len(s))[Len(s)]
MaxOf(t) == CHOOSE x \in {t[r] : r \in Rank} : \A r \in Rank : t[r] <= x
MinOf(t) == CHOOSE x \in {t[r] : r \in Rank} : \A r \in Rank : t[r] >= x
TotalOf(t) == SumOf([k \in 1..NProc |-> t[k - 1]])

-----------------------------------------------------------------------------
(***************************************************************************)
(* Probe: the value nbmpi.cpp hands to simulate.  Its batch_time has not   *)
(* been assigned, so each rank has whatever its memory holds.              *)
(***************************************************************************)
NewProbe(garbage) ==
    [it |-> 0, max |-> 0, min |-> 0, sum |-> 0, cum |-> 0, balanced |-> TRUE,
     lbTimes |-> IF policy = "marquez" THEN <<>> ELSE <<FirstCost>>,
     effs |-> IF policy = "procassini" THEN <<FirstEff>> ELSE <<>>,
     batch |-> garbage]

(* Mutant: the maximum is the rank's own time, as without MPI_MAX.         *)
ReducedLocal(r, t) ==
    [probe[r] EXCEPT
        !.max = t[r], !.min = MinOf(t), !.sum = TotalOf(t),
        !.cum = @ + NProc * t[r] - TotalOf(t),
        !.effs = IF probe[r].balanced
                 THEN Append(@, <<TotalOf(t), NProc * t[r]>>) ELSE @]

(* The three reductions, update_cumulative_imbalance_time, and the         *)
(* efficiency of the iteration that follows a load balancing.              *)
Reduced(r, t) ==
    [probe[r] EXCEPT
        !.max = MaxOf(t), !.min = MinOf(t), !.sum = TotalOf(t),
        !.cum = @ + NProc * MaxOf(t) - TotalOf(t),
        !.effs = IF probe[r].balanced
                 THEN Append(@, <<TotalOf(t), NProc * MaxOf(t)>>) ELSE @]

(* Mutant: the imbalance survives the load balancing.                      *)
BalancedNoReset(p, t) == [p EXCEPT !.lbTimes = Append(@, t)]

(* push_load_balancing_time, reset_cumulative_imbalance_time.              *)
Balanced(p, t) == [p EXCEPT !.lbTimes = Append(@, t), !.cum = 0]

(* Mutant: the flag is only ever set.                                      *)
IteratedSticky(p, d) == [p EXCEPT !.balanced = @ \/ d, !.it = @ + 1]

(* set_balanced and next_iteration.                                        *)
Iterated(p, d) == [p EXCEPT !.balanced = d, !.it = @ + 1]

-----------------------------------------------------------------------------
(***************************************************************************)
(* The criteria.                                                           *)
(***************************************************************************)

IsNewBatch(p) == p.it % NPFrame = 0

(* compute_avg_lb_time() as <<num, den>>: 0 when there was none.           *)
AvgLB(p) == IF p.lbTimes = <<>> THEN <<0, 1>>
            ELSE <<SumOf(p.lbTimes), Len(p.lbTimes)>>

(* Sum of the efficiencies as <<num, den>>.                                *)
SumEff(p) ==
    FoldLeft(LAMBDA x, y : <<x[1] * y[2] + y[1] * x[2], x[2] * y[2]>>,
             <<0, 1>>, p.effs)

Menon(p) == LET C == AvgLB(p) IN p.cum * C[2] >= C[1] * NProc

(* tau_prime < 0.9 * tau, where tau_prime = tau * S + C and S is the       *)
(* current efficiency over the average efficiency after a load balancing.  *)
Procassini(p) ==
    LET C == AvgLB(p)
        E == SumEff(p)
        scale == NProc * p.max * E[1] IN
    10 * (p.batch * p.sum * E[2] * Len(p.effs) * C[2] + C[1] * scale)
        < 9 * p.batch * scale * C[2]

(* The slowest or the fastest rank is 10% away from the average.           *)
Marquez(p) == \/ 10 * NProc * p.min < 9 * p.sum
              \/ 11 * p.sum < 10 * NProc * p.max

ShouldLoadBalance(c, p) ==
    /\ IsNewBatch(p)
    /\ CASE c = "menon" -> Menon(p)
         [] c = "procassini" -> Procassini(p)
         [] c = "marquez" -> Marquez(p)
         [] OTHER -> FALSE

-----------------------------------------------------------------------------
(***************************************************************************)
(* The policies that do not look at the Probe's times.                     *)
(***************************************************************************)

(* Mutant: a line of one number starts anew at once, with itself.          *)
ReadKeeping(read, line) ==
    [clear |-> Len(line) = 1,
     queue |-> IF Len(line) = 1 THEN read.queue
               ELSE Append(read.queue, Last(line) > 0)]

(* A line of the file.  One number alone ends a dataset: what has been read*)
(* is dropped if another line follows.                                     *)
Read(read, line) ==
    LET kept == IF read.clear THEN <<>> ELSE read.queue
    IN [clear |-> Len(line) = 1,
        queue |-> IF Len(line) = 1 THEN kept ELSE Append(kept, Last(line) > 0)]

(* The constructor of InFilePolicy, which reads line after line.           *)
FileDecisions(file) ==
    LET read[k \in 0..Len(file)] ==
            IF k = 0 THEN [clear |-> FALSE, queue |-> <<>>]
            ELSE Read(read[k - 1], file[k])
    IN read[Len(file)].queue

(* RandomPolicy draws from a generator each rank seeds with the same seed. *)
Draws == [1..(NFrames * NPFrame) -> BOOLEAN]

(* The queue is popped in new batches only, the generator at each call.    *)
Pops(r) == policy = "random" \/ (policy = "file" /\ IsNewBatch(probe[r]))

(* Taking the front of an empty std::queue yields whatever is there.       *)
Decisions(r) ==
    IF Pops(r) THEN IF script[r] = <<>> THEN BOOLEAN ELSE {Head(script[r])}
    ELSE {ShouldLoadBalance(policy, probe[r])}

-----------------------------------------------------------------------------
Init ==
    /\ policy \in Policies
    /\ lines \in IF policy = "file" THEN Files ELSE {<<>>}
    /\ \E d \in IF policy = "file" THEN {FileDecisions(lines)}
            ELSE IF policy = "random" THEN Draws ELSE {<<>>} :
          script = [r \in Rank |-> d]
    /\ \E g \in [Rank -> Garbage] : probe = [r \in Rank |-> NewProbe(g[r])]
    /\ pc = [r \in Rank |-> IF Record THEN "gather" ELSE "ghosts0"]
    /\ frame = [r \in Rank |-> 0]
    /\ i = [r \in Rank |-> 0]
    /\ itTime = [r \in Rank |-> 0]
    /\ comp = [r \in Rank |-> 0]
    /\ app = [r \in Rank |-> 0]
    /\ timeHist = [r \in Rank |-> <<>>]
    /\ dec = [r \in Rank |-> <<>>]
    /\ gathered = <<>>
    /\ measured = <<>>

AllAt(place) == \A r \in Rank : pc[r] = place

(* Mutant: the loop over the frames ends one too early.                    *)
NextFrameEarly(f) == IF f < NFrames - 1 THEN "compute" ELSE "stats"

NextFrame(f) == IF f < NFrames THEN "compute" ELSE "stats"

(* The ghost exchange before the loop.                                     *)
FirstGhosts ==
    /\ AllAt("ghosts0")
    /\ pc' = [r \in Rank |-> NextFrame(0)]
    /\ UNCHANGED <<chosen, script, frame, i, itTime, probe, comp, app,
                   timeHist, dec, gathered, measured>>

(* compute_one_step takes some time on this rank.                          *)
Compute(r) ==
    /\ pc[r] = "compute"
    /\ \E t \in Times : itTime' = [itTime EXCEPT ![r] = t]
    /\ pc' = [pc EXCEPT ![r] = "reduce"]
    /\ UNCHANGED <<chosen, script, frame, i, probe, comp, app, timeHist,
                   dec, gathered, measured>>

(* MPI_Allreduce with MPI_MAX, MPI_MIN and MPI_SUM.                        *)
Allreduce ==
    /\ AllAt("reduce")
    /\ probe' = [r \in Rank |-> Reduced(r, itTime)]
    /\ itTime' = [r \in Rank |-> MaxOf(itTime)]
    /\ measured' = Append(measured, itTime)
    /\ pc' = [r \in Rank |-> "decide"]
    /\ UNCHANGED <<chosen, script, frame, i, comp, app, timeHist, dec,
                   gathered>>

(* should_load_balance, on this rank alone.                                *)
Decide(r) ==
    /\ pc[r] = "decide"
    /\ \E d \in Decisions(r) :
          /\ dec' = [dec EXCEPT ![r] = Append(@, d)]
          /\ pc' = [pc EXCEPT ![r] = IF d THEN "lb" ELSE "migrate"]
    /\ script' = [script EXCEPT ![r] =
                     IF Pops(r) /\ @ # <<>> THEN Tail(@) ELSE @]
    /\ UNCHANGED <<chosen, frame, i, itTime, probe, comp, app, timeHist,
                   gathered, measured>>

(* Zoltan_Do_LB between two barriers; the time is the slowest rank's.      *)
LoadBalance ==
    /\ AllAt("lb")
    /\ \E t \in LBTimes :
          /\ probe' = [r \in Rank |-> Balanced(probe[r], t)]
          /\ itTime' = [r \in Rank |-> itTime[r] + t]
    /\ pc' = [r \in Rank |-> "ghosts"]
    /\ UNCHANGED <<chosen, script, frame, i, comp, app, timeHist, dec,
                   gathered, measured>>

Migrate ==
    /\ AllAt("migrate")
    /\ pc' = [r \in Rank |-> "ghosts"]
    /\ UNCHANGED <<chosen, script, frame, i, itTime, probe, comp, app,
                   timeHist, dec, gathered, measured>>

NextIteration(k) == IF k < NPFrame THEN "compute" ELSE "frame"

SoFar(h) == IF h = <<>> THEN 0 ELSE Last(h)

(* The end of an iteration: its bookkeeping and the ghost exchange.        *)
Ghosts ==
    /\ AllAt("ghosts")
    /\ probe' = [r \in Rank |-> Iterated(probe[r], Last(dec[r]))]
    /\ timeHist' = [r \in Rank |->
                      Append(timeHist[r], SoFar(timeHist[r]) + itTime[r])]
    /\ comp' = [r \in Rank |-> comp[r] + itTime[r]]
    /\ i' = [r \in Rank |-> i[r] + 1]
    /\ pc' = [r \in Rank |-> NextIteration(i[r] + 1)]
    /\ UNCHANGED <<chosen, script, frame, itTime, app, dec, gathered,
                   measured>>

(* The end of a frame: only here is batch_time assigned.                   *)
EndFrame(r) ==
    /\ pc[r] = "frame"
    /\ probe' = [probe EXCEPT ![r].batch = comp[r]]
    /\ app' = [app EXCEPT ![r] = @ + comp[r]]
    /\ comp' = [comp EXCEPT ![r] = 0]
    /\ i' = [i EXCEPT ![r] = 0]
    /\ frame' = [frame EXCEPT ![r] = @ + 1]
    /\ pc' = [pc EXCEPT ![r] = IF Record THEN "gather"
                                         ELSE NextFrame(frame[r] + 1)]
    /\ UNCHANGED <<chosen, script, itTime, timeHist, dec, gathered, measured>>

(* gather_elements_on rank 0, before the loop and after each frame.        *)
Gather ==
    /\ AllAt("gather")
    /\ gathered' = Append(gathered, frame[0])
    /\ pc' = [r \in Rank |-> IF gathered = <<>> THEN "ghosts0"
                                                ELSE NextFrame(frame[r])]
    /\ UNCHANGED <<chosen, script, frame, i, itTime, probe, comp, app,
                   timeHist, dec, measured>>

(* The barrier and the reductions of the frame statistics.                 *)
Statistics ==
    /\ AllAt("stats")
    /\ pc' = [r \in Rank |-> "done"]
    /\ UNCHANGED <<chosen, script, frame, i, itTime, probe, comp, app,
                   timeHist, dec, gathered, measured>>

Finished == AllAt("done") /\ UNCHANGED vars

Next ==
    \/ \E r \in Rank : Compute(r) \/ Decide(r) \/ EndFrame(r)
    \/ FirstGhosts \/ Allreduce \/ LoadBalance \/ Migrate \/ Ghosts
    \/ Gather \/ Statistics
    \/ Finished

Spec == Init /\ [][Next]_vars

-----------------------------------------------------------------------------
(***************************************************************************)
(* Properties.                                                             *)
(***************************************************************************)
(* No rank is ever in the load balancing while another is in the migration:*)
(* both are collective and the ranks would wait for each other for ever.   *)
SameCourse ==
    \A r, s \in Rank : pc[r] = "lb" => pc[s] \in {"lb", "decide"}

(* The decisions to balance taken before the n-th iteration.               *)
Balancings(d, n) == {k \in DOMAIN d : d[k] /\ k < n}
LatestOf(ks) ==
    IF ks = {} THEN 0 ELSE CHOOSE k \in ks : \A j \in ks : j <= k

Imbalance(t) == NProc * MaxOf(t) - TotalOf(t)
ImbalanceAfter(l, steps) ==
    SumOf([k \in 1..(Len(steps) - l) |-> Imbalance(steps[l + k])])

(* The imbalance a criterion sees is that of the iterations since the last *)
(* load balancing, none missed and none counted twice.                     *)
ImbalanceSinceLB ==
    \A r \in Rank : pc[r] = "decide" =>
        probe[r].cum =
            ImbalanceAfter(LatestOf(Balancings(dec[r], Len(measured))),
                           measured)

(* The efficiencies Procassini averages are those right after a load       *)
(* balancing, the initial one included, and the costs both criteria        *)
(* average are one per load balancing.                                     *)
SamplesPerLB ==
    \A r \in Rank : pc[r] = "decide" =>
        LET before == Cardinality(Balancings(dec[r], Len(measured))) IN
        /\ Len(probe[r].lbTimes) = Len(NewProbe(0).lbTimes) + before
        /\ Len(probe[r].effs) = Len(NewProbe(0).effs) + 1 + before

(* The criteria choose among the same plans as the branch and bound, which *)
(* balances at the start of a frame only.  A policy from a file takes the  *)
(* decisions of the last dataset in it, the k-th frame the k-th of them.   *)
LastDataset(file) ==
    LET ends == {k \in DOMAIN file : Len(file[k]) = 1}
        from == LatestOf({k \in ends : k < Len(file)}) + 1
    IN SubSeq(file, from, Len(file) - (IF Len(file) \in ends THEN 1 ELSE 0))

DecidedPerFrame ==
    policy # "random" => \A r \in Rank : \A k \in DOMAIN dec[r] :
        /\ dec[r][k] => (k - 1) % NPFrame = 0
        /\ policy = "file" /\ (k - 1) % NPFrame = 0 =>
              dec[r][k] =
                  (Last(LastDataset(lines)[1 + (k - 1) \div NPFrame]) > 0)

(* When all is done the time histories agree on every rank with the time   *)
(* of the application, frame by frame, and with --record the frames 0 to   *)
(* nframes have been gathered, each once.                                  *)
HistoriesComplete ==
    /\ \A r, s \in Rank :
          /\ pc[r] = "done" => /\ Len(timeHist[r]) = NFrames * NPFrame
                               /\ app[r] = SoFar(timeHist[r])
                               /\ timeHist[r] = timeHist[s]
                               /\ dec[r] = dec[s]
          /\ pc[r] = "frame" => app[r] + comp[r] = SoFar(timeHist[r])
    /\ AllAt("done") /\ Record => gathered = [k \in 1..(NFrames + 1) |-> k - 1]

(* nbmpi.cpp describes what Procassini compares as an "estimation of next  *)
(* iteration time based on speed up + LB cost": it decides to load balance *)
(* only after a batch whose time was measured.                             *)
EstimatedFromBatch ==
    policy = "procassini" =>
        \A r \in Rank : \A k \in DOMAIN dec[r] : dec[r][k] => k > NPFrame
=============================================================================
