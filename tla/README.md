# ljmpi in TLA+

A verification development for ljmpi, an MPI program that simulates
Lennard-Jones particles to compare load-balancing criteria.  Paths below are
relative to the repository; `includes/` is short for `src/includes/`.

## The system

`src/nbmpi.cpp` is the only build target.  It generates particles on rank 0,
lets Zoltan distribute them, searches for the best sequence of load-balancing
decisions (the "branch and bound"), and then runs the same simulation under
three criteria (Menon, Procassini, Marquez).  There are no tests; the README of
the repository has two lines; what is intended is said in comments and in the
help texts of `params.hpp`.

| component | state it keeps | operations | interacts with |
|---|---|---|---|
| point-to-point exchanges, `parallel_utils.hpp` | a rank's particle vector, send buffers, counts, the messages MPI holds | `get_invert_list`, `migrate_data`, `exchange_data`, `get_ghost_data`, `gather_elements_on` | every other rank by messages; Zoltan for "whose region is this point" |
| time loop, `runners/simulator.hpp` | frame, iteration, histories, ghosts, bounding box | `simulate` | exchanges, Zoltan, Probe, policy |
| Probe and criteria, `utils.hpp`, `src/nbmpi.cpp` | iteration, reductions, cumulative imbalance, costs and efficiencies of load balancings, `batch_time` | `update_*`, `push_*`, `reset_*`, the three lambdas | read by the policy, written by the loop |
| branch and bound, `runners/shortest_path.hpp`, `astar.hpp` | tree of nodes, queue ordered by cost, snapshots of the particles per frame | pop, prune, expand, record | exchanges, Zoltan, Probe |
| Zoltan glue, `zoltan_fn.hpp` | `gid = -1` marks in the vector | object callbacks, pack, unpack, post-migrate, `Zoltan_Do_LB`, two unused migrations | Zoltan calls back |
| cell lists, `utils.hpp`, border cells, `parallel_utils.hpp` | head and next arrays | `CLL_*`, `get_border_cells_index`, coordinate translation | physics and ghost exchange |
| physics, `ljpotential.hpp`, `physics.hpp` | positions, velocities | `compute_one_step`, leapfrog, reflection | cell lists, ghosts |
| initial conditions, `initial_conditions.hpp`, `spatial_elements.hpp` | particles so far, trials | five generators | main, before anything is distributed |
| decision makers, `decision_makers/strategy.hpp` | per policy: a file's decisions, a generator, a count | `should_load_balance` | called by the loop; main uses `PolicyExecutor` only |
| unloading model, `unloading_model.hpp` | who is increasing, the communicator of the others, bottom and top data | `get_communicator`, two divisions, `migrate`, `exchange` | Zoltan, every other rank; nothing calls it yet |
| parameters, particle I/O | none | parsing, CSV | files |
| outside the build: `branch_and_bound.hpp`, `dataset_generator.hpp`, `box_runner.hpp`, `metrics.hpp`, `report.hpp`, `ml_strategy.hpp` | | | include files that are not in the repository |

What is hard about it:

* *Ordering.*  The receive loops take a message of any source with a fixed tag
  (300 for migration, 400 for ghosts).  Nothing in a message says which
  exchange it belongs to, and ranks are not synchronised between exchanges.
* *Interleaving.*  A particle under way is in no rank's vector.  Ranks that are
  done with a migration compute the next step while others still migrate.
* *Agreement.*  Each rank evaluates the criterion on its own and then calls one
  of two different collective operations.
* *Two answers to one question.*  `get_communicator` works out who gives its
  particles away from two different communicators; a particle handed over is
  then in one of two vectors, which two partitions move at the same time.
* *State carried over.*  The Probe's counters, flag and `batch_time`; the
  snapshots the search starts its children from; the buffer of the recorder.
* *Blocking.*  `get_invert_list` sends to everybody, itself included, before it
  receives anything.

What makes each component correct:

* exchanges: no particle is lost, doubled or integrated a wrong number of
  times; ghosts are those of the current step; messages are matched in the
  exchange they were sent in; everybody gets out.
* loop and criteria: all ranks take the same course; imbalance, costs and
  efficiencies are those since, and of, the load balancings; the histories add
  up.
* unloading: all ranks know the same increasing ranks; no particle is lost or
  doubled; an increasing rank is never sent what it does not receive; each
  particle ends where the two partitions say, and its copies near it.
* search: a plan is dropped only for a node that load balances at the same
  frame and was no slower up to there; the histories returned are those of the
  plan; every node is computed from the particles of its frame.
* vectors: marking, packing and swap-and-pop lose and double no element, and a
  rank keeps exactly what Zoltan assigned to it, if it looked at all it had.
* cell lists: every particle is in exactly one list; the border cells are the
  shell of the box; what is copied is copied once per receiver.
* physics: clamped and reflected particles are in the box; no step is longer
  than a cell.
* generators: particles are as many as asked for, apart, and generation ends.

## Modules

| module | what it is |
|---|---|
| `Redistribution` | what the ranks promise each other about particles, no messages, and what a rank may miss that does not look at all of them; abstract |
| `Exchange` | the exchanges message by message, in the order of the loop; implements `Redistribution` |
| `ExchangeInvariant` | the inductive invariant of `Exchange` |
| `ExchangeProofs` | TLAPS: types, the bookkeeping of the messages (`IInv`), that every particle and copy is where it belongs (`DInv`), and that `Exchange` implements `Redistribution` |
| `ParticleVectors` | the vectors element by element under `migrate_data`, its two Zoltan variants and Zoltan's automatic migration; implements `Redistribution` too |
| `VectorProofs` | TLAPS: no element is lost, doubled or taken by a stale index, and `ParticleVectors` implements `Redistribution`; the promises of `Redistribution` hold |
| `UnloadingModel` | the split into top and bottom, the divisions of the particles, and both kinds of data in `migrate` and `exchange`; implements `Redistribution` once divided |
| `UnloadingProofs` | TLAPS: one view of who is increasing, top data on top only, every particle in one place and in the right one, `migrate` does what `Redistribution` promises, and copies reach every rank near a particle |
| `Simulator` | the loop, Probe, criteria and policies on every rank; an exchange is one collective step |
| `SimulatorProofs` | TLAPS: what the Probe and the histories hold, and that the ranks take the same course under every policy |
| `Sums` | sums over the iterations, as a recursive function |
| `SumProofs` | TLAPS: induction on a number, least and greatest elements, sums, division, loops pass by pass, `FlattenSeq` |
| `BranchAndBound` | the search |
| `SearchProofs` | TLAPS: what the pruned search drops and why, that it starts from the right snapshots, and that it returns the histories of its plan |
| `CellLists` | bounding box, border cells, cell lists and copies of one rank, from iteration to iteration |
| `CellListProofs` | TLAPS: every particle is listed once, the border cells are the shell, copies are made once, no pair is met twice |
| `Box` | the size of the box and the cut-off, for the next two |
| `Generators` | the initial particles under each of the six configurations |
| `Leapfrog` | kicks, clamp, move and reflection |
| `ParticleProofs` | TLAPS: `Leapfrog` stays in the box and takes short steps; the particles of `Generators` are apart and as many as asked for |
| `MC...` | constants of the module of that name for TLC (`MCExchange`: also of `ExchangeInvariant`) |

### Exchange

One module for both exchanges, since `migrate_data` (255-354) and
`exchange_data` (146-253) have the same shape; `mode` says which one a rank is
in.  `EnterMigrate`/`EnterGhost` sort the elements by destination;
`SendCount`/`RecvCount` are the two loops of `get_invert_list`, one iteration
per step; `Isend` posts all nonempty buffers; `Recv` is one turn of the
probe-and-receive loop; `Waitall` leaves.  `Compute` is `compute_one_step` plus
the decision, `LoadBalance` the collective `Zoltan_Do_LB`.  MPI is modelled by
its guarantees: counts of one channel arrive in order, and a probe for any
source takes any message with the tag that no earlier message of the same
sender and tag precedes.  A particle is its identity; positions are the few a
property can tell apart; the partition is a constant function from positions to
ranks, as is "near".  The field `rnd` of a message and the variable `round` are
history: the program has neither, no guard reads them but the one that states
MPI's order, and they are there so that `RoundIsolation` can be said.  The
reductions between two steps are left out on purpose: they only synchronise,
so every behaviour with them is one of this model.

The iterations that load balance are chosen once, in `Init` (`lbAt`), for all
ranks: that they agree is what `Simulator` shows.  With one rank both functions
return at once (`AfterSort`).

### Simulator

Each rank has its Probe and decides alone; collective calls take place when all
ranks are in them.  Times are natural numbers; the imbalance is kept multiplied
by the number of ranks and the criteria compare cross-multiplied fractions, so
no rounding is introduced (and none of the program's rounding is covered).
`batch_time` starts with any value of `Garbage`, separately on each rank, since
the code leaves it uninitialised (`utils.hpp:170`).

`policy` is a criterion under `PolicyExecutor`, or `"file"` (`InFilePolicy`) or
`"random"` (`RandomPolicy`).  A file is a sequence of lines of numbers, of which
the model keeps what the constructor looks at: how many there are and whether
the last is positive.  `FileDecisions` is the constructor's loop, with its flag
that empties the queue when a line follows the end of a dataset.  The random
generator is seeded alike on all ranks, so all have the same draws in store
(`script`).  The remaining policies are not there: `ThresholdPolicy` and
`CustomPolicy` wrap a function, `PeriodicPolicy` and `NoLBPolicy` want an
argument that `PolicyRunner` does not pass.

### BranchAndBound

One search stands for all ranks: each cost is a sum of maxima that
`MPI_Allreduce` gives to everybody, so all ranks pop the same node.  A node is
its path from the root; the particles are abstracted to the frame they have
reached.  `Child` lets every batch take any of the `BatchTimes` and every load
balancing any of the `LBTimes`, whatever preceded it.  The times are not a
function of the decisions: `leapfrog1` never advances its index
(`physics.hpp:22`), a force goes to the particle of the lower index only
(`utils.hpp:683`), `lj::acc` is static and is carried from node to node
(`ljpotential.hpp:24`), and a child starts from the particles of whichever node
saved the frame last.  The partition that a load balancing yields depends on
the particles too, so it is left out.

So the comment at `shortest_path.hpp:87`, "no other Yes node at this depth can
be better", cannot mean the best of all plans: what follows one Yes node may be
faster than what follows another that ended the frame earlier, and the node that
was dropped is never followed.  What the code does guarantee is
`FirstYesIsBest`, that a node it drops was not better *up to the end of its
frame*, and `EveryPlanAccounted`, that nothing else is dropped: every plan that
was not returned had as far as it was computed taken as long as the solution, or
was dropped at a frame where it load balances, for a node that does so too and
was no slower.

The multiset is the set of paths in it; `Precedes` is the order they leave in,
by cost and, at equal cost, in the order they were put in (`born`), which is
where `multiset::insert` puts them.

### ParticleVectors

`Exchange` has the vectors as sets and the messages in detail; here it is the
other way round.  `mode` is the way in which particles change hands:

* `"migrate"`, `migrate_data` (`parallel_utils.hpp:255`): `Extract` is one turn
  of the loop (283-299) that swaps an element that leaves with the last one and
  looks at the same index again; `Announce` sends the counts.
* `"invert"`, `Zoltan_Migrate_Particles` (`zoltan_fn.hpp:305`): the same loop,
  but `Zoltan_Invert_Lists` tells the receivers (`Listed`, `InvertLists`).
* `"cells"`, `zoltan_migrate_particles` (`zoltan_fn.hpp:176`): `Collect` copies
  what it sees of the elements that left, in whatever order the lists have it,
  and notes local ids; `Drop` then takes the elements out by swapping, from the
  highest id down (242-247), which is what keeps the other ids valid.  The
  function walks the lists of the border cells only (219-238), the shell of a
  box padded by twice the radius, made from the positions before the move: it
  sees any part of those that left, often none, and the others stay where they
  are until a later collective finds them.
* `"balance"`, `Zoltan_Do_LB`: Zoltan knows elements by their index, so `Pack`
  only marks (`gid = -1`), received elements are appended, and `Compact` is one
  turn of the loop of `post_migrate_particles`.

That nothing is packed or dropped under a stale index is `LocalIdsValid`; it is
why the ways of taking out have to differ.  The second and the third have no
caller in the repository and are called where `migrate_data` is.  `OnlyItsOwn`
is about the other three ways: out of them a rank has exactly what is in its
region, also what an earlier `zoltan_migrate_particles` had left behind with
another.

All of them implement `Redistribution`, where a rank that enters gives up what
it finds of the particles that left it and keeps the rest in `missed`; the
mapping has nothing missed except under `zoltan_migrate_particles`, so there
the other ways are held to giving up everything.  Its load balancing is one
step: in the refinement mapping a rank owns what Zoltan assigned to it from the moment
Zoltan cuts anew, and is "ready" from then on, although its vector catches up
only later.  That mapping is legitimate because nobody computes before
everybody has left the collective; the guard of `ComputeOneStep` says so, and
stands for the ghost exchange and the reductions, which let nobody through
before.  `Init` is `main`'s: all particles on rank 0 (`Root`) and Zoltan about
to move them for the first time.

### UnloadingModel

Nothing calls `unloading_model.hpp` yet, and the model calls it as its comments
say: `get_communicator`, then one of the divisions, then, after
`divide_data_into_top_bottom2`, at every step `migrate` and `exchange`.  With
`divide_data_into_top_bottom` only the increasing ranks and those of top have
their own partition each, which `migrate` cannot use, so that behaviour ends
there.  `rising`, the outcome of comparing slopes with the threshold, is any set
of ranks; `home` and `topHome` are Zoltan's two partitions and change when the
particles move.  `GetCommunicator` computes `increasing` on a rank of top from
the difference of groups and on an increasing rank from its own group, as the
code does (`Group` is `MPI_Comm_split`).  `MarkExports` is the loop of `migrate`
with its four fates of a top particle; `InvertBottom`, `SendBottom`,
`InvertTop`, `SendTop`, `Receive` are its two rounds, whose messages share the
wire and differ in their tag.  `PEs` is what one array reused for all particles
holds when the k-th is marked, `Exported` the particles that go to more ranks
because of it.

Vectors are sets, and a send is complete when it is posted.  `exchange`
hands Zoltan the address of the front of an empty `parts`
(`unloading_model.hpp:181`, `:204`), which is undefined; the model takes it as a
null pointer, so that only the ranks are returned.  It leaves out that `std::set_union` of arrays
that are not sorted may have a rank twice, which would send a copy twice.

Once divided, both vectors of a rank taken together are a rank's particles in
`Redistribution`: `MigratesAsPromised` states the refinement step by step, from
the division on (`dest` is where a particle belongs).  The states before the
division are outside of what `Redistribution` is about.

### CellLists

One rank.  `FindBorders` is `get_bounding_box` with
`get_border_cells_index`; `ListLocals` and the list after the ghosts are
`CLL_init`; `SelectGhosts` is the choice of copies in `exchange_data`;
`ComputeForces` is the walk over the pairs.  Positions are integers.
`head` and `lscl` are resized when they are too short and left alone when they
are too long, as in the code, so each step meets what earlier ones left.  What
comes from other ranks is any choice of `Pos`; what is read in the ghosts' place,
see `CellListsGhosts`, may be past the end of the particles and hold any
position, and one outside of the grid makes `at()` throw (`"aborted"`), which nothing catches.

`Exchange` takes "near" as a constant relation.  `CellListsBorders` shows that
the ranks recorded for a border cell need not be those near it, so `Exchange`
must not be read as saying that ghosts are complete: what it shows is that
whatever was selected arrives in its own step.  Not modelled: the forces and
the clearing of the accelerations.

### Generators

A draw is any position that the distribution can give.  The sphere that
clusters are drawn from grows without bound, so it is all of `Pos`.  The cell
lists of the uniform and wall generators are sets of indices, kept as the code
keeps them: a candidate is compared with indices above the number generated
(`initial_conditions.hpp:297`), of which there are none.

### Leapfrog

The coordinates do not influence each other, so there is one; lengths are
integers and the time step is 1.  The forces are any choice of `Acc`.  The
index at which `leapfrog1` takes the acceleration is never incremented
(`physics.hpp:22`), hence the `first` in `Kicked`.
`numeric_limits::epsilon()`, by which the upper wall is moved, vanishes in a
float of the size of the box.  The specification is `Motion`, which begins at
`Start`: `Leapfrog` and `Generators` share the parameters of `Box` and are both
extended by `ParticleProofs`.

## Runs

| run | instance | what it shows |
|---|---|---|
| `Exchange` | 3 ranks, 2 particles, 2 iterations, two cuts, one of which leaves ranks empty | `Conservation`, `IntegratedOnce`, `NothingLeftOver`, `RoundIsolation`, `GhostsCurrent`, `BoundedSkew`, `DInv` (the inductive invariant the proofs use), and that `Exchange` implements `Redistribution` |
| `ExchangeLive` | 3 ranks, 1 iteration, one count of buffering per channel | `Termination` |
| `Vectors` | 2 ranks, 3 particles, 2 iterations, any cut, all four ways | `OncePerParticle`, `LocalIdsValid`, `OnlyItsOwn` (what the border cells show of those that left being any part of it), that `ParticleVectors` implements `Redistribution`, and that every collective ends (`EveryCallReturns`) |
| `Unloading` | 3 ranks, 2 particles, 2 calls of `migrate`, any slopes, any partitions | `SameView`, `OnePlace`, `TopDataOnTop`, `Placed`, `GhostsReach`, and that the two kinds of data together move as `Redistribution` promises (`MigratesAsPromised`) |
| `Simulator` | 2 ranks, 2 frames of 2 iterations, three criteria, three files, random draws, `batch_time` starting at 0 | agreement of the ranks, contents of the Probe, decisions per frame and from the last dataset of a file, histories, recorded frames |
| `Search` | 4 frames of 2 iterations, two times per batch | what the pruned search drops and for what, its snapshots, its queue, the histories returned |
| `CellLists` | a rank of 3, up to 2 particles and 2 ghosts at any of 4 positions, 2 iterations | the lists partition the particles and only a ghost makes `CLL_init` throw (`ListsPartition`), the border cells are the shell, each particle of a border cell is copied once to each of the ranks recorded for that cell (none, one or two), pairs are not doubled |
| `GenMany` | 4 particles, all configurations, 2 trials | `Apart`, `AsManyAsAsked`, and that generation ends, without an exception for a position outside of the grid (`Ends`) |
| `Leapfrog` | 2 particles, a box of one cut-off | `InBox`, `ShortSteps` |
| `SimBatchTime` | Procassini with garbage in `batch_time` | **violated**: it balances on a time nobody measured (`utils.hpp:170`, `nbmpi.cpp:279`); with different garbage the ranks diverge and wait for ever |
| `CellListsGhosts` | a rank of 2, ghosts anywhere | **violated**: the span meant for the ghosts starts at the rank's own particles, so ghosts are filed under the cells of those (`ljpotential.hpp:54`) |
| `CellListsBorders` | regions cut in y, 2 ranks | **violated**: the ranks recorded for a border cell are those near another cell (`utils.hpp:358`) |

Differences between code and text, and oddities, that no run is spent on:

* the search returns one solution whatever `nb_best_path` is
  (`shortest_path.hpp:95`, `params.hpp:71`), and its recorder writes the frame
  before the last in place of the last (`shortest_path.hpp:161`, `:198`, against
  `params.hpp:80`); with no frames at all the root is the solution;
* configuration 5 generates fewer than `npart` particles when 4 does not divide
  it (`nbmpi.cpp:117`, `:120`); the first particle of a cluster is compared with
  none and so may be anywhere (`initial_conditions.hpp:61`);
* speeds between 90% and 100% of the cut-off are not limited to the 90% of the
  comment, a limited one is positive whatever its direction was
  (`physics.hpp:35-36`), and `leapfrog1` always reads the acceleration of the
  first particle (`physics.hpp:22`), all as `Leapfrog` has it;
* a third of the accelerations is cleared (`utils.hpp:668`); the bounding box of
  a rank without particles is made of numeric limits (`utils.hpp:274`);
* `exchange` of the unloading model marks a particle for every rank in its two
  arrays, entries left by earlier particles included, where the comment says
  "for every detected PE" (`unloading_model.hpp:224`); ranks get more copies
  than needed, `GhostsReach` shows that none is missing;
* a top particle over the region of its own rank stays top data
  (`unloading_model.hpp:406`), where the algorithm at the end of the file
  (553-560) makes it bottom data.

Bounds.  In `Exchange` three ranks are the least
at which `MPI_ANY_SOURCE` has a choice and at which one rank can be an exchange
ahead of a second while a third is late.  Two iterations give two consecutive
exchanges of each kind with the same tag, which is what could mix, and one
particle that moves on in the next iteration.  Two particles can travel in one
message or cross each other.  `SendBuffer` is 3 where it should not matter
(`BoundedSkew` shows that 2 counts suffice) and 1 for `Termination`.
Four frames give the search several Yes nodes to prune per frame and No children
that overtake them; both ways a plan can be dropped (`DroppedFor`) happen, and
the run fails when either is taken out of `EveryPlanAccounted`.  A batch is
measured short or long (5 units against 1, a load balancing 2), independently
for every node.  Two iterations per frame distinguish the decision from the
rest of its batch.  `MaxIter`, `MaxMoves`, `NFrames`, `Times` and `LBTimes`
are the bounds; all are parameters of the program except the times.
In `Unloading` three ranks are the least at which two can be increasing or two
be on top; ranks 0, 1 and 2 are numbers (the code takes the least of a
communicator as its root), the particles are symmetric.  Two calls of `migrate`
let a particle that became top data in the first be brought back by the second,
and let one rank be in the second while another still receives in the first.
The files of `MCSimulator` are one dataset, one that replaces an earlier one,
and one whose last line ends a dataset without another following; each has a
decision for every frame, as the program would otherwise read from an empty
queue.
Three particles are the least at which a swap moves an element that is itself
still to be looked at.  The four positions of `MCCellLists` give boxes of
different sizes in every dimension, that start at 0 or not and end on a face of
a cell or not, and two iterations let a smaller grid follow a larger one.  A
particle is in an outer cell only next to 0, where the margin of the box is cut
off: three of the positions are, at x = 0, 2 and 4, and the regions `Slices`
make these cells border on no other rank, on one and on two.  So states with
copies under way to one rank and to both are reached, of one particle and of
two in the same cell or in different ones.  The regions depend on x alone,
because the code finds the ranks near a cell right only in that dimension
(`CellListsBorders` is the finding): `CopiedOnce` takes the ranks recorded as
they are.  One particle and two ghosts are enough for the ghosts to outnumber
the particles.  The
positions of `MCGenerators` are on a face, inside, outside and too close to one
another.  The radius divides the box, as `main` rounds the box up to whole cells
(`nbmpi.cpp:32`; `GridAssumption`), so that rounding and truncating its quotient
(`initial_conditions.hpp:244`, `:422`) give one grid; quotients of floats that
come out below the integer are not covered.  The box of `MCLeapfrog` is one
cut-off wide, the least `main` can make, where a step can nearly cross it.

Fairness.  `ExchangeLive`: each rank is a running process: weak fairness
of its next step.  MPI delivers what was posted, so a receive that stays
possible happens.  `MPI_Waitall` need not return before the rank's messages
have been received, hence fairness of `Waitall(r)` only with `Received(r)`;
the model lets it return earlier too.  With `SendBuffer = 0`, that is if
`MPI_Send` were synchronous, the program deadlocks in its first exchange, as a
rank sends to itself before it receives: the program relies on MPI buffering
one integer per channel.  `Vectors`: each rank is a running process, and a
collective all ranks have reached takes place.  `GenMany`: the program runs
(weak fairness of its step), and a random draw is not for ever a rejected one
when others are possible (strong fairness of placing a particle in a cluster).
`Ends` needs that only for clusters, whose generator never gives up; every
other one stops after `MaxTrial`.

## Proofs

The theorems in `ExchangeProofs` are about `Exchange!Spec` and hold for every
value of its constants that satisfies `NProcAssumption` (at least one rank),
`BoundsAssumption`, `ParticleAssumption` (finitely many particles) and
`PartitionAssumption` (Zoltan assigns every position to a rank that exists).
In particular they hold for every amount of buffering in MPI, also for 0.

| theorem | what it says | run that checks it on an instance |
|---|---|---|
| `TypeCorrect` | `[]TypeOK`: PE stays a rank, recv_count never becomes negative | `Exchange` |
| `Bookkeeping` | `[]IInv`: the part of `DInv` that counts messages | `Exchange`, in `DInv` |
| `Isolation` | `[]RoundIsolation`: a message is matched in the exchange it was sent in | `Exchange` |
| `Skew` | `[]BoundedSkew`: nobody is two exchanges ahead | `Exchange` |
| `Leftovers` | `[]NothingLeftOver`: at the end MPI holds nothing | `Exchange` |
| `Conserved` | `[]Conservation`: no particle lost or doubled by vectors, buffers and messages together | `Exchange` |
| `OncePerIteration` | `[]IntegratedOnce`: a particle makes the steps of the rank it is on | `Exchange` |
| `GhostsInTime` | `[]GhostsCurrent`: forces are computed with all the copies selected, of this iteration | `Exchange` |
| `Delivery` | `[]DInv`: the invariant behind these three | `Exchange` |
| `Refinement` | `Exchange` implements `Redistribution` | `Exchange` |
| `LidsStayValid` | `[]LocalIdsValid` of `ParticleVectors`: an index noted is the index of its element when it is used | `Vectors` |
| `AlwaysOncePerParticle` | `[]OncePerParticle`: a particle is at one index of one vector, buffer or message | `Vectors` |
| `AlwaysOnlyItsOwn` | `[]OnlyItsOwn`: out of a collective that looks at every element a vector has exactly what its rank owns, whatever earlier ones missed | `Vectors` |
| `VectorsRefine` | `ParticleVectors` implements `Redistribution`, missing something under `zoltan_migrate_particles` only | `Vectors` |
| `KeepsAll` | `[]NothingLostOrDoubled` of `Redistribution`, of `ParticleVectors` | none: the abstract module has no run of its own |
| `KeepsHome` | `[]AtHome` of `Redistribution`, of `ParticleVectors`: who is out of the collective has what is its own, except what was missed, and whom it misses is with one who missed it or is ahead | none |
| `AlwaysSameCourse` | `[]SameCourse` of `Simulator`: no rank balances while another migrates | `Simulator` |
| `DecisionsPerFrame` | `[]DecidedPerFrame`: one decision a frame, a file's from its last dataset | `Simulator` |
| `ImbalanceKept` | `[]ImbalanceSinceLB`: the imbalance decided from is that since the last load balancing | `Simulator` |
| `OneSamplePerLB` | `[]SamplesPerLB`: the averages have one cost and one efficiency per load balancing | `Simulator` |
| `CompleteHistories` | `[]HistoriesComplete`: equal and complete histories, every frame recorded once | `Simulator` |
| `OneView` | `[]SameView` of `UnloadingModel`: the same increasing ranks and error everywhere, somebody left on top | `Unloading` |
| `TopStaysOnTop` | `[]TopDataOnTop`: no increasing rank has or is sent top data | `Unloading` |
| `NoneLostOrDoubled` | `[]OnePlace`: a particle is in one vector, buffer or message | `Unloading` |
| `PlacedRight` | `[]Placed`: outside of `migrate` everything is where the two partitions say | `Unloading` |
| `CopiesReach` | `[]GhostsReach`: every rank near a particle has it or a copy of it after an exchange | `Unloading` |
| `MigrateRefines` | `MigratesAsPromised`: once divided, both kinds of data move as `Redistribution` promises | `Unloading` |
| `PlansAccounted` | `[]EveryPlanAccounted` of `BranchAndBound`: what becomes of the plans that are not returned | `Search` |
| `OneYesPerFrame` | `[]FirstYesIsBest`: the Yes nodes that are dropped were no better up to the end of their frame | `Search` |
| `FramesSaved` | `[]SnapshotOfFrame`: a child is computed from the particles of its frame | `Search` |
| `CostsGrow` | `[]QueueOrdered`: the queue is never empty too early and costs only grow | `Search` |
| `HistoriesAddUp` | `[]HistoryOfSolution`: the histories of a solution are those of a whole run under its plan | `Search` |
| `EveryParticleListed` | `[]ListsPartition` of `CellLists`: every particle is in the list of its cell and in no other, once | `CellLists` |
| `BordersExact` | `[]BordersAreShell`: the cells recorded are the outer ones, each once, as many as are reserved | `CellLists` |
| `GhostsCopiedOnce` | `[]CopiedOnce`: each receiver gets the particles of the cells bordering on it, each once | `CellLists` |
| `NoPairTwice` | `[]PairsOnce`: no pair of particles is met twice, and none with itself | `CellLists` |
| `StaysInBox` | `[]InBox` of `Leapfrog`: one reflection per wall is enough | `Leapfrog` |
| `StepsAreShort` | `ShortSteps` of `Leapfrog`: no step is as long as the cut-off | `Leapfrog` |
| `GeneratedApart` | `[]Apart` of `Generators`: no two particles closer than the least distance, also of two generators | `GenMany` |
| `AllGenerated` | `[]AsManyAsAsked`: without giving up, as many particles as were asked for | `GenMany` |

`StaysInBox` and `StepsAreShort`, in `ParticleProofs`, are about
`Motion` of `Leapfrog`, under `FirstAssumption` (there is a particle at index 0), `BoxAssumption` (the
cut-off is positive and not wider than the box) and `AccAssumption`
(accelerations and initial velocities are integers).  `InBox` is inductive: the
clamp bounds a step by less than the cut-off, so a particle that left the box
is less than a box away from the wall it crossed.  That a cut-off wider than
the box would break it is why `BoxAssumption` is there.

`GeneratedApart` and `AllGenerated`, in the same module, are about
`Generators!Spec`, for every number of particles and set of positions, under
`BoxAssumption`, `TrialAssumption` (the trials have a positive limit) and `DrawAssumption`
(positions are triples of integers; the configurations are the six).
`AsManyAsAsked` is not inductive, since the generators count differently: most
count their own particles, the cluster generator the whole vector.
`Generation` says where the queue is (`AtFirst`, `AtSecond`, `AtEnd`) and what
the vector holds then: the cluster generator is only ever the first, on an
empty vector, so its count is the number of its own, and it goes on to another
cluster only when the vector is full (`Counted`).  `Apart` is inductive with it: only
uniform and wall generators skip `Predicate`, and they are never in the queues
it speaks of.

`KeepsAll` and `KeepsHome`, in `VectorProofs`, say of `ParticleVectors` what
`Redistribution` promises: by `VectorsRefine` its behaviours are behaviours of
`Redistribution`, and those keep the promises whatever the constants
(`PromiseAlways`).  Their invariant says what makes a load balancing safe, which gives every
particle to its new holder and forgets what is in transit: a particle in
transit holds its receiver in the collective, directly or through a rank that
is inside and cannot leave before it (`Bound`), and no rank is out of step
(`Abreast`).  From entering on, what a rank has and did not miss is of its
region (`Residents`), and what a ready rank lacks can still come (`Missing`).  `Refinement` and `MigrateRefines` show that `Exchange` and `UnloadingModel`
are behaviours of `Redistribution` as well.

The other four theorems in `VectorProofs` are about `ParticleVectors!Spec` for any
number of ranks, particles and iterations, under `RootAssumption` (the
particles start on a rank), `MarkedAssumption` (-1 is nobody's gid) and
`FiniteAssumption`.  None of the properties is inductive: that a swap does no
harm depends on which indices are still to be looked at, and that a rank may
leave on what it was told.  The invariant `VInv`, which TLC checked on 2 ranks
with 3 particles, 3 with 2, and 1, before it was proved, says

* `Together`, `Paced`: all ranks are in the same collective, nobody computes
  while another is in it, and iterations differ by one at most;
* `Contents`: an element that is not a rank's own is only where its loop still
  has to look, noted under its index, or the rank is in
  `zoltan_migrate_particles`, which may leave it; a marked one only until the loop of
  `post_migrate_particles` has passed;
* `Tasks`, `Buffers`, `Wires`: what is noted, packed or under way is for another
  rank, which is still in the collective;
* `Announced`, `Owes`, `Books`: a count is positive exactly if something is
  packed or to be packed, and a rank waits for as many messages as it is owed;
* `Distinct`, `Apart`, `Somewhere`: no list has a particle twice, no two places
  have the same one, and there is one.

What `std::iter_swap` and `pop_back` do to a vector is said once, by `SwapOutIs`
(which element is where) and `SwapOutHolds` (which are still there);
`AppendHolds` and `ConcatHolds` say it of packing and unpacking.  `DropKeeps` is where the order of the ids
matters: the last element, which takes the place of the highest id, is not
itself to be dropped.  `OncePerParticle` counts places, and `VInv` gives that
there is one.  The refinement uses that what no rank owns is in transit
(`TransitIs`), so that of each action only the owners and the stages have to be
looked at (`Stutters`, `OnlyThis`); `Gathered` says that who has received
everything already has its own in the vector, which is why a load balancing
may be one step.

The five theorems in `SimulatorProofs` are about `Simulator!Spec` for any number
of ranks, frames and iterations and any times, under the four assumptions of
`Simulator` (sizes are positive, times are natural numbers, the policies are
those modelled, no line of a file is empty).  `ImbalanceKept`, `OneSamplePerLB`
and `CompleteHistories` assume nothing more: they hold even where the ranks
diverge and wait for ever.

The invariant `Ledger` says what a rank keeps by itself:

* `Counted`: `probe.it`, the lengths of `time_hist` and of the decisions, and the
  number of steps measured, as a function of frame, iteration and place;
* `Accumulated`: the cumulative imbalance is that since the last decision to
  balance, the one being carried out (`pc = "lb"`) not yet included (`Fresh`);
* `Costs`, `Efficiencies`, `Flags`: one cost per decision carried out, one
  efficiency per reduction with the flag set, and the flag is the last decision;
* `Summed`, `Filed`: the times of what is over are in `app_time` and `comp_time`,
  and the frames ended have been gathered;
* `PerFrame`: only the first iteration of a frame may decide to balance.

`InStep` says what they have in common, whatever they decide: the Probes have
the same measures (`SameProbes`), counters and times are the same up to the one
step a rank does alone, the end of a frame (`FrameOf`, `CompOf`, ...), two ranks
are in the same place or in one of few pairs of places (`Together`), and the
decisions of the iterations over are the same (`SamePast`): who has decided
otherwise cannot come to the ghost exchange.  `CompleteHistories` follows from
these two.

`SameCourse` needs in addition why they decide alike.  A criterion looks at
measures and, Procassini's, at the batch time (`SameView`, `SameBatches`,
`Decided`), and the proof never says what a reduction computes, only that it
computes the same for all.  The draws are those of one sequence (`Drawn`), the
decisions of a file those of `FileDecisions` by frame (`TakenFromFile`).  Two
hypotheses are left, and without either the ranks may diverge: `SameGarbage`,
that the `batch_time` nobody assigned is the same on every rank if Procassini's
criterion may be chosen (`SimBatchTime` shows why), and `LongFiles`, that a file
has a decision for every frame, as the front of an empty queue is whatever is
there.  `FileRead` proves that the constructor's loop, with its flag, keeps
the last dataset of a file of any length (`Lines` is what it has after each
line).

`OneView` and `TopStaysOnTop`, in `UnloadingProofs`, need `RankAssumption` only
(a finite, nonempty set of ranks).  What `get_communicator` gives a rank is
expressed in the slopes (`SplitSo`); that `top` is not empty without the error
is arithmetic on `Cardinality` (`SomebodyLeft`: not all of n ranks are at most
n / 2).  `TopStaysOnTop` needs `Phases` in addition: from the division on, the
top partition has parts on ranks of top only, and so have the buffers, until
they are sent.

`NoneLostOrDoubled`, `PlacedRight` and `MigrateRefines`, in the same module,
need `RankAssumption` only, too.  `OnePlace` is not inductive: that a
rank leaves `migrate` with nothing on the way to it depends on what it was told.
The invariant `PInv` says

* `InStep`: all ranks are before or after the same collective (`SameStage`) and
  in the same call of `migrate`;
* `Apart`, `Somewhere`: two places of a particle are one, and there is one;
* `Sits`, `Goes`: a particle is where the partition of its kind says or on its
  way there; top data is over the region of an increasing rank;
* `InTime`, `Books`: buffers are full between `MarkExports` and the sends only,
  and a rank waits for exactly those who have something for it in a buffer or
  under way;
* `Gathered`: rank 0 of top counts down the increasing ranks it has not heard
  from, and top is balanced at once when none is left.  Rank 0 is a minimum of
  a set of numbers, whose existence is proved from the well-foundedness of
  strict inclusion.

`CopiesReach` needs `ParticleAssumption` in addition (finitely many particles:
a vector lists them in some order).  `exchange` reuses one array of marks for all
particles and ignores how many Zoltan found, so a particle may go to ranks that
were found for an earlier one, but not to fewer than it should: what was found
is written to the front of the array, each rank at its own place (`EveryoneIsNth`), so
it is all there when the particle is marked (`AllMarked`).  A particle near a
rank is with some rank (`PInv`), which marks it and sends a copy.  `Reach`
adds that who is near is known from an exchange to the next move only,
during which nobody has anything to send.

The five theorems in `SearchProofs` need the assumptions of `BranchAndBound`
only: at least one frame, one iteration per frame and one solution asked for
(the program does not insist on them; for no frames at all see the oddities),
and times that are natural numbers.  Nothing is assumed about which times are
measured where.  `EveryPlanAccounted` speaks about all plans, most of which were
pruned or never became nodes, so the invariant `SInv` says what became of every
node:

* `Tree`: with a node its parent is in the tree;
* `Settled`: a node is in the queue, was expanded or is *lost* (`Lost`: another
  Yes node of the frame was expanded, and it cost no more); what follows an
  expanded node was computed, is still to be looked at or is lost;
* `Fringe`: whatever was expanded costs no more than what is in the queue, for a
  child costs no less than its parent (`ChildCost`), whatever was measured;
* `Place`, `Fresh`, `Closed`: where the loops are; what is in the queue or still
  to be looked at has no children yet; a frame is closed by exactly one Yes node
  and then has none in the queue;
* `Saved`, `Written`: a frame after which a node exists has its snapshot.

When a final node is taken, follow any plan as far as it was computed
(`Furthest`).  The node there is in the queue, and costs at least as much as
the solution (`Fringe`), or it or its next one is lost (`Settled`).
Sums over iterations are recursive functions (`Totals`); what is needed of them
is proved in `SumProofs` by `Induct`, which is induction on a set of numbers,
from the well-foundedness of strict inclusion, as the induction theorems of the
library take an operator as a parameter.

`HistoriesAddUp` is about what `shortest_path.hpp` puts together from the nodes
of a path.  `Histories` says what each of them has recorded: times that only
grow and end at its cost, whether it balanced at the first iteration and nowhere
else, one load-balancing time for each Yes on its path (`Records`); that it went
on from its parent's cost and load-balancing times (`GoesOnFrom`); and that all
nodes on the way to it are in the tree with a beginning of its load-balancing
times (`HandedDown`).  The histories are then equally long parts put one after
the other (`TimesOfPath`, `DecisionsOfPath`); `EqualParts`, in `SumProofs`, says
which entry of which part is the n-th, and `DecisionsCounted` which
load-balancing time belongs to it.

The four theorems in `CellListProofs` are about `CellLists!Spec`, for any
cut-off radius, positions, regions and bounds on the numbers of particles and
copies, under its five assumptions (the radius is positive and even, since it is
halved; positions are not negative; there are finitely many ranks; the bounds
are numbers; the regions cover the space, so that every border cell has a rank).  The invariant `Inv` says

* `Elements`, `Boxed`, `Bordered`: what the rank has, and that box and border
  cells are those of its particles;
* `Vectors`: `head` and `lscl` are vectors of integers, of any length and with
  anything in them, because `CLL_init` meets what earlier calls left;
* `FiledOwn`, `FiledAll`: between the two calls of `CLL_init` and the uses of
  their lists, the particles, and later the copies too, are filed under the
  cells of their positions; what is read in the ghosts' place is any position;
* `Outnumbered`: `at()` throws only if there are more ghosts than particles,
  so that the second call reads past the end.

`ListsLinked` says what `CLL_init` makes of vectors of any content: `head` and
`lscl` link, for every cell of the grid, the last index filed there to the one
before (`Linked`); `ListIs` says that following the links, pass by pass, gives
each index of the cell once.  `BoxRegular` and `NumberUnique` are the arithmetic of the grid: at
least two cells in every dimension, every particle in one of them, one number
for each.  `BordersAre` shows that the rows `get_border_cells_index` visits are
the shell (`VisitedAre`), and `ShellSize`, by cardinalities, that it has the
number of cells reserved for it.  `SelectedOnce` and `ForcesOnce` then
follow from the lists: that no index occurs twice in a `FlattenSeq` is
`FlatInjective`.

The theorems on `Exchange` go by way of one invariant in two parts.

`RoundIsolation` is not inductive: that no message of the last exchange is left
when a rank enters the next one depends on how many it waited for.  `IInv`
adds what that count stands for:

* `Channels`: the counts under way from s to d are those of the exchanges s has
  told d about and d has not heard of, in order.  So a rank that has left
  `get_invert_list` is not ahead of any other (`NotAhead`), and none is more
  than one exchange ahead (`OneAhead`).
* `Announced`: a positive count announces elements that are sorted or in a
  message; a zero, none.
* `Expecting`: `recv_count` is the number of ranks that have announced
  something for this exchange and still owe it.  When it is 0 nobody owes
  anything, so `Waitall` leaves no message behind (`WaitallKeeps`).
* `OutInTime`, `WireInTime`: what is sorted or sent is for a rank that has not
  left that exchange; one message per sender and receiver.
* `Schedule`: the number of the exchange follows from the iteration, so two
  ranks in the same exchange are in one of the same kind (`SameMode`); without
  it the tags of sender and receiver could differ.

There is one lemma per action (`EnterKeeps`, `SendCountKeeps`, ...), each with
one step per conjunct of `IInv`; `NextIInv` puts them together.

`IInv` is about messages; `DInv` adds what they carry:

* `Once`: a particle is in one vector, one buffer of a migration or one message;
* `Addressed`, `Residents`, `Behind`: what migrates is for the rank of its
  region, which is still in the iteration the particle was integrated in,
  because a rank that has left its migration is ahead of nobody;
* `CopiesInTime`, `Copied`: a copy on its way is of the iteration of the rank it
  is for; a rank that has made its copies has made one of each particle for each
  rank near it, and that copy is posted, under way or received (`Given`).

`Delivery` is again one lemma per action and part (`RecvDelivers`,
`RecvGathers`, ...).  `Refinement` then has one lemma per action:
`EnterMigrate`, `Compute`, `LoadBalance`, a `Recv` of particles and the last
`Waitall` of a migration are steps of `Redistribution`, all else is unseen by it
(`InvisibleSteps`).

Only model-checked, and why: `Termination`, `EveryCallReturns` and `Ends`,
which are liveness under fairness, out of reach of the prover.  Every invariant
and every action property that a passing run checks is also stated by a theorem.

## Not modelled

* Floating-point values, forces, potentials: numerics.
* Logging, CSV files, parsing of parameters: I/O.
* The reductions of the frame statistics: one step of `Simulator`.
* `ThresholdPolicy`, `CustomPolicy`, `PeriodicPolicy`, `NoLBPolicy`: see
  `Simulator`.
* Everything outside the build, see the inventory, but the unloading model:
  `box_runner.hpp`, `dataset_generator.hpp` and `branch_and_bound.hpp` include
  files that are not there and call functions with signatures that no longer
  exist, so what they would do is not determined; `metrics.hpp` and
  `ml_strategy.hpp` serve them.
* `RandomElementsInClustersGenerator`, `update_bounding_box`,
  `add_to_bounding_box`, `CLL_append`: no caller, and nothing they would change
  that others read.
* A wait of MPI that fails: no return code is looked at anywhere.

## Plan

Done: all modules above, their runs, and the proofs listed above.  What would
come next: `GhostsCurrent` with the near ranks `CellLists` records instead of a
constant relation, which needs both modules under one specification.
