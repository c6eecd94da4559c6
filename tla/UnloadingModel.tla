---------------------------- MODULE UnloadingModel ----------------------------
(***************************************************************************)
(* src/includes/unloading_model.hpp: ranks whose load increases give their *)
(* particles to the others.                                                *)
(*                                                                         *)
(* get_communicator splits the ranks (the communicator `bottom') into those*)
(* whose load increases and `top', the rest.  divide_data_into_top_bottom  *)
(* spreads the particles of the former over top.  From then on a rank of   *)
(* top holds two vectors, its own region's and the top data; migrate moves *)
(* the particles of both between the ranks, exchange copies them.          *)
(*                                                                         *)
(* Nothing in the repository calls these functions yet.  They are called   *)
(* here as the comments say: migrate with both partitions over `bottom',   *)
(* so after divide_data_into_top_bottom2, then exchange, at every step.    *)
(* Vectors are sets (ParticleVectors.tla has the extraction loop element by*)
(* element); a collective takes place when all ranks have called it.       *)
(***************************************************************************)
EXTENDS Integers, FiniteSets, SequencesExt

CONSTANTS Rank,     \* the ranks of bottom
          Particle,
          MaxIter   \* bound of the model: calls of migrate

ASSUME RankAssumption == Rank \subseteq Nat /\ Rank # {} /\ IsFiniteSet(Rank)
ASSUME ParticleAssumption == IsFiniteSet(Particle)

VARIABLES
    how,        \* which divide_data_into_top_bottom is called
    rising,     \* the ranks with my_load_slope >= SLOPE_THRESHOLD
    home,       \* particle -> the rank Zoltan's bottom partition assigns
    topHome,    \* particle -> the rank of the top partition
    err,        \* rank -> what get_communicator returned
    increasing, \* rank -> its increasing_cpus
    comm,       \* rank -> its communicator top, {} for MPI_COMM_NULL
    bottom,     \* rank -> bottom_data
    top,        \* rank -> top_data
    mesh,       \* rank -> top_mesh_data
    toRecv,     \* rank -> messages it still has to receive from anyone
    buf,        \* rank -> tag -> rank -> data_to_migrate
    owed,       \* rank -> tag -> import_from_procs not received from yet
    wire,       \* messages under way
    near,       \* particle -> the ranks its box of cell_size touches
    ghosts,     \* rank -> what the last exchange returned
    pc,
    iter        \* rank -> calls of migrate

vars == <<how, rising, home, topHome, err, increasing, comm, bottom, top,
          mesh, toRecv, buf, owed, wire, near, ghosts, pc, iter>>

(* BOTTOM_SEND_TAG and TOP_SEND_TAG of migrate.                            *)
Tag == {"bottom", "top"}

NoBuffers == [t \in Tag |-> [d \in Rank |-> {}]]
NothingOwed == [t \in Tag |-> {}]

InTop(r) == r \notin increasing[r]

Init ==
    /\ how \in {"gather", "direct"}
    /\ rising \in SUBSET Rank
    /\ home \in [Particle -> Rank]
    /\ topHome = home
    /\ err = [r \in Rank |-> FALSE]
    /\ increasing = [r \in Rank |-> {}]
    /\ comm = [r \in Rank |-> {}]
    /\ bottom = [r \in Rank |-> {p \in Particle : home[p] = r}]
    /\ top = [r \in Rank |-> {}]
    /\ mesh = [r \in Rank |-> {}]
    /\ toRecv = [r \in Rank |-> 0]
    /\ buf = [r \in Rank |-> NoBuffers]
    /\ owed = [r \in Rank |-> NothingOwed]
    /\ wire = {}
    /\ near = [p \in Particle |-> {}]
    /\ ghosts = [r \in Rank |-> {}]
    /\ pc = [r \in Rank |-> "split"]
    /\ iter = [r \in Rank |-> 0]

AllAt(place) == \A r \in Rank : pc[r] = place

-----------------------------------------------------------------------------
(***************************************************************************)
(* get_communicator.                                                       *)
(***************************************************************************)

(* Rank 0 of a communicator: the split is keyed by the ranks of bottom.    *)
First(c) == CHOOSE r \in c : \A s \in c : r <= s

(* MPI_Comm_split by slope.                                                *)
Group(r) == IF r \in rising THEN rising ELSE Rank \ rising

TooMany(n) == n > Cardinality(Rank) \div 2

(* Mutant: the ranks of top take the members of theirs, too.               *)
GroupItself(r) == Group(r)

(* The ranks of top take the difference to bottom, the others the members  *)
(* of the communicator the split gave them.                                *)
IncreasingSeen(r) == IF r \in rising THEN Group(r) ELSE Rank \ Group(r)

GetCommunicator ==
    /\ AllAt("split")
    /\ err' = [r \in Rank |-> TooMany(Cardinality(IncreasingSeen(r)))]
    /\ increasing' = [r \in Rank |-> IF err'[r] THEN {} ELSE IncreasingSeen(r)]
    /\ comm' = [r \in Rank |-> IF err'[r] \/ r \in rising THEN {}
                                                          ELSE Group(r)]
    /\ toRecv' = [r \in Rank |-> Cardinality(Rank) - Cardinality(comm'[r])]
    /\ pc' = [r \in Rank |-> IF err'[r] THEN "failed" ELSE "divide"]
    /\ UNCHANGED <<how, rising, home, topHome, bottom, top, mesh, buf, owed,
                   wire, near, ghosts, iter>>

-----------------------------------------------------------------------------
(***************************************************************************)
(* divide_data_into_top_bottom: the increasing ranks send all they have to *)
(* rank 0 of top, which receives from anyone; top then balances it.        *)
(***************************************************************************)

Gatherer(r) == First(Rank \ increasing[r])

SendAll(r) ==
    /\ how = "gather"
    /\ pc[r] = "divide"
    /\ comm[r] = {}
    /\ wire' = wire \cup {[from |-> r, to |-> Gatherer(r), tag |-> "divide",
                           data |-> bottom[r]]}
    /\ bottom' = [bottom EXCEPT ![r] = {}]
    /\ pc' = [pc EXCEPT ![r] = "divided"]
    /\ UNCHANGED <<how, rising, home, topHome, err, increasing, comm, top,
                   mesh, toRecv, buf, owed, near, ghosts, iter>>

GatherOne(r) ==
    /\ how = "gather"
    /\ pc[r] = "divide"
    /\ comm[r] # {} /\ r = First(comm[r])
    /\ toRecv[r] > 0
    /\ \E m \in wire :
          /\ m.to = r /\ m.tag = "divide"
          /\ mesh' = [mesh EXCEPT ![r] = @ \cup m.data]
          /\ wire' = wire \ {m}
    /\ toRecv' = [toRecv EXCEPT ![r] = @ - 1]
    /\ UNCHANGED <<how, rising, home, topHome, err, increasing, comm, bottom,
                   top, buf, owed, near, ghosts, pc, iter>>

EnterBalancing(r) ==
    /\ how = "gather"
    /\ pc[r] = "divide"
    /\ comm[r] # {}
    /\ r = First(comm[r]) => toRecv[r] = 0
    /\ pc' = [pc EXCEPT ![r] = "balance"]
    /\ UNCHANGED <<how, rising, home, topHome, err, increasing, comm, bottom,
                   top, mesh, toRecv, buf, owed, wire, near, ghosts, iter>>

(* zoltan_load_balance over a partition of the particles of the meshes m.  *)
Spread(m, h) ==
    [r \in Rank |-> top[r] \cup {p \in UNION {m[s] : s \in Rank} : h[p] = r}]

BalanceTop ==
    /\ \E r \in Rank : comm[r] # {} /\ \A s \in comm[r] : pc[s] = "balance"
    /\ topHome' \in [Particle -> {r \in Rank : comm[r] # {}}]
    /\ top' = Spread(mesh, topHome')
    /\ mesh' = [r \in Rank |-> {}]
    /\ pc' = [r \in Rank |-> IF comm[r] # {} THEN "divided" ELSE pc[r]]
    /\ UNCHANGED <<how, rising, home, err, increasing, comm, bottom, toRecv,
                   buf, owed, wire, near, ghosts, iter>>

(* Mutant: the increasing ranks keep their copies of what they gave away.  *)
Keeping(r) == bottom[r]

AfterDividing(r) == IF InTop(r) THEN bottom[r] ELSE {}

(***************************************************************************)
(* divide_data_into_top_bottom2: the same partition over all of bottom,    *)
(* with no part on the increasing ranks; Zoltan migrates the particles.    *)
(***************************************************************************)
Divide2 ==
    /\ how = "direct"
    /\ AllAt("divide")
    /\ topHome' \in [Particle -> {r \in Rank : InTop(r)}]
    /\ top' = Spread([r \in Rank |-> IF InTop(r) THEN {} ELSE bottom[r]],
                     topHome')
    /\ bottom' = [r \in Rank |-> AfterDividing(r)]
    /\ pc' = [r \in Rank |-> "ready"]
    /\ UNCHANGED <<how, rising, home, err, increasing, comm, mesh, toRecv,
                   buf, owed, wire, near, ghosts, iter>>

-----------------------------------------------------------------------------
(***************************************************************************)
(* migrate.                                                                *)
(***************************************************************************)

(* The caller computes: its particles go anywhere.  The model forgets what *)
(* the exchange returned, which nothing here reads.                        *)
Move(r) ==
    /\ pc[r] = "ready"
    /\ iter[r] < MaxIter
    /\ \E h \in [bottom[r] \cup top[r] -> Rank],
          t \in [bottom[r] \cup top[r] -> {s \in Rank : InTop(s)}] :
          /\ home' = [p \in Particle |-> IF p \in DOMAIN h THEN h[p]
                                         ELSE home[p]]
          /\ topHome' = [p \in Particle |-> IF p \in DOMAIN t THEN t[p]
                                            ELSE topHome[p]]
    /\ near' = [p \in Particle |-> {}]
    /\ ghosts' = [s \in Rank |-> {}]
    /\ iter' = [iter EXCEPT ![r] = @ + 1]
    /\ pc' = [pc EXCEPT ![r] = "moved"]
    /\ UNCHANGED <<how, rising, err, increasing, comm, bottom, top, mesh,
                   toRecv, buf, owed, wire>>

(* Mutant: the top partition decides for all top particles.                *)
LeavesTopAlways(r, p) == home[p] # r /\ topHome[p] # r

(* A top particle over the region of an increasing rank goes where the top *)
(* partition says; over any other rank's it goes to the bottom there.      *)
LeavesTop(r, p) == home[p] # r /\ home[p] \in increasing[r] /\ topHome[p] # r

LeavesForBottom(r, p) == home[p] # r /\ home[p] \notin increasing[r]

(* Mutant: a top particle is sent, as top data, to the region it is over.  *)
TopDestOfBottom(p) == home[p]

TopDest(p) == topHome[p]

MarkExports(r) ==
    LET fromBottom == {p \in bottom[r] : home[p] # r}
        fromTop == {p \in top[r] : InTop(r) /\ LeavesForBottom(r, p)}
        withinTop == {p \in top[r] : InTop(r) /\ LeavesTop(r, p)}
    IN /\ pc[r] = "moved"
       /\ bottom' = [bottom EXCEPT ![r] = @ \ fromBottom]
       /\ top' = [top EXCEPT ![r] = @ \ (fromTop \cup withinTop)]
       /\ buf' = [buf EXCEPT ![r] =
             [bottom |-> [d \in Rank |->
                            {p \in fromBottom \cup fromTop : home[p] = d}],
              top |-> [d \in Rank |-> {p \in withinTop : TopDest(p) = d}]]]
       /\ pc' = [pc EXCEPT ![r] = "invertBottom"]
       /\ UNCHANGED <<how, rising, home, topHome, err, increasing, comm, mesh,
                      toRecv, owed, wire, near, ghosts, iter>>

(* Zoltan_Invert_Lists: who has something for r under tag t.               *)
Exporters(r, t) == {s \in Rank : buf[s][t][r] # {}}

InvertBottom ==
    /\ AllAt("invertBottom")
    /\ owed' = [r \in Rank |-> [owed[r] EXCEPT !["bottom"] =
                   Exporters(r, "bottom")]]
    /\ pc' = [r \in Rank |-> "sendBottom"]
    /\ UNCHANGED <<how, rising, home, topHome, err, increasing, comm, bottom,
                   top, mesh, toRecv, buf, wire, near, ghosts, iter>>

Messages(r, t) ==
    {[from |-> r, to |-> d, tag |-> t, data |-> buf[r][t][d]] :
        d \in {e \in Rank : buf[r][t][e] # {}}}

SendBottom(r) ==
    /\ pc[r] = "sendBottom"
    /\ wire' = wire \cup Messages(r, "bottom")
    /\ buf' = [buf EXCEPT ![r]["bottom"] = NoBuffers["bottom"]]
    /\ pc' = [pc EXCEPT ![r] = "invertTop"]
    /\ UNCHANGED <<how, rising, home, topHome, err, increasing, comm, bottom,
                   top, mesh, toRecv, owed, near, ghosts, iter>>

(* All ranks call it; the increasing ones ignore the result.               *)
InvertTop ==
    /\ AllAt("invertTop")
    /\ owed' = [r \in Rank |-> [owed[r] EXCEPT !["top"] =
                   IF InTop(r) THEN Exporters(r, "top") ELSE {}]]
    /\ pc' = [r \in Rank |-> "sendTop"]
    /\ UNCHANGED <<how, rising, home, topHome, err, increasing, comm, bottom,
                   top, mesh, toRecv, buf, wire, near, ghosts, iter>>

SendTop(r) ==
    /\ pc[r] = "sendTop"
    /\ wire' = wire \cup (IF InTop(r) THEN Messages(r, "top") ELSE {})
    /\ buf' = [buf EXCEPT ![r] = NoBuffers]
    /\ pc' = [pc EXCEPT ![r] = "receive"]
    /\ UNCHANGED <<how, rising, home, topHome, err, increasing, comm, bottom,
                   top, mesh, toRecv, owed, near, ghosts, iter>>

(* Mutant: everything received is appended to the bottom data.             *)
IsBottom(m) == m.tag \in Tag

ForBottom(m) == m.tag = "bottom"

(* MPI_Recv from a given rank: all of the bottom, then all of the top.     *)
Receive(r) ==
    /\ pc[r] = "receive"
    /\ \E m \in wire :
          /\ m.to = r /\ m.tag \in Tag /\ m.from \in owed[r][m.tag]
          /\ m.tag = "top" => owed[r]["bottom"] = {}
          /\ bottom' = [bottom EXCEPT ![r] =
                           IF ForBottom(m) THEN @ \cup m.data ELSE @]
          /\ top' = [top EXCEPT ![r] =
                        IF ForBottom(m) THEN @ ELSE @ \cup m.data]
          /\ wire' = wire \ {m}
          /\ owed' = [owed EXCEPT ![r][m.tag] = @ \ {m.from}]
    /\ UNCHANGED <<how, rising, home, topHome, err, increasing, comm, mesh,
                   toRecv, buf, near, ghosts, pc, iter>>

Return(r) ==
    /\ pc[r] = "receive"
    /\ owed[r] = NothingOwed
    /\ pc' = [pc EXCEPT ![r] = "migrated"]
    /\ UNCHANGED <<how, rising, home, topHome, err, increasing, comm, bottom,
                   top, mesh, toRecv, buf, owed, wire, near, ghosts, iter>>

-----------------------------------------------------------------------------
(***************************************************************************)
(* exchange.  Zoltan_LB_Box_PP_Assign writes the ranks it found, in        *)
(* increasing order, to the front of PEs_bottom and PEs_top; how many it   *)
(* found is not used, and both arrays serve all particles one after the    *)
(* other.  std::set_union of arrays that are not sorted still has all their*)
(* values; that it may have one twice is left out.                         *)
(***************************************************************************)
Nth(found, j) == CHOOSE s \in found : Cardinality({x \in found : x <= s}) = j

(* The array when the k-th of the particles q is marked, found[p] being    *)
(* what Zoltan finds for p: in each place what was last written there.     *)
PEs(q, found, k) ==
    [j \in 1..Cardinality(Rank) |->
        LET written == {i \in 1..k : j <= Cardinality(found[q[i]])}
        IN IF written = {} THEN -1 ELSE Nth(found[q[Max(written)]], j)]

(* Mutant: the top partition is not asked.                                 *)
ExportedBottom(r, q, b, t) ==
    UNION {{q[k]} \X (Range(PEs(q, b, k)) \ {-1, r}) : k \in DOMAIN q}

(* data_to_migrate of rank r, whose vectors are q: what goes to which rank.*)
Exported(r, q, b, t) ==
    UNION {{q[k]} \X ((Range(PEs(q, b, k)) \cup Range(PEs(q, t, k)))
                      \ {-1, r}) : k \in DOMAIN q}

(* A rank's two vectors, in whatever order they are, one after the other.  *)
Orders(r) ==
    {u \o v : u \in SetToSeqs(bottom[r]),
              v \in SetToSeqs(IF InTop(r) THEN top[r] ELSE {})}

Exchange ==
    /\ AllAt("migrated")
    /\ \E q \in [Rank -> UNION {Orders(r) : r \in Rank}] :
          /\ \A r \in Rank : q[r] \in Orders(r)
          /\ \E b \in [Particle -> SUBSET Rank],
                t \in [Particle -> SUBSET {s \in Rank : InTop(s)}] :
                /\ \A p \in Particle : home[p] \in b[p] /\ topHome[p] \in t[p]
                /\ near' = [p \in Particle |-> b[p] \cup t[p]]
                /\ ghosts' = [r \in Rank |->
                      {p \in Particle : \E s \in Rank :
                          <<p, r>> \in Exported(s, q[s], b, t)}]
    /\ pc' = [r \in Rank |-> "ready"]
    /\ UNCHANGED <<how, rising, home, topHome, err, increasing, comm, bottom,
                   top, mesh, toRecv, buf, owed, wire, iter>>

-----------------------------------------------------------------------------
Stopped(r) == \/ pc[r] \in {"failed", "divided"}
              \/ pc[r] = "ready" /\ iter[r] = MaxIter

Finished == (\A r \in Rank : Stopped(r)) /\ UNCHANGED vars

RankStep(r) ==
    \/ SendAll(r) \/ GatherOne(r) \/ EnterBalancing(r)
    \/ Move(r) \/ MarkExports(r) \/ SendBottom(r) \/ SendTop(r)
    \/ Receive(r) \/ Return(r)

Collective ==
    \/ GetCommunicator \/ BalanceTop \/ Divide2
    \/ InvertBottom \/ InvertTop \/ Exchange

Next == (\E r \in Rank : RankStep(r)) \/ Collective \/ Finished

Spec == Init /\ [][Next]_vars

-----------------------------------------------------------------------------
(***************************************************************************)
(* Properties.                                                             *)
(***************************************************************************)

(* The ranks work out who is increasing from two different communicators,  *)
(* and come to the same answer and the same error: those who are told to   *)
(* send are those top's rank 0 counts, and there is somebody to send to -  *)
(* also when every load increases, which the TODO of the file doubts.      *)
SameView ==
    \A r, s \in Rank : pc[r] # "split" =>
        /\ err[r] = err[s] /\ increasing[r] = increasing[s]
        /\ ~err[r] => /\ comm[r] = IF InTop(r) THEN Rank \ increasing[r] ELSE {}
                      /\ Rank \ increasing[r] # {}

(* Dividing and moving between the two kinds of data neither lose nor      *)
(* double a particle: it is in one vector, buffer or message.              *)
Places(p) ==
    {<<"bottom", r>> : r \in {r \in Rank : p \in bottom[r]}}
    \cup {<<"top", r>> : r \in {r \in Rank : p \in top[r]}}
    \cup {<<"mesh", r>> : r \in {r \in Rank : p \in mesh[r]}}
    \cup {x \in Rank \X Tag \X Rank : p \in buf[x[1]][x[2]][x[3]]}
    \cup {m \in wire : p \in m.data}

OnePlace == \A p \in Particle : \E x \in Places(p) : Places(p) = {x}

(* An increasing rank never has top data (the comments rely on it) and is  *)
(* sent none: it would not receive it.                                     *)
TopDataOnTop ==
    /\ \A r \in Rank : ~InTop(r) => top[r] = {}
    /\ \A m \in wire : m.tag = "top" => InTop(m.to)

(* Where a particle belongs: top data over the region of an increasing rank*)
(* with the top partition, everything else with the bottom partition.      *)
IsTopData(p) ==
    \/ \E r \in Rank : p \in top[r] \/ \E d \in Rank : p \in buf[r]["top"][d]
    \/ \E m \in wire : m.tag = "top" /\ p \in m.data

dest == [p \in Particle |-> IF IsTopData(p) /\ home[p] \in rising THEN topHome[p]
                            ELSE home[p]]

Placed ==
    (\A r \in Rank : pc[r] \in {"ready", "divided"}) =>
        \A r \in Rank : /\ bottom[r] \cup top[r] = {p \in Particle : dest[p] = r}
                         /\ wire = {}

(* Every rank near a particle has it or a copy of it after an exchange.    *)
GhostsReach ==
    AllAt("ready") => \A p \in Particle : \A r \in near[p] :
                          p \in bottom[r] \cup top[r] \cup ghosts[r]

(***************************************************************************)
(* Once divided, the two kinds of data together do what Redistribution     *)
(* promises for one.                                                       *)
(***************************************************************************)
Outside == {"ready", "migrated"}
Early == {"split", "failed", "divide", "balance", "divided"}
Divided == \A r \in Rank : pc[r] \notin Early

R == INSTANCE Redistribution
        WITH home <- dest, moves <- iter, MaxMoves <- MaxIter,
             missed <- [r \in Rank |-> {}],
             own <- [r \in Rank |-> bottom[r] \cup top[r]],
             transit <- {p \in Particle :
                            \A r \in Rank : p \notin bottom[r] \cup top[r]},
             stage <- [r \in Rank |-> IF pc[r] \in Outside THEN "ready"
                                      ELSE IF pc[r] = "moved" THEN "moved"
                                      ELSE "inside"]

MigratesAsPromised == [][Divided => [R!Next]_(R!vars)]_vars
=============================================================================
