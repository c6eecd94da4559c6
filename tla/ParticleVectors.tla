--------------------------- MODULE ParticleVectors ---------------------------
(***************************************************************************)
(* The ranks' particle vectors, element by element, under the ways in which*)
(* particles change hands:                                                 *)
(*                                                                         *)
(*   migrate_data   takes an element that left the region out at once: it  *)
(*                  is swapped with the last one, which is popped;         *)
(*                  Zoltan_Migrate_Particles has the same loop, but Zoltan *)
(*                  inverts the lists of exports;                          *)
(*   zoltan_migrate_particles                                              *)
(*                  looks at the elements listed in the border cells only, *)
(*                  copies those that left, notes their local ids, and     *)
(*                  then takes them out from the highest id down; elements *)
(*                  elsewhere that left stay where they are;               *)
(*   Zoltan_Do_LB   migrates automatically: Zoltan knows the elements by   *)
(*                  their index, so pack_particles only marks them         *)
(*                  (gid = -1), unpack_particles appends, and              *)
(*                  post_migrate_particles takes the marked ones out.      *)
(*                                                                         *)
(* Exchange.tla has the vectors as sets and the messages in detail; here   *)
(* it is the other way round.  Both implement Redistribution.  main uses   *)
(* migrate_data and Zoltan_Do_LB; the other two have no caller, and are    *)
(* called here in the place of migrate_data.                               *)
(***************************************************************************)
EXTENDS Naturals, FiniteSets, SequencesExt

CONSTANTS Rank,     \* the communicator
          Root,     \* the rank that generates the particles
          Particle, \* the gids
          Marked,   \* gid = -1
          MaxIter   \* bound of the model: iterations a rank computes

ASSUME RootAssumption == Root \in Rank
ASSUME MarkedAssumption == Marked \notin Particle
ASSUME FiniteAssumption == IsFiniteSet(Rank) /\ IsFiniteSet(Particle)

VARIABLES
    els,    \* rank -> its vector (mesh_data->els)
    home,   \* particle -> the rank Zoltan would assign it to
    todo,   \* rank -> exports still in its vector, [gid, lid]
    buf,    \* rank -> rank -> data_to_migrate, or Zoltan's send buffer
    counts, \* rank -> rank -> how many elements it announced
    wire,   \* the messages under way
    due,    \* rank -> messages to receive (recv_count)
    i,      \* rank -> index of the loop (data_id, i)
    mode,   \* rank -> the collective it is or was last in
    pc,
    iter    \* rank -> iterations computed

vars == <<els, home, todo, buf, counts, wire, due, i, mode, pc, iter>>

NoBuffer == [d \in Rank |-> <<>>]

(* Zoltan's local ids are the indices that get_object_list gave it, gids   *)
(* the elements at them.                                                   *)
Exports(q, h, r) ==
    {[gid |-> q[l], lid |-> l] : l \in {k \in DOMAIN q : h[q[k]] # r}}

ExportsTo(q, h, r, d) ==
    IF d = r THEN 0 ELSE Cardinality({k \in DOMAIN q : h[q[k]] = d})

(* Zoltan_LB_Partition on vectors e: no callback is called when nothing    *)
(* has to move.                                                            *)
Partitioned(e, h) ==
    LET exports == [r \in Rank |-> Exports(e[r], h, r)]
        moves == \E r \in Rank : exports[r] # {}
    IN [todo |-> exports,
        counts |-> [r \in Rank |-> [d \in Rank |-> ExportsTo(e[r], h, r, d)]],
        pc |-> [r \in Rank |-> IF moves THEN "pack" ELSE "ready"]]

(* main: the particles are on one rank, and are balanced before they move. *)
Init ==
    /\ els \in [Rank -> {<<>>} \cup SetToSeqs(Particle)]
    /\ \A r \in Rank : els[r] = <<>> <=> r # Root \/ Particle = {}
    /\ home \in [Particle -> Rank]
    /\ LET start == Partitioned(els, home)
       IN todo = start.todo /\ counts = start.counts /\ pc = start.pc
    /\ buf = [r \in Rank |-> NoBuffer]
    /\ wire = {}
    /\ due = [r \in Rank |-> 0]
    /\ i = [r \in Rank |-> 1]
    /\ mode = [r \in Rank |-> "balance"]
    /\ iter = [r \in Rank |-> 0]

-----------------------------------------------------------------------------
(***************************************************************************)
(* simulate.  A rank computes when the ghosts are there, so when every     *)
(* rank is out of the previous collective; the reductions after it let     *)
(* nobody decide before all have computed, and all decide alike.           *)
(***************************************************************************)
ComputeOneStep(r) ==
    /\ pc[r] = "ready"
    /\ \A s \in Rank : pc[s] \in {"ready", "moved"}
    /\ iter[r] < MaxIter
    /\ \E h \in [ToSet(els[r]) -> Rank] :
          home' = [p \in Particle |-> IF p \in DOMAIN h THEN h[p] ELSE home[p]]
    /\ iter' = [iter EXCEPT ![r] = @ + 1]
    /\ pc' = [pc EXCEPT ![r] = "moved"]
    /\ UNCHANGED <<els, todo, buf, counts, wire, due, i, mode>>

DecideMigration ==
    /\ \A r \in Rank : pc[r] = "moved"
    /\ \E m \in {"migrate", "invert", "cells"} : mode' = [r \in Rank |-> m]
    /\ pc' = [r \in Rank |-> IF Cardinality(Rank) = 1 THEN "ready"
                             ELSE "extract"]
    /\ buf' = [r \in Rank |-> NoBuffer]
    /\ i' = [r \in Rank |-> 1]
    /\ UNCHANGED <<els, home, todo, counts, wire, due, iter>>

(* Zoltan cuts anew.                                                       *)
DecideBalancing ==
    /\ \A r \in Rank : pc[r] = "moved"
    /\ home' \in [Particle -> Rank]
    /\ LET start == Partitioned(els, home')
       IN todo' = start.todo /\ counts' = start.counts /\ pc' = start.pc
    /\ mode' = [r \in Rank |-> "balance"]
    /\ buf' = [r \in Rank |-> NoBuffer]
    /\ i' = [r \in Rank |-> 1]
    /\ UNCHANGED <<els, wire, due, iter>>

-----------------------------------------------------------------------------
(***************************************************************************)
(* Taking elements out.                                                    *)
(***************************************************************************)

(* std::iter_swap with the last element, pop_back.                         *)
SwapOut(q, k) == Front([q EXCEPT ![k] = Last(q)])

(* Mutant: the element swapped in is not looked at.                        *)
NextSkipping(k, out) == k + 1

(* The index stays when the last element has taken the place of k's.       *)
NextIndex(k, out) == IF out THEN k ELSE k + 1

(* One turn of the loop of migrate_data or Zoltan_Migrate_Particles.       *)
Extract(r) ==
    /\ mode[r] # "cells"
    /\ pc[r] = "extract"
    /\ i[r] <= Len(els[r])
    /\ LET p == els[r][i[r]]
           leaves == home[p] # r
       IN /\ els' = [els EXCEPT ![r] = IF leaves THEN SwapOut(@, i[r]) ELSE @]
          /\ buf' = [buf EXCEPT ![r][home[p]] =
                        IF leaves THEN Append(@, p) ELSE @]
          /\ i' = [i EXCEPT ![r] = NextIndex(@, leaves)]
    /\ UNCHANGED <<home, todo, counts, wire, due, mode, pc, iter>>

(* sends_to_proc, sent to every rank by get_invert_list.                   *)
Announce(r) ==
    /\ mode[r] = "migrate"
    /\ pc[r] = "extract"
    /\ i[r] > Len(els[r])
    /\ counts' = [counts EXCEPT ![r] = [d \in Rank |-> Len(buf[r][d])]]
    /\ pc' = [pc EXCEPT ![r] = "post"]
    /\ UNCHANGED <<els, home, todo, buf, wire, due, i, mode, iter>>

(* Zoltan_Migrate_Particles has its lists of exports.                      *)
Listed(r) ==
    /\ mode[r] = "invert"
    /\ pc[r] = "extract"
    /\ i[r] > Len(els[r])
    /\ pc' = [pc EXCEPT ![r] = "drop"]
    /\ UNCHANGED <<els, home, todo, buf, counts, wire, due, i, mode, iter>>

Leavers(r, d) == {p \in ToSet(els[r]) : home[p] = d /\ d # r}

(* Only what the lists of the border cells have is looked at: the shell of *)
(* a box that was padded by twice the radius (get_bounding_box), by the    *)
(* positions of the last CLL_init.  That finds any of the elements that    *)
(* left, mostly few of them, in the order of the lists.                    *)
Collect(r) ==
    /\ mode[r] = "cells"
    /\ pc[r] = "extract"
    /\ \E seen \in SUBSET UNION {Leavers(r, d) : d \in Rank} :
          /\ todo' = [todo EXCEPT ![r] =
                         {x \in Exports(els[r], home, r) : x.gid \in seen}]
          /\ \E b \in [Rank -> UNION {SetToSeqs(Leavers(r, d) \cap seen) :
                                        d \in Rank}] :
                /\ \A d \in Rank : b[d] \in SetToSeqs(Leavers(r, d) \cap seen)
                /\ buf' = [buf EXCEPT ![r] = b]
    /\ pc' = [pc EXCEPT ![r] = "drop"]
    /\ UNCHANGED <<els, home, counts, wire, due, i, mode, iter>>

(* Mutant: the local ids are sorted upwards.                               *)
IsNextUpwards(x, xs) == \A y \in xs : x.lid <= y.lid

IsNext(x, xs) == \A y \in xs : x.lid >= y.lid

Drop(r) ==
    /\ pc[r] = "drop"
    /\ \E x \in todo[r] :
          /\ IsNext(x, todo[r])
          /\ els' = [els EXCEPT ![r] = SwapOut(@, x.lid)]
          /\ todo' = [todo EXCEPT ![r] = @ \ {x}]
    /\ UNCHANGED <<home, buf, counts, wire, due, i, mode, pc, iter>>

(* Zoltan_Invert_Lists, a collective call: Zoltan tells a rank about every *)
(* export to it.                                                           *)
InvertLists ==
    /\ \A r \in Rank : pc[r] = "drop" /\ todo[r] = {}
    /\ counts' = [r \in Rank |-> [d \in Rank |-> Len(buf[r][d])]]
    /\ pc' = [r \in Rank |-> "post"]
    /\ UNCHANGED <<els, home, todo, buf, wire, due, i, mode, iter>>

(* Mutants: a packed element is taken out at once; it is not marked.       *)
PackedOut(q, l) == SwapOut(q, l)
PackedKept(q, l) == q

Packed(q, l) == [q EXCEPT ![l] = Marked]

(* pack_particles copies the element at the local id, whatever its gid is. *)
Pack(r) ==
    /\ pc[r] = "pack"
    /\ \E x \in todo[r] :
          /\ buf' = [buf EXCEPT ![r][home[x.gid]] = Append(@, els[r][x.lid])]
          /\ els' = [els EXCEPT ![r] = Packed(@, x.lid)]
          /\ todo' = [todo EXCEPT ![r] = @ \ {x}]
    /\ UNCHANGED <<home, counts, wire, due, i, mode, pc, iter>>

PackedAll(r) ==
    /\ pc[r] = "pack"
    /\ todo[r] = {}
    /\ pc' = [pc EXCEPT ![r] = "post"]
    /\ UNCHANGED <<els, home, todo, buf, counts, wire, due, i, mode, iter>>

-----------------------------------------------------------------------------
(***************************************************************************)
(* Sending and receiving.                                                  *)
(***************************************************************************)
Messages(r) == {[from |-> r, to |-> d, data |-> buf[r][d]] :
                   d \in {e \in Rank : buf[r][e] # <<>>}}

(* Mutant: a count of 0 announces a message too.                           *)
SendersAny(r) == {s \in Rank : counts[s][r] >= 0}

Senders(r) == {s \in Rank : counts[s][r] > 0}

(* A migrating rank first needs the counts of all ranks.                   *)
Post(r) ==
    /\ pc[r] = "post"
    /\ \A s \in Rank : pc[s] # "extract"
    /\ wire' = wire \cup Messages(r)
    /\ buf' = [buf EXCEPT ![r] = NoBuffer]
    /\ due' = [due EXCEPT ![r] = Cardinality(Senders(r))]
    /\ pc' = [pc EXCEPT ![r] = "receive"]
    /\ UNCHANGED <<els, home, todo, counts, i, mode, iter>>

Receive(r, m) ==
    /\ pc[r] = "receive"
    /\ due[r] > 0
    /\ m.to = r
    /\ els' = [els EXCEPT ![r] = @ \o m.data]
    /\ wire' = wire \ {m}
    /\ due' = [due EXCEPT ![r] = @ - 1]
    /\ UNCHANGED <<home, todo, buf, counts, i, mode, pc, iter>>

(* Mutant: post_migrate_particles is not registered.                       *)
AfterReceiving(m) == "ready"

WhenReceived(m) == IF m = "balance" THEN "compact" ELSE "ready"

ReceivedAll(r) ==
    /\ pc[r] = "receive"
    /\ due[r] = 0
    /\ i' = [i EXCEPT ![r] = 1]
    /\ pc' = [pc EXCEPT ![r] = WhenReceived(mode[r])]
    /\ UNCHANGED <<els, home, todo, buf, counts, wire, due, mode, iter>>

(* One turn of the loop of post_migrate_particles.                         *)
Compact(r) ==
    /\ pc[r] = "compact"
    /\ i[r] <= Len(els[r])
    /\ LET out == els[r][i[r]] = Marked
       IN /\ els' = [els EXCEPT ![r] = IF out THEN SwapOut(@, i[r]) ELSE @]
          /\ i' = [i EXCEPT ![r] = NextIndex(@, out)]
    /\ UNCHANGED <<home, todo, buf, counts, wire, due, mode, pc, iter>>

Compacted(r) ==
    /\ pc[r] = "compact"
    /\ i[r] > Len(els[r])
    /\ pc' = [pc EXCEPT ![r] = "ready"]
    /\ UNCHANGED <<els, home, todo, buf, counts, wire, due, i, mode, iter>>

Finished ==
    /\ \A r \in Rank : pc[r] = "ready" /\ iter[r] = MaxIter
    /\ UNCHANGED vars

-----------------------------------------------------------------------------
RankStep(r) ==
    \/ ComputeOneStep(r)
    \/ Extract(r) \/ Announce(r) \/ Listed(r) \/ Collect(r) \/ Drop(r)
    \/ Pack(r) \/ PackedAll(r)
    \/ Post(r) \/ (\E m \in wire : Receive(r, m)) \/ ReceivedAll(r)
    \/ Compact(r) \/ Compacted(r)

Collective == DecideMigration \/ DecideBalancing \/ InvertLists

Next == (\E r \in Rank : RankStep(r)) \/ Collective \/ Finished

Spec == Init /\ [][Next]_vars

(* Each rank is a running process, and all call the same collective.       *)
FairSpec ==
    /\ Spec
    /\ \A r \in Rank : WF_vars(RankStep(r))
    /\ WF_vars(Collective)

-----------------------------------------------------------------------------
(***************************************************************************)
(* Properties.                                                             *)
(***************************************************************************)

(* What a rank's vector still stands for: a marked element is a hole, and  *)
(* one that is to be dropped has been copied already.                      *)
Standing(r) ==
    IF pc[r] = "drop" THEN DOMAIN els[r] \ {x.lid : x \in todo[r]}
    ELSE DOMAIN els[r]

Holds(r) == {els[r][k] : k \in Standing(r)} \ {Marked}

At(p, q, ks, where) == {<<where, k>> : k \in {l \in ks : q[l] = p}}

(* All the indices at which a particle is.                                 *)
Places(p) ==
    LET vectors == UNION {At(p, els[r], Standing(r), <<"vector", r>>) :
                             r \in Rank}
        buffers == UNION {UNION {At(p, buf[r][d], DOMAIN buf[r][d],
                                    <<"buffer", r, d>>) : d \in Rank} :
                             r \in Rank}
        messages == UNION {At(p, m.data, DOMAIN m.data, <<"message", m>>) :
                              m \in wire}
    IN vectors \cup buffers \cup messages

(* Swapping, marking, packing and appending neither lose nor double an     *)
(* element: a particle is once in one vector, one buffer or one message.   *)
OncePerParticle == \A p \in Particle : Cardinality(Places(p)) = 1

(* While a rank packs, or drops, the local ids that Zoltan was given, or   *)
(* that were noted, still are the indices of the elements they were for.   *)
LocalIdsValid ==
    \A r \in Rank : \A x \in todo[r] :
        x.lid \in DOMAIN els[r] /\ els[r][x.lid] = x.gid

(* Out of a collective that looks at every element, and before it computes *)
(* again, a rank's vector has exactly the elements of its region and no    *)
(* marked one is left, whatever zoltan_migrate_particles left behind in an *)
(* earlier iteration.                                                      *)
OnlyItsOwn ==
    (\A r \in Rank : pc[r] = "ready" /\ mode[r] # "cells") =>
        \A r \in Rank : ToSet(els[r]) = {p \in Particle : home[p] = r}

(* The loops over a vector that shrinks under them, and the waits for what *)
(* was announced, end: a rank that has computed gets to compute again.     *)
EveryCallReturns == \A r \in Rank : pc[r] = "moved" ~> pc[r] = "ready"

(***************************************************************************)
(* Element by element the vectors do what Redistribution promises.  A rank *)
(* enters when its loop is over; a load balancing happens when Zoltan cuts *)
(* anew, and the vectors have to have caught up at its end.                *)
(***************************************************************************)
Balancing(r) == mode[r] = "balance" /\ pc[r] \notin {"ready", "moved"}

Given(r) == {p \in Particle : \E d \in Rank : Contains(buf[r][d], p)}

ownBar == [r \in Rank |->
              IF Balancing(r) THEN {p \in Particle : home[p] = r}
              ELSE Holds(r) \cup (IF pc[r] = "extract" THEN Given(r) ELSE {})]

transitBar ==
    {p \in Particle : \/ \E r \in Rank : /\ pc[r] \in {"drop", "post"}
                                         /\ ~Balancing(r) /\ p \in Given(r)
                      \/ \E m \in wire : ~Balancing(m.to) /\ Contains(m.data, p)}

stageBar == [r \in Rank |->
                IF Balancing(r) \/ pc[r] = "ready" THEN "ready"
                ELSE IF pc[r] \in {"moved", "extract"} THEN "moved"
                ELSE "inside"]

(* Only zoltan_migrate_particles may miss elements that left.              *)
missedBar == [r \in Rank |->
                 IF mode[r] = "cells" /\ stageBar[r] # "moved"
                 THEN {p \in Holds(r) : home[p] # r} ELSE {}]

R == INSTANCE Redistribution
        WITH own <- ownBar, transit <- transitBar, missed <- missedBar,
             stage <- stageBar, moves <- iter, MaxMoves <- MaxIter

ImplementsRedistribution == R!Spec
=============================================================================
