------------------------------ MODULE Exchange ------------------------------
(***************************************************************************)
(* The point-to-point exchanges of src/includes/parallel_utils.hpp, called *)
(* in the order of src/includes/runners/simulator.hpp:                     *)
(*                                                                         *)
(*   ghost exchange                           (get_ghost_data)             *)
(*   repeat MaxIter times                                                  *)
(*      compute one step                      (lj::compute_one_step)       *)
(*      load balance or migrate               (Zoltan_Do_LB, migrate_data) *)
(*      ghost exchange                        (get_ghost_data)             *)
(*                                                                         *)
(* Both exchanges have one shape.  A rank sorts what it has to send by     *)
(* destination, tells every rank how many elements to expect with a        *)
(* blocking send (get_invert_list), posts the nonempty buffers with        *)
(* nonblocking sends, then probes MPI_ANY_SOURCE as many times as there    *)
(* are senders.  No message names the round it belongs to.                 *)
(*                                                                         *)
(* A particle is its identity; pos and step are its position and the       *)
(* number of times it was integrated.  The reductions between two steps    *)
(* are left out: the ranks here are less synchronised than in the program. *)
(***************************************************************************)
EXTENDS Naturals, FiniteSets, Sequences

CONSTANTS NProc,      \* size of the communicator
          Particle,   \* gids of the particles
          Pos,        \* positions the properties tell apart
          Cuts,       \* partitions the load balancer may produce
          Owner,      \* cut -> position -> rank        (Zoltan_LB_Point_Assign)
          Near,       \* cut -> position -> ranks       (Zoltan_LB_Box_Assign)
          MaxIter,    \* nframes * npframe
          SendBuffer  \* sends with tag 2 that MPI buffers on one channel

Rank == 0..(NProc - 1)

ASSUME NProcAssumption == NProc \in Nat \ {0}
ASSUME BoundsAssumption == MaxIter \in Nat /\ SendBuffer \in Nat
ASSUME ParticleAssumption == IsFiniteSet(Particle)
ASSUME PartitionAssumption == /\ Owner \in [Cuts -> [Pos -> Rank]]
                              /\ Near \in [Cuts -> [Pos -> SUBSET Rank]]

VARIABLES
    cut,      \* the partition every rank's Zoltan_Struct holds
    lbAt,     \* iterations at which the policy decides to load balance
    pos,      \* particle -> its position
    step,     \* particle -> how often it was integrated
    els,      \* rank -> its particles (mesh_data->els)
    remote,   \* rank -> its ghosts (remote_el)
    iter,     \* rank -> iterations computed
    mode,     \* rank -> which exchange it is in or comes to next
    pc,       \* rank -> where it is
    peer,     \* rank -> loop variable PE of get_invert_list
    expected, \* rank -> recv_count
    out,      \* rank -> destination -> data_to_migrate
    counts,   \* source -> destination -> tag 2 messages under way, in order
    wire,     \* tag 300 and tag 400 messages under way
    round     \* rank -> exchanges entered (not in the code: history)

vars == <<cut, lbAt, pos, step, els, remote, iter, mode, pc, peer, expected,
          out, counts, wire, round>>

(* What a message carries of a particle: all its fields, at the time it is *)
(* sent.  The step is the only one that a property looks at.               *)
Copy == [gid : Particle, step : Nat]
CopyOf(p) == [gid |-> p, step |-> step[p]]
Gids(body) == {c.gid : c \in body}

Tag(m) == IF m = "migrate" THEN 300 ELSE 400
Message == [tag : {300, 400}, src : Rank, dst : Rank, rnd : Nat,
            body : SUBSET Copy]

HomeOf(p) == Owner[cut][pos[p]]
Empty == [d \in Rank |-> {}]

(***************************************************************************)
(* Initial states: nbmpi.cpp has just run Zoltan_Do_LB, so every particle  *)
(* is with the rank of its region.                                         *)
(***************************************************************************)
Init ==
    /\ cut \in Cuts
    /\ lbAt \in SUBSET (1..MaxIter)
    /\ pos \in [Particle -> Pos]
    /\ step = [p \in Particle |-> 0]
    /\ els = [r \in Rank |-> {p \in Particle : HomeOf(p) = r}]
    /\ remote = [r \in Rank |-> {}]
    /\ iter = [r \in Rank |-> 0]
    /\ mode = [r \in Rank |-> "ghost"]
    /\ pc = [r \in Rank |-> "enter"]
    /\ peer = [r \in Rank |-> 0]
    /\ expected = [r \in Rank |-> 0]
    /\ out = [r \in Rank |-> Empty]
    /\ counts = [s \in Rank |-> [d \in Rank |-> <<>>]]
    /\ wire = {}
    /\ round = [r \in Rank |-> 0]

-----------------------------------------------------------------------------
(***************************************************************************)
(* Entering an exchange: sorting the elements by destination.              *)
(***************************************************************************)

(* With a single rank both functions return before any communication.      *)
AfterSort == IF NProc = 1 THEN "drain" ELSE "send"

EnterCommon(r) ==
    /\ round' = [round EXCEPT ![r] = @ + 1]
    /\ peer' = [peer EXCEPT ![r] = 0]
    /\ expected' = [expected EXCEPT ![r] = 0]
    /\ pc' = [pc EXCEPT ![r] = AfterSort]
    /\ UNCHANGED <<cut, lbAt, pos, step, iter, mode, counts, wire>>

(* migrate_data: the elements of another region leave the vector.          *)
MigrateTo(r, d) == {p \in els[r] : HomeOf(p) = d /\ d # r}

(* Mutant: the element is copied to the buffer and not popped.             *)
KeptAll(r) == els[r]

Kept(r) == {p \in els[r] : HomeOf(p) = r}

EnterMigrate(r) ==
    /\ pc[r] = "enter"
    /\ mode[r] = "migrate"
    /\ out' = [out EXCEPT ![r] =
                 [d \in Rank |-> {CopyOf(p) : p \in MigrateTo(r, d)}]]
    /\ els' = [els EXCEPT ![r] = Kept(r)]
    /\ UNCHANGED remote
    /\ EnterCommon(r)

(* exchange_data: copies of the elements near another region.              *)
GhostTo(r, d) == {p \in els[r] : d \in Near[cut][pos[p]] /\ d # r}

(* Mutant: the new ghosts are appended to those of the last iteration.     *)
OldGhosts(r) == remote[r]

(* remote_data_gathered starts empty.                                      *)
NoGhosts(r) == {}

EnterGhost(r) ==
    /\ pc[r] = "enter"
    /\ mode[r] = "ghost"
    /\ out' = [out EXCEPT ![r] =
                 [d \in Rank |-> {CopyOf(p) : p \in GhostTo(r, d)}]]
    /\ remote' = [remote EXCEPT ![r] = NoGhosts(r)]
    /\ UNCHANGED els
    /\ EnterCommon(r)

-----------------------------------------------------------------------------
(***************************************************************************)
(* get_invert_list: one MPI_Send to every rank, then one MPI_Recv from     *)
(* every rank, both in rank order and both including the caller.           *)
(***************************************************************************)
LoopTo(r, last, next) ==
    IF peer[r] = last
    THEN /\ peer' = [peer EXCEPT ![r] = 0]
         /\ pc' = [pc EXCEPT ![r] = next]
    ELSE /\ peer' = [peer EXCEPT ![r] = @ + 1]
         /\ UNCHANGED pc

(* Mutants: the loops over PE go one too far, or stop one short.           *)
StepTooFar(r, next) == LoopTo(r, NProc, next)
StepTooShort(r, next) == LoopTo(r, NProc - 2, next)

Step(r, next) == LoopTo(r, NProc - 1, next)

(* MPI_Send returns when MPI can buffer the count.                         *)
SendCount(r) ==
    LET d == peer[r] IN
    /\ pc[r] = "send"
    /\ Len(counts[r][d]) < SendBuffer
    /\ counts' = [counts EXCEPT ![r][d] = Append(@, Cardinality(out[r][d]))]
    /\ Step(r, "recv")
    /\ UNCHANGED <<cut, lbAt, pos, step, els, remote, iter, mode, expected,
                   out, wire, round>>

(* Mutants: a sender of one element is overlooked; a sender of none counts.*)
IsImportOverOne(r, s, n) == s # r /\ n > 1
IsImportAny(r, s, n) == s # r /\ n >= 0

(* A rank is added to the import list if it is another and has something.  *)
IsImport(r, s, n) == s # r /\ n > 0

RecvCount(r) ==
    LET s == peer[r] IN
    /\ pc[r] = "recv"
    /\ counts[s][r] # <<>>
    /\ expected' = [expected EXCEPT ![r] =
                      IF IsImport(r, s, Head(counts[s][r])) THEN @ + 1 ELSE @]
    /\ counts' = [counts EXCEPT ![s][r] = Tail(@)]
    /\ Step(r, "isend")
    /\ UNCHANGED <<cut, lbAt, pos, step, els, remote, iter, mode, out, wire,
                   round>>

-----------------------------------------------------------------------------
(***************************************************************************)
(* The data.  MPI_Isend never waits, so the loop over the destinations is  *)
(* one step.                                                               *)
(***************************************************************************)
Posted(r) ==
    {[tag |-> Tag(mode[r]), src |-> r, dst |-> d, rnd |-> round[r],
      body |-> out[r][d]] : d \in {e \in Rank : out[r][e] # {}}}

Isend(r) ==
    /\ pc[r] = "isend"
    /\ wire' = wire \cup Posted(r)
    /\ out' = [out EXCEPT ![r] = Empty]
    /\ pc' = [pc EXCEPT ![r] = "drain"]
    /\ UNCHANGED <<cut, lbAt, pos, step, els, remote, iter, mode, peer,
                   expected, counts, round>>

(* MPI_Probe(MPI_ANY_SOURCE, tag) matches any message with the tag that no *)
(* earlier message of the same sender and tag precedes.                    *)
Matches(r) ==
    {m \in wire :
        /\ m.dst = r
        /\ m.tag = Tag(mode[r])
        /\ \A o \in wire : o.dst = r /\ o.src = m.src /\ o.tag = m.tag
                              => m.rnd <= o.rnd}

Recv(r) ==
    /\ pc[r] = "drain"
    /\ expected[r] > 0
    /\ \E m \in Matches(r) :
          /\ wire' = wire \ {m}
          /\ els' = IF mode[r] = "migrate"
                    THEN [els EXCEPT ![r] = @ \cup Gids(m.body)] ELSE els
          /\ remote' = IF mode[r] = "ghost"
                       THEN [remote EXCEPT ![r] = @ \cup m.body] ELSE remote
    /\ expected' = [expected EXCEPT ![r] = @ - 1]
    /\ UNCHANGED <<cut, lbAt, pos, step, iter, mode, pc, peer, out, counts,
                   round>>

(* Mutant: the receive loop ends one message early.                        *)
DrainedButOne(r) == expected[r] <= 1

(* while(recv_count).                                                      *)
Drained(r) == expected[r] = 0

(* MPI_Waitall may return as soon as MPI has copied the buffers, and must  *)
(* return once they are received.                                          *)
Waitall(r) ==
    /\ pc[r] = "drain"
    /\ Drained(r)
    /\ IF mode[r] = "migrate"
       THEN /\ mode' = [mode EXCEPT ![r] = "ghost"]
            /\ pc' = [pc EXCEPT ![r] = "enter"]
       ELSE /\ UNCHANGED mode
            /\ pc' = [pc EXCEPT ![r] = IF iter[r] = MaxIter THEN "done"
                                                            ELSE "compute"]
    /\ UNCHANGED <<cut, lbAt, pos, step, els, remote, iter, peer, expected,
                   out, counts, wire, round>>

Received(r) == \A m \in wire : m.src # r

-----------------------------------------------------------------------------
(***************************************************************************)
(* The caller's loop.                                                      *)
(***************************************************************************)

(* compute_one_step moves the rank's own elements; the policy then decides *)
(* alike on every rank.                                                    *)
Compute(r) ==
    /\ pc[r] = "compute"
    /\ \E f \in [els[r] -> Pos] :
          pos' = [p \in Particle |-> IF p \in els[r] THEN f[p] ELSE pos[p]]
    /\ step' = [p \in Particle |-> IF p \in els[r] THEN step[p] + 1
                                                   ELSE step[p]]
    /\ iter' = [iter EXCEPT ![r] = @ + 1]
    /\ mode' = [mode EXCEPT ![r] = "migrate"]
    /\ pc' = [pc EXCEPT ![r] = IF iter[r] + 1 \in lbAt THEN "lb" ELSE "enter"]
    /\ UNCHANGED <<cut, lbAt, els, remote, peer, expected, out, counts, wire,
                   round>>

(* Zoltan_Do_LB between two barriers: new cuts, and automatic migration    *)
(* puts every particle with the rank of its new region.                    *)
LoadBalance ==
    /\ \A r \in Rank : pc[r] = "lb"
    /\ cut' \in Cuts
    /\ els' = [r \in Rank |-> {p \in Particle : Owner[cut'][pos[p]] = r}]
    /\ mode' = [r \in Rank |-> "ghost"]
    /\ pc' = [r \in Rank |-> "enter"]
    /\ UNCHANGED <<lbAt, pos, step, remote, iter, peer, expected, out, counts,
                   wire, round>>

Finished == /\ \A r \in Rank : pc[r] = "done"
            /\ UNCHANGED vars

RankStep(r) ==
    \/ EnterMigrate(r) \/ EnterGhost(r)
    \/ SendCount(r) \/ RecvCount(r)
    \/ Isend(r) \/ Recv(r) \/ Waitall(r)
    \/ Compute(r)

Next == (\E r \in Rank : RankStep(r)) \/ LoadBalance \/ Finished

Spec == Init /\ [][Next]_vars

(* Every rank is a running process.  Only MPI_Waitall may be slow: it is   *)
(* sure to return when the rank's messages have been received.             *)
Prompt(r) ==
    \/ EnterMigrate(r) \/ EnterGhost(r)
    \/ SendCount(r) \/ RecvCount(r)
    \/ Isend(r) \/ Recv(r) \/ Compute(r)

Fairness == /\ \A r \in Rank : WF_vars(Prompt(r))
            /\ \A r \in Rank : WF_vars(Waitall(r) /\ Received(r))
            /\ WF_vars(LoadBalance)

FairSpec == Spec /\ Fairness

-----------------------------------------------------------------------------
(***************************************************************************)
(* Properties.                                                             *)
(***************************************************************************)
Tags == {"ghost", "migrate"}
Places == {"enter", "send", "recv", "isend", "drain", "compute", "lb", "done"}

TypeOK ==
    /\ cut \in Cuts
    /\ lbAt \in SUBSET (1..MaxIter)
    /\ pos \in [Particle -> Pos]
    /\ step \in [Particle -> Nat]
    /\ els \in [Rank -> SUBSET Particle]
    /\ remote \in [Rank -> SUBSET Copy]
    /\ iter \in [Rank -> Nat]
    /\ mode \in [Rank -> Tags]
    /\ pc \in [Rank -> Places]
    /\ peer \in [Rank -> Rank]
    /\ expected \in [Rank -> Nat]
    /\ out \in [Rank -> [Rank -> SUBSET Copy]]
    /\ counts \in [Rank -> [Rank -> Seq(Nat)]]
    /\ wire \in SUBSET Message
    /\ round \in [Rank -> Nat]

(* Where a migrating particle can be besides a rank's vector: in the       *)
(* buffer of a rank that has not posted it yet, or in a message.           *)
Buffered(s, d) == IF mode[s] = "migrate" THEN Gids(out[s][d]) ELSE {}
Flying(m) == IF m.tag = 300 THEN Gids(m.body) ELSE {}

(* migrate_data loses no particle and doubles none: each is in exactly one *)
(* rank's vector, or in exactly one buffer or message of a migration.      *)
Conservation ==
    \A p \in Particle :
        LET atRank == {r \in Rank : p \in els[r]}
            inBuf  == {sd \in Rank \X Rank : p \in Buffered(sd[1], sd[2])}
            inWire == {m \in wire : p \in Flying(m)}
        IN Cardinality(atRank) + Cardinality(inBuf) + Cardinality(inWire) = 1

(* A message that a probe for MPI_ANY_SOURCE can match was sent in the     *)
(* exchange its receiver is in, though no message says which one that is:  *)
(* two consecutive exchanges with one tag never mix.                       *)
RoundIsolation ==
    \A m \in wire : /\ m.rnd = round[m.dst]
                    /\ m.tag = Tag(mode[m.dst])
                    /\ pc[m.dst] \in {"send", "recv", "isend", "drain"}

(* Every particle is integrated exactly once per iteration: a rank about   *)
(* to compute holds only particles that had iter[r] steps, and no particle *)
(* of its region with that many steps is anywhere else.                    *)
IntegratedOnce ==
    \A r \in Rank : pc[r] = "compute" =>
        /\ \A p \in els[r] : step[p] = iter[r] /\ HomeOf(p) = r
        /\ \A p \in Particle : HomeOf(p) = r /\ step[p] = iter[r]
                                  => p \in els[r]

(* The ghosts a step is computed with are the particles of the other ranks *)
(* that are near this rank's region, all of them and only as they were     *)
(* after the last step, never older or newer.                              *)
GhostsCurrent ==
    \A r \in Rank : pc[r] = "compute" =>
        /\ \A c \in remote[r] : c.step = iter[r] /\ c.gid \notin els[r]
        /\ \A p \in Particle \ els[r] :
              step[p] = iter[r] /\ r \in Near[cut][pos[p]]
                 => CopyOf(p) \in remote[r]

(* No rank runs ahead by more than one exchange, so MPI never has to hold  *)
(* more than two counts from one rank to another, or one to itself.        *)
BoundedSkew ==
    \A r, s \in Rank : /\ round[r] <= round[s] + 1
                       /\ Len(counts[r][s]) <= (IF r = s THEN 1 ELSE 2)

(* When every rank is done MPI holds nothing any more: what was announced  *)
(* was sent and what was sent was received.                                *)
NothingLeftOver ==
    (\A r \in Rank : pc[r] = "done") =>
        /\ wire = {}
        /\ \A r, s \in Rank : counts[r][s] = <<>> /\ out[r][s] = {}

(* The program ends on every rank, even if MPI buffers one count only and  *)
(* MPI_Waitall waits for the receivers.                                    *)
Termination == <>(\A r \in Rank : pc[r] = "done")

-----------------------------------------------------------------------------
(***************************************************************************)
(* The exchanges and the load balancing implement Redistribution: the      *)
(* collective the ranks enter and leave is the migration, or the wait for  *)
(* Zoltan, and what they exchange for the ghosts is invisible.             *)
(***************************************************************************)
Stage(r) ==
    IF pc[r] = "lb" \/ (pc[r] = "enter" /\ mode[r] = "migrate") THEN "moved"
    ELSE IF mode[r] = "migrate" THEN "inside"
    ELSE "ready"

Transit ==
    {p \in Particle : \/ \E s, d \in Rank : p \in Buffered(s, d)
                     \/ \E m \in wire : p \in Flying(m)}

Abstract == INSTANCE Redistribution WITH
    own <- els, transit <- Transit, missed <- [r \in Rank |-> {}],
    home <- [p \in Particle |-> HomeOf(p)],
    stage <- [r \in Rank |-> Stage(r)], moves <- iter, MaxMoves <- MaxIter

ImplementsRedistribution == Abstract!Spec
=============================================================================
