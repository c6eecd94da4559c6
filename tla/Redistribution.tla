--------------------------- MODULE Redistribution ---------------------------
(***************************************************************************)
(* What the ranks promise each other about the particles, without any MPI  *)
(* message: a rank integrates the particles it holds, gives up those that  *)
(* left its region, and is back out of the collective call only when it    *)
(* holds every particle of its region and nothing else.  A way of migrating*)
(* that does not look at all particles may miss some that left: the rank   *)
(* keeps them until it integrates them again.                              *)
(*                                                                         *)
(* Exchange.tla, the message-level model of src/includes/parallel_utils.hpp*)
(* and of the loop that calls it, is checked against this module, and so   *)
(* are UnloadingModel.tla and ParticleVectors.tla.                         *)
(***************************************************************************)
EXTENDS Naturals, FiniteSets

CONSTANTS Rank,      \* the MPI ranks of the communicator
          Particle,  \* the particles of the whole simulation
          MaxMoves   \* bound of the model: iterations a rank computes

VARIABLES own,     \* rank -> the particles in its vector
          transit, \* particles given up by a rank and not yet taken
          missed,  \* rank -> those that left and it did not give up
          home,    \* particle -> the rank whose region contains it
          stage,   \* rank -> "ready" to compute, "moved", or "inside" the call
          moves    \* rank -> iterations computed so far

vars == <<own, transit, missed, home, stage, moves>>

TypeOK ==
    /\ own \in [Rank -> SUBSET Particle]
    /\ transit \in SUBSET Particle
    /\ missed \in [Rank -> SUBSET Particle]
    /\ home \in [Particle -> Rank]
    /\ stage \in [Rank -> {"ready", "moved", "inside"}]
    /\ moves \in [Rank -> 0..MaxMoves]

Held(h, r) == {p \in Particle : h[p] = r}

Init ==
    /\ home \in [Particle -> Rank]
    /\ own = [r \in Rank |-> Held(home, r)]
    /\ transit = {}
    /\ missed = [r \in Rank |-> {}]
    /\ stage = [r \in Rank |-> "ready"]
    /\ moves = [r \in Rank |-> 0]

(* A rank integrates what it holds: its particles may end in any region.   *)
(* No rank computes while another is still inside the previous collective: *)
(* it could not have received the copies it computes with.                 *)
Move(r) ==
    /\ stage[r] = "ready"
    /\ moves[r] < MaxMoves
    /\ \A s \in Rank : stage[s] = "inside" => moves[s] > moves[r]
    /\ \E h \in [own[r] -> Rank] :
          home' = [p \in Particle |-> IF p \in own[r] THEN h[p] ELSE home[p]]
    /\ moves' = [moves EXCEPT ![r] = @ + 1]
    /\ stage' = [stage EXCEPT ![r] = "moved"]
    /\ missed' = [missed EXCEPT ![r] = {}]
    /\ UNCHANGED <<own, transit>>

Left(r) == {p \in own[r] : home[p] # r}

(* A rank enters the collective and gives up those particles that left it  *)
(* which it finds.                                                         *)
Enter(r, found) ==
    /\ stage[r] = "moved"
    /\ transit' = transit \cup found
    /\ own' = [own EXCEPT ![r] = @ \ found]
    /\ missed' = [missed EXCEPT ![r] = Left(r) \ found]
    /\ stage' = [stage EXCEPT ![r] = "inside"]
    /\ UNCHANGED <<home, moves>>

(* Some of the particles in transit reach the rank of their region.        *)
Take(r, arrived) ==
    /\ stage[r] = "inside"
    /\ arrived # {}
    /\ own' = [own EXCEPT ![r] = @ \cup arrived]
    /\ transit' = transit \ arrived
    /\ UNCHANGED <<missed, home, stage, moves>>

AllTaken(r) == \A p \in transit : home[p] # r

(* A rank leaves once every rank has entered and nothing is still due.     *)
Leave(r) ==
    /\ stage[r] = "inside"
    /\ \A s \in Rank : moves[s] >= moves[r] /\ stage[s] # "moved"
    /\ AllTaken(r)
    /\ stage' = [stage EXCEPT ![r] = "ready"]
    /\ UNCHANGED <<own, transit, missed, home, moves>>

(* All ranks agree on new regions: every particle goes to its new holder.  *)
Repartition ==
    /\ \A r \in Rank : stage[r] = "moved"
    /\ \A r, s \in Rank : moves[r] = moves[s]
    /\ home' \in [Particle -> Rank]
    /\ own' = [r \in Rank |-> Held(home', r)]
    /\ missed' = [r \in Rank |-> {}]
    /\ stage' = [r \in Rank |-> "ready"]
    /\ UNCHANGED <<transit, moves>>

Finished == /\ \A r \in Rank : stage[r] = "ready" /\ moves[r] = MaxMoves
            /\ UNCHANGED vars

Next ==
    \/ \E r \in Rank : Move(r) \/ Leave(r)
    \/ \E r \in Rank : \E found \in SUBSET Left(r) : Enter(r, found)
    \/ \E r \in Rank : \E a \in SUBSET {p \in transit : home[p] = r} : Take(r, a)
    \/ Repartition
    \/ Finished

Spec == Init /\ [][Next]_vars

-----------------------------------------------------------------------------
(***************************************************************************)
(* Properties of the abstract system.                                      *)
(***************************************************************************)

(* Every particle is in exactly one place: with one rank, or in transit.   *)
NothingLostOrDoubled ==
    \A p \in Particle :
        /\ p \in transit \/ \E r \in Rank : p \in own[r]
        /\ p \in transit => \A r \in Rank : p \notin own[r]
        /\ \A r, s \in Rank : p \in own[r] /\ p \in own[s] => r = s

(* A rank that is out of the collective and has not moved yet holds only   *)
(* particles of its region, but for those it missed; one of its region it  *)
(* does not hold was missed by the rank that has it, or brought there by a *)
(* rank that already computed the next iteration.                          *)
AtHome ==
    \A r \in Rank : stage[r] = "ready" =>
        /\ own[r] \ missed[r] \subseteq Held(home, r)
        /\ \A p \in Held(home, r) \ own[r] :
              \E s \in Rank : \/ p \in missed[s]
                             \/ /\ moves[s] > moves[r]
                                /\ p \in own[s] \cup transit
=============================================================================
