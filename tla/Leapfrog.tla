------------------------------ MODULE Leapfrog ------------------------------
(***************************************************************************)
(* How lj::compute_one_step moves the particles of a rank once the forces  *)
(* are summed up: the second half kick of the last step, the first half    *)
(* kick of this one with the speed clamped, the move, the reflection at    *)
(* the walls.                                                              *)
(*                                                                         *)
(* The coordinates do not influence each other: there is one.  Velocities  *)
(* are lengths per time step, accelerations what half a kick adds; both    *)
(* and the positions are integers.  numeric_limits::epsilon(), by which    *)
(* the upper wall is moved, vanishes in a float of the size of the box.    *)
(***************************************************************************)
EXTENDS Box

CONSTANTS Particle, \* the particles of the rank
          First,    \* the one at index 0
          Speeds,   \* velocities the generators give
          Acc       \* accelerations

ASSUME FirstAssumption == First \in Particle
ASSUME AccAssumption == Acc \subseteq Int /\ Speeds \subseteq Int

VARIABLES pos, vel

moving == <<pos, vel>>

Abs(x) == IF x < 0 THEN -x ELSE x

(* maxSpeedPercentage * cut_off / dt; the direction is not kept.           *)
MaxSpeed == (9 * RC) \div 10

(* Mutant: only the upper limit is looked at.                              *)
ClampedAbove(v) == IF v >= RC THEN MaxSpeed ELSE v

Clamped(v) == IF Abs(v) >= RC THEN MaxSpeed ELSE v

(* leapfrog2 kicks each particle with its own acceleration; the index that *)
(* leapfrog1 takes the acceleration at is never incremented.               *)
Kicked(v, own, first) == Clamped(v + own + first)

(* reflect, at the lower wall and then at the upper one.                   *)
ReflectLower(s) ==
    IF s.pos < 0 THEN [pos |-> -s.pos, vel |-> -s.vel] ELSE s

(* Mutant: the distance to the wall is taken twice, from the wrong side.   *)
ReflectUpperTwice(s) ==
    IF s.pos >= Size THEN [pos |-> 2 * (Size - s.pos), vel |-> -s.vel] ELSE s

ReflectUpper(s) ==
    IF s.pos >= Size THEN [pos |-> 2 * Size - s.pos, vel |-> -s.vel] ELSE s

(* The state of a particle after a step.                                   *)
After(p, acc) ==
    LET v == Kicked(vel[p], acc[p], acc[First])
    IN ReflectUpper(ReflectLower([pos |-> pos[p] + v, vel |-> v]))

(* The generators put the particles into the box, with any velocity.       *)
Start ==
    /\ pos \in [Particle -> 0..Size]
    /\ vel \in [Particle -> Speeds]

(* acc is what the forces, and what earlier steps left in the vector, make.*)
MoveAll ==
    \E acc \in [Particle -> Acc] :
        /\ pos' = [p \in Particle |-> After(p, acc).pos]
        /\ vel' = [p \in Particle |-> After(p, acc).vel]

Motion == Start /\ [][MoveAll]_moving

-----------------------------------------------------------------------------
(***************************************************************************)
(* Properties.                                                             *)
(***************************************************************************)

(* Kicks, clamping and one reflection per wall keep the particles in the   *)
(* box for ever, whatever the forces: nothing is reflected out of the      *)
(* opposite wall.                                                          *)
InBox ==
    /\ pos \in [Particle -> 0..Size]
    /\ vel \in [Particle -> Int]

(* "prevent them to cross the min radius" (physics.hpp:33): no step takes  *)
(* a particle as far as the cut-off, so past a whole cell.                 *)
ShortStep == \A p \in Particle : Abs(pos'[p] - pos[p]) < RC

ShortSteps == [][ShortStep]_moving
=============================================================================
