-------------------------- MODULE ExchangeInvariant --------------------------
(***************************************************************************)
(* The inductive invariant behind RoundIsolation of Exchange.  It says     *)
(* what the code keeps implicit: how far each rank is in the exchange it   *)
(* is in, which exchange each count under way belongs to, and that the     *)
(* number of messages a rank waits for is the number of ranks that owe it  *)
(* one.  ExchangeProofs.tla proves that it is inductive.                   *)
(***************************************************************************)
EXTENDS Exchange

InExchange(r) == pc[r] \in {"send", "recv", "isend", "drain"}

(* The rank has sorted its elements and not yet posted them.               *)
Sorted(r) == pc[r] \in {"send", "recv", "isend"}

(* The count of the rank's current exchange has been sent to d, or has     *)
(* been received from s.  Both hold between two exchanges.                 *)
Told(s, d) == pc[s] = "send" => d < peer[s]
Heard(d, s) == /\ pc[d] # "send"
               /\ pc[d] = "recv" => s < peer[d]

(* Exchanges for which s has told d, and for which d has heard from s.     *)
ToldN(s, d) == IF Told(s, d) THEN round[s] ELSE round[s] - 1
HeardN(d, s) == IF Heard(d, s) THEN round[d] ELSE round[d] - 1

(* Messages of MPI do not overtake each other, so the counts under way     *)
(* from s to d are those of the exchanges d has not heard of yet.          *)
Channels ==
    \A s, d \in Rank : HeardN(d, s) + Len(counts[s][d]) = ToldN(s, d)

(* s owes d the elements of exchange k: sorted, or in a message.           *)
InBuffer(s, d, k) == round[s] = k /\ out[s][d] # {}
InMessage(s, d, k) == \E m \in wire : m.src = s /\ m.dst = d /\ m.rnd = k
Owes(s, d, k) == InBuffer(s, d, k) \/ InMessage(s, d, k)

(* A positive count announces elements that are owed; a zero, none.        *)
Announced ==
    \A s, d \in Rank : s # d =>
        \A j \in 1..Len(counts[s][d]) :
            counts[s][d][j] > 0 <=> Owes(s, d, HeardN(d, s) + j)

(* recv_count is the number of ranks that have announced elements for this *)
(* exchange and still owe them.                                            *)
Debtors(d) ==
    {s \in Rank : s # d /\ Heard(d, s) /\ Owes(s, d, round[d])}
Expecting == \A d \in Rank : expected[d] = Cardinality(Debtors(d))

(* Sorted elements are for another rank, which has not left the exchange.  *)
OutInTime ==
    \A s, d \in Rank : out[s][d] # {} =>
        /\ s # d
        /\ Sorted(s)
        /\ round[d] <= round[s]
        /\ round[d] = round[s] => InExchange(d)

(* What a rank sorts comes from its finite vector.                         *)
OutFinite == \A s, d \in Rank : IsFiniteSet(out[s][d])

(* A message was posted by a rank that has nothing left to post for that   *)
(* exchange, and it is the only one from that rank to its receiver.        *)
WireInTime ==
    /\ \A m \in wire :
          /\ m.src # m.dst
          /\ m.rnd <= round[m.src]
          /\ m.rnd = round[m.src] => ~Sorted(m.src)
    /\ \A m, n \in wire : m.src = n.src /\ m.dst = n.dst => m = n

(* Which exchange a rank is in follows from its iteration: one ghost       *)
(* exchange before the loop and one per iteration, and one migration per   *)
(* iteration without load balancing.                                       *)
Migrations(n) == Cardinality((1..n) \ lbAt)

GhostsDone(r) == mode[r] = "ghost" /\ pc[r] # "enter"
BeforeMigrate(r) == mode[r] = "migrate" /\ pc[r] = "enter"

Schedule ==
    \A r \in Rank :
        /\ GhostsDone(r) => round[r] = Migrations(iter[r]) + iter[r] + 1
        /\ BeforeMigrate(r) => round[r] + 1 = Migrations(iter[r]) + iter[r]
        /\ ~GhostsDone(r) /\ ~BeforeMigrate(r)
              => round[r] = Migrations(iter[r]) + iter[r]
        /\ pc[r] \in {"compute", "done"} => mode[r] = "ghost"
        /\ pc[r] = "lb" => mode[r] = "migrate" /\ iter[r] \in lbAt
        /\ mode[r] = "migrate" => iter[r] > 0
        /\ mode[r] = "migrate" /\ pc[r] # "lb" => iter[r] \notin lbAt

IInv ==
    /\ TypeOK
    /\ OutFinite
    /\ Channels
    /\ Announced
    /\ Expecting
    /\ OutInTime
    /\ WireInTime
    /\ RoundIsolation
    /\ Schedule

-----------------------------------------------------------------------------
(***************************************************************************)
(* Where the particles and their copies are, which the bookkeeping above   *)
(* makes inductive.  ExchangeProofs.tla proves that it is.                 *)
(***************************************************************************)

(* Conservation without counting: a particle is in one vector, or in one   *)
(* buffer of a migration, or in one of its messages.                       *)
Once ==
    \A p \in Particle :
        /\ \/ \E r \in Rank : p \in els[r]
           \/ \E s, d \in Rank : p \in Buffered(s, d)
           \/ \E m \in wire : p \in Flying(m)
        /\ \A r, s \in Rank : p \in els[r] /\ p \in els[s] => r = s
        /\ \A s, d, t, e \in Rank :
              p \in Buffered(s, d) /\ p \in Buffered(t, e) => s = t /\ d = e
        /\ \A m, n \in wire : p \in Flying(m) /\ p \in Flying(n) => m = n
        /\ \A r, s, d \in Rank : p \in els[r] => p \notin Buffered(s, d)
        /\ \A m \in wire : p \in Flying(m) =>
              \A r, s \in Rank : p \notin els[r] /\ p \notin Buffered(r, s)

(* What migrates is for the rank of its region, which is in the iteration  *)
(* the particle was last integrated in.                                    *)
Addressed ==
    /\ \A s, d \in Rank : \A p \in Buffered(s, d) :
          HomeOf(p) = d /\ step[p] = iter[s]
    /\ \A m \in wire : \A p \in Flying(m) :
          HomeOf(p) = m.dst /\ step[p] = iter[m.dst]

(* A vector holds particles of the rank's iteration, and of other regions  *)
(* only between a step and the exchange or load balancing after it.        *)
Residents ==
    \A r \in Rank : \A p \in els[r] :
        /\ step[p] = iter[r]
        /\ pc[r] = "lb" \/ BeforeMigrate(r) \/ HomeOf(p) = r

(* Nobody is behind a rank that has left the migration of its iteration.   *)
Behind ==
    \A r \in Rank :
        /\ mode[r] = "ghost" => \A s \in Rank : iter[r] <= iter[s]
        /\ iter[r] <= MaxIter
        /\ pc[r] = "compute" => iter[r] < MaxIter

(* A copy on its way is of another rank's particle, in the iteration of    *)
(* the rank it is for; so are the ghosts a rank has gathered.              *)
CopiesInTime ==
    /\ \A s, d \in Rank : mode[s] = "ghost" =>
          \A c \in out[s][d] : c.step = iter[s] /\ c.gid \in els[s]
    /\ \A m \in wire : m.tag = 400 =>
          \A c \in m.body : c.step = iter[m.dst] /\ c.gid \notin els[m.dst]
    /\ \A r \in Rank : GhostsDone(r) =>
          \A c \in remote[r] : c.step = iter[r] /\ c.gid \notin els[r]

(* A copy s has made for r in this iteration: not posted, not received, or *)
(* gathered by r.                                                          *)
Given(s, r, c) ==
    \/ c \in out[s][r]
    \/ \E m \in wire : m.tag = 400 /\ m.src = s /\ m.dst = r /\ c \in m.body
    \/ GhostsDone(r) /\ c \in remote[r]

(* A rank that has sorted its ghosts has made a copy of every particle for *)
(* every rank near it that is in the same iteration.                       *)
Copied ==
    \A s, r \in Rank :
        s # r /\ GhostsDone(s) /\ iter[s] = iter[r] =>
            \A p \in els[s] :
                r \in Near[cut][pos[p]] => Given(s, r, CopyOf(p))

(* The particles are where they belong, and so are their copies.           *)
Delivered == Once /\ Addressed /\ Residents /\ Behind
Gathered == CopiesInTime /\ Copied

DInv == IInv /\ Delivered /\ Gathered
=============================================================================
