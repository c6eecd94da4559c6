--------------------------- MODULE ExchangeProofs ---------------------------
(***************************************************************************)
(* Proofs about Exchange, for any number of ranks, particles, positions,   *)
(* partitions and iterations and any amount of MPI buffering.              *)
(*                                                                         *)
(* First the types, and that it never matches a message in an exchange it  *)
(* was not sent in (Spec => []RoundIsolation): IInv of ExchangeInvariant   *)
(* is inductive, one lemma per action and one step per conjunct that the   *)
(* action can disturb.                                                     *)
(*                                                                         *)
(* Then what the exchanges are for: no particle is lost or doubled, each   *)
(* is integrated once per iteration by the rank of its region, with the    *)
(* ghosts of that iteration, and the whole protocol implements             *)
(* Redistribution.  DInv of ExchangeInvariant is inductive on top of IInv, *)
(* whose bookkeeping says which exchange each rank and each message is in. *)
(***************************************************************************)
EXTENDS ExchangeInvariant, FiniteSetTheorems, SequenceTheorems, TLAPS

-----------------------------------------------------------------------------
(***************************************************************************)
(* Facts about the constants and the helpers.                              *)
(***************************************************************************)

(* The ranks are finitely many naturals, and 0 is one of them.             *)
LEMMA RankFacts == /\ Rank \subseteq Nat
                   /\ 0 \in Rank
                   /\ IsFiniteSet(Rank)
                   /\ \A r \in Rank : r # NProc - 1 => r + 1 \in Rank
<1>1. NProc \in Nat /\ NProc > 0
  BY NProcAssumption
<1>2. IsFiniteSet(0..(NProc - 1))
  BY <1>1, FS_Interval
<1> QED
  BY <1>1, <1>2 DEF Rank

(* The copies of finitely many particles are finitely many.                *)
LEMMA CopiesFinite ==
  ASSUME NEW S \in SUBSET Particle
  PROVE  IsFiniteSet({CopyOf(p) : p \in S})
<1>1. IsFiniteSet(S)
  BY ParticleAssumption, FS_Subset
<1> DEFINE T == {CopyOf(p) : p \in S}
           f == [p \in S |-> CopyOf(p)]
<1>2. f \in Surjection(S, T)
  BY DEF Surjection
<1> QED
  BY <1>1, <1>2, FS_Surjection

(* A head and a tail of a sequence of counts.                              *)
LEMMA TailFacts ==
  ASSUME NEW q \in Seq(Nat), q # <<>>
  PROVE  /\ Head(q) \in Nat
         /\ Head(q) = q[1]
         /\ Tail(q) \in Seq(Nat)
         /\ Len(q) \in Nat \ {0}
         /\ Len(Tail(q)) = Len(q) - 1
         /\ \A j \in 1..Len(Tail(q)) : Tail(q)[j] = q[j + 1]
  OBVIOUS

LEMMA AppendFacts ==
  ASSUME NEW q \in Seq(Nat), NEW n \in Nat
  PROVE  /\ Append(q, n) \in Seq(Nat)
         /\ Len(q) \in Nat
         /\ Len(Append(q, n)) = Len(q) + 1
         /\ \A j \in 1..Len(q) : Append(q, n)[j] = q[j]
         /\ Append(q, n)[Len(q) + 1] = n
  OBVIOUS

-----------------------------------------------------------------------------
(***************************************************************************)
(* Types.                                                                  *)
(***************************************************************************)
Typed == TypeOK /\ OutFinite

(* A message goes from a rank to a rank.                                   *)
LEMMA WireRanks ==
  ASSUME TypeOK PROVE \A m \in wire : m.src \in Rank /\ m.dst \in Rank
<1>1. wire \in SUBSET Message
  BY DEF TypeOK
<1> QED
  BY <1>1 DEF Message

LEMMA CopyType ==
  ASSUME TypeOK, NEW S \in SUBSET Particle
  PROVE  {CopyOf(p) : p \in S} \in SUBSET Copy
  BY DEF TypeOK, CopyOf, Copy

LEMMA InitTyped == Init => Typed
<1> SUFFICES ASSUME Init PROVE Typed
  OBVIOUS
<1>1. TypeOK
  BY RankFacts, PartitionAssumption DEF Init, TypeOK, Empty, Tags, Places
<1>2. OutFinite
  BY FS_EmptySet DEF Init, OutFinite, Empty
<1> QED
  BY <1>1, <1>2 DEF Typed

LEMMA StepTyped ==
  ASSUME TypeOK, NEW r \in Rank, NEW next \in Places, Step(r, next)
  PROVE  peer' \in [Rank -> Rank] /\ pc' \in [Rank -> Places]
<1>1. CASE peer[r] = NProc - 1
  <2>1. /\ peer' = [peer EXCEPT ![r] = 0]
        /\ pc' = [pc EXCEPT ![r] = next]
    BY <1>1 DEF Step, LoopTo
  <2> QED
    BY <2>1, RankFacts DEF TypeOK
<1>2. CASE peer[r] # NProc - 1
  <2>1. /\ peer' = [peer EXCEPT ![r] = peer[r] + 1]
        /\ pc' = pc
    BY <1>2 DEF Step, LoopTo
  <2>2. peer[r] + 1 \in Rank
    BY <1>2, RankFacts DEF TypeOK
  <2> QED
    BY <2>1, <2>2 DEF TypeOK
<1> QED
  BY <1>1, <1>2

LEMMA EnterTyped ==
  ASSUME TypeOK, NEW r \in Rank, EnterCommon(r)
  PROVE  /\ round' \in [Rank -> Nat]
         /\ peer' \in [Rank -> Rank]
         /\ expected' \in [Rank -> Nat]
         /\ pc' \in [Rank -> Places]
<1>1. round' \in [Rank -> Nat] /\ expected' \in [Rank -> Nat]
  BY DEF TypeOK, EnterCommon
<1>2. peer' \in [Rank -> Rank]
  BY RankFacts DEF TypeOK, EnterCommon
<1>3. AfterSort \in Places
  BY DEF AfterSort, Places
<1>4. pc' \in [Rank -> Places]
  BY <1>3 DEF TypeOK, EnterCommon
<1> QED
  BY <1>1, <1>2, <1>4

LEMMA NextTyped == Typed /\ [Next]_vars => Typed'
<1> SUFFICES ASSUME TypeOK, OutFinite, [Next]_vars PROVE TypeOK' /\ OutFinite'
  BY DEF Typed
<1> USE RankFacts
<1>1. ASSUME NEW r \in Rank, EnterMigrate(r) PROVE TypeOK' /\ OutFinite'
  <2>1. \A d \in Rank : MigrateTo(r, d) \in SUBSET Particle
    BY DEF TypeOK, MigrateTo
  <2>2. \A d \in Rank : /\ {CopyOf(p) : p \in MigrateTo(r, d)} \in SUBSET Copy
                        /\ IsFiniteSet({CopyOf(p) : p \in MigrateTo(r, d)})
    BY <2>1, CopyType, CopiesFinite
  <2>3. OutFinite'
    BY <1>1, <2>2 DEF TypeOK, OutFinite, EnterMigrate
  <2>4. out' \in [Rank -> [Rank -> SUBSET Copy]]
    BY <1>1, <2>2 DEF TypeOK, EnterMigrate
  <2>5. els' \in [Rank -> SUBSET Particle]
    BY <1>1 DEF TypeOK, EnterMigrate, Kept
  <2>6. /\ round' \in [Rank -> Nat]
        /\ peer' \in [Rank -> Rank]
        /\ expected' \in [Rank -> Nat]
        /\ pc' \in [Rank -> Places]
    BY <1>1, EnterTyped DEF EnterMigrate
  <2>7. TypeOK'
    BY <1>1, <2>4, <2>5, <2>6 DEF TypeOK, EnterMigrate, EnterCommon
  <2> QED
    BY <2>3, <2>7
<1>2. ASSUME NEW r \in Rank, EnterGhost(r) PROVE TypeOK' /\ OutFinite'
  <2>1. \A d \in Rank : GhostTo(r, d) \in SUBSET Particle
    BY DEF TypeOK, GhostTo
  <2>2. \A d \in Rank : /\ {CopyOf(p) : p \in GhostTo(r, d)} \in SUBSET Copy
                        /\ IsFiniteSet({CopyOf(p) : p \in GhostTo(r, d)})
    BY <2>1, CopyType, CopiesFinite
  <2>3. OutFinite'
    BY <1>2, <2>2 DEF TypeOK, OutFinite, EnterGhost
  <2>4. out' \in [Rank -> [Rank -> SUBSET Copy]]
    BY <1>2, <2>2 DEF TypeOK, EnterGhost
  <2>5. remote' \in [Rank -> SUBSET Copy]
    BY <1>2 DEF TypeOK, EnterGhost, NoGhosts
  <2>6. /\ round' \in [Rank -> Nat]
        /\ peer' \in [Rank -> Rank]
        /\ expected' \in [Rank -> Nat]
        /\ pc' \in [Rank -> Places]
    BY <1>2, EnterTyped DEF EnterGhost
  <2>7. TypeOK'
    BY <1>2, <2>4, <2>5, <2>6 DEF TypeOK, EnterGhost, EnterCommon
  <2> QED
    BY <2>3, <2>7
<1>3. ASSUME NEW r \in Rank, SendCount(r) PROVE TypeOK' /\ OutFinite'
  <2> DEFINE d == peer[r]
  <2>1. d \in Rank /\ counts[r][d] \in Seq(Nat)
    BY DEF TypeOK
  <2>2. Cardinality(out[r][d]) \in Nat
    BY <2>1, FS_CardinalityType DEF OutFinite
  <2>3. Append(counts[r][d], Cardinality(out[r][d])) \in Seq(Nat)
    BY <2>1, <2>2, AppendFacts
  <2>4. counts' \in [Rank -> [Rank -> Seq(Nat)]]
    BY <1>3, <2>1, <2>3 DEF TypeOK, SendCount
  <2>5. peer' \in [Rank -> Rank] /\ pc' \in [Rank -> Places]
    BY <1>3, StepTyped DEF SendCount, Places
  <2>6. TypeOK'
    BY <1>3, <2>4, <2>5 DEF TypeOK, SendCount
  <2> QED
    BY <1>3, <2>6 DEF OutFinite, SendCount
<1>4. ASSUME NEW r \in Rank, RecvCount(r) PROVE TypeOK' /\ OutFinite'
  <2> DEFINE s == peer[r]
  <2>1. s \in Rank /\ counts[s][r] \in Seq(Nat) /\ counts[s][r] # <<>>
    BY <1>4 DEF TypeOK, RecvCount
  <2>2. Tail(counts[s][r]) \in Seq(Nat)
    BY <2>1, TailFacts
  <2>3. counts' \in [Rank -> [Rank -> Seq(Nat)]]
    BY <1>4, <2>1, <2>2 DEF TypeOK, RecvCount
  <2>4. peer' \in [Rank -> Rank] /\ pc' \in [Rank -> Places]
    BY <1>4, StepTyped DEF RecvCount, Places
  <2>5. expected' \in [Rank -> Nat]
    BY <1>4 DEF TypeOK, RecvCount
  <2>6. TypeOK'
    BY <1>4, <2>3, <2>4, <2>5 DEF TypeOK, RecvCount
  <2> QED
    BY <1>4, <2>6 DEF OutFinite, RecvCount
<1>5. ASSUME NEW r \in Rank, Isend(r) PROVE TypeOK' /\ OutFinite'
  <2>1. Posted(r) \in SUBSET Message
    <3> SUFFICES ASSUME NEW d \in Rank
                 PROVE  [tag |-> Tag(mode[r]), src |-> r, dst |-> d,
                         rnd |-> round[r], body |-> out[r][d]] \in Message
      BY DEF Posted
    <3>1. out[r][d] \in SUBSET Copy /\ round[r] \in Nat
      BY DEF TypeOK
    <3> QED
      BY <3>1 DEF Message, Tag
  <2>2. wire' \in SUBSET Message
    BY <1>5, <2>1 DEF TypeOK, Isend
  <2>3. out' \in [Rank -> [Rank -> SUBSET Copy]]
    BY <1>5 DEF TypeOK, Isend, Empty
  <2>4. OutFinite'
    BY <1>5, FS_EmptySet DEF TypeOK, OutFinite, Isend, Empty
  <2>5. pc' \in [Rank -> Places]
    BY <1>5 DEF TypeOK, Isend, Places
  <2>6. TypeOK'
    BY <1>5, <2>2, <2>3, <2>5 DEF TypeOK, Isend
  <2> QED
    BY <2>4, <2>6
<1>6. ASSUME NEW r \in Rank, Recv(r) PROVE TypeOK' /\ OutFinite'
  <2>1. PICK m \in Matches(r) :
           /\ wire' = wire \ {m}
           /\ els' = IF mode[r] = "migrate"
                     THEN [els EXCEPT ![r] = @ \cup Gids(m.body)] ELSE els
           /\ remote' = IF mode[r] = "ghost"
                        THEN [remote EXCEPT ![r] = @ \cup m.body] ELSE remote
    BY <1>6 DEF Recv
  <2>2. m \in Message
    BY <2>1 DEF Matches, TypeOK
  <2>3. Gids(m.body) \in SUBSET Particle /\ m.body \in SUBSET Copy
    BY <2>2 DEF Message, Copy, Gids
  <2>4. els' \in [Rank -> SUBSET Particle] /\ remote' \in [Rank -> SUBSET Copy]
    BY <2>1, <2>3 DEF TypeOK
  <2>5. expected' \in [Rank -> Nat]
    <3>1. expected[r] \in Nat /\ expected[r] > 0
      BY <1>6 DEF TypeOK, Recv
    <3>2. expected[r] - 1 \in Nat
      BY <3>1
    <3>3. expected' = [expected EXCEPT ![r] = expected[r] - 1]
      BY <1>6 DEF Recv
    <3> QED
      BY <3>2, <3>3 DEF TypeOK
  <2>6. wire' \in SUBSET Message
    BY <2>1 DEF TypeOK
  <2>7. TypeOK'
    BY <1>6, <2>4, <2>5, <2>6 DEF TypeOK, Recv
  <2> QED
    BY <1>6, <2>7 DEF OutFinite, Recv
<1>7. ASSUME NEW r \in Rank, Waitall(r) PROVE TypeOK' /\ OutFinite'
  BY <1>7 DEF TypeOK, OutFinite, Waitall, Places, Tags
<1>8. ASSUME NEW r \in Rank, Compute(r) PROVE TypeOK' /\ OutFinite'
  <2>1. PICK f \in [els[r] -> Pos] :
           pos' = [p \in Particle |-> IF p \in els[r] THEN f[p] ELSE pos[p]]
    BY <1>8 DEF Compute
  <2>2. pos' \in [Particle -> Pos]
    BY <2>1 DEF TypeOK
  <2>3. step' \in [Particle -> Nat]
    BY <1>8 DEF TypeOK, Compute
  <2>4. iter' \in [Rank -> Nat]
    BY <1>8 DEF TypeOK, Compute
  <2>5. mode' \in [Rank -> Tags]
    BY <1>8 DEF TypeOK, Compute, Tags
  <2>6. pc' \in [Rank -> Places]
    BY <1>8 DEF TypeOK, Compute, Places
  <2>7. TypeOK'
    BY <1>8, <2>2, <2>3, <2>4, <2>5, <2>6 DEF TypeOK, Compute
  <2> QED
    BY <1>8, <2>7 DEF OutFinite, Compute
<1>9. ASSUME LoadBalance PROVE TypeOK' /\ OutFinite'
  BY <1>9 DEF TypeOK, OutFinite, LoadBalance, Places, Tags
<1>10. ASSUME UNCHANGED vars PROVE TypeOK' /\ OutFinite'
  BY <1>10 DEF TypeOK, OutFinite, vars
<1> QED
  BY <1>1, <1>2, <1>3, <1>4, <1>5, <1>6, <1>7, <1>8, <1>9, <1>10
     DEF Next, RankStep, Finished

(* Every variable keeps its type; in particular the loop variable PE stays *)
(* a rank and recv_count never becomes negative.                           *)
THEOREM TypeCorrect == Spec => []TypeOK
<1>1. Init => Typed
  BY InitTyped
<1>2. Typed /\ [Next]_vars => Typed'
  BY NextTyped
<1>3. Typed => TypeOK
  BY DEF Typed
<1> QED
  BY <1>1, <1>2, <1>3, PTL DEF Spec

-----------------------------------------------------------------------------
(***************************************************************************)
(* The schedule: how many migrations there were before iteration n.        *)
(***************************************************************************)

LEMMA MigrationsType ==
  ASSUME NEW n \in Nat
  PROVE  IsFiniteSet((1..n) \ lbAt) /\ Migrations(n) \in Nat
<1>1. IsFiniteSet(1..n)
  BY FS_Interval
<1>2. IsFiniteSet((1..n) \ lbAt)
  BY <1>1, FS_Subset
<1> QED
  BY <1>2, FS_CardinalityType DEF Migrations

LEMMA MigrationsStep ==
  ASSUME NEW n \in Nat
  PROVE  Migrations(n + 1) = IF n + 1 \in lbAt THEN Migrations(n)
                                               ELSE Migrations(n) + 1
<1> DEFINE S == (1..n) \ lbAt
<1>1. IsFiniteSet(S) /\ n + 1 \notin S
  BY MigrationsType
<1>2. CASE n + 1 \in lbAt
  <2>1. (1..(n + 1)) \ lbAt = S
    BY <1>2
  <2> QED
    BY <1>2, <2>1 DEF Migrations
<1>3. CASE n + 1 \notin lbAt
  <2>1. (1..(n + 1)) \ lbAt = S \cup {n + 1}
    BY <1>3
  <2>2. Cardinality(S \cup {n + 1}) = Cardinality(S) + 1
    BY <1>1, FS_AddElement
  <2> QED
    BY <1>3, <2>1, <2>2 DEF Migrations
<1> QED
  BY <1>2, <1>3

LEMMA MigrationsMonotone ==
  ASSUME NEW n \in Nat, NEW k \in Nat, n <= k
  PROVE  Migrations(n) <= Migrations(k)
<1>1. (1..n) \ lbAt \subseteq (1..k) \ lbAt
  OBVIOUS
<1> QED
  BY <1>1, MigrationsType, FS_Subset DEF Migrations

(* Two ranks in the same exchange are in an exchange of the same kind.     *)
LEMMA SameMode ==
  ASSUME TypeOK, Schedule, NEW r \in Rank, NEW d \in Rank,
         InExchange(r), InExchange(d), round[r] = round[d]
  PROVE  mode[r] = mode[d]
<1>1. ASSUME NEW x \in Rank, NEW y \in Rank, InExchange(x), InExchange(y),
             round[x] = round[y], mode[x] = "ghost", mode[y] = "migrate"
      PROVE  FALSE
  <2> DEFINE i == iter[x]
             j == iter[y]
  <2>1. i \in Nat /\ j \in Nat /\ j > 0 /\ j \notin lbAt
    BY <1>1 DEF TypeOK, Schedule, InExchange
  <2>2. /\ round[x] = Migrations(i) + i + 1
        /\ round[y] = Migrations(j) + j
    BY <1>1 DEF Schedule, InExchange, GhostsDone, BeforeMigrate
  <2>3. Migrations(i) \in Nat /\ Migrations(j) \in Nat
    BY <2>1, MigrationsType
  <2> Migrations(i) + i + 1 = Migrations(j) + j
    BY <1>1, <2>2
  <2> HIDE DEF i, j
  <2>4. CASE j <= i
    <3>1. Migrations(j) <= Migrations(i)
      BY <2>1, <2>4, MigrationsMonotone
    <3> QED
      BY <2>1, <2>3, <2>4, <3>1
  <2>5. CASE j > i
    <3>1. j - 1 \in Nat /\ i <= j - 1 /\ (j - 1) + 1 = j
      BY <2>1, <2>5
    <3>2. Migrations(j) = Migrations(j - 1) + 1
      BY <2>1, <3>1, MigrationsStep
    <3>3. Migrations(i) <= Migrations(j - 1) /\ Migrations(j - 1) \in Nat
      BY <2>1, <3>1, MigrationsMonotone, MigrationsType
    <3> QED
      BY <2>1, <2>3, <2>5, <3>2, <3>3
  <2> QED
    BY <2>1, <2>4, <2>5
<1> QED
  BY <1>1 DEF TypeOK, Tags

-----------------------------------------------------------------------------
(***************************************************************************)
(* Who has told and heard what.                                            *)
(***************************************************************************)

LEMMA ToldType ==
  ASSUME TypeOK, NEW s \in Rank, NEW d \in Rank
  PROVE  /\ ToldN(s, d) \in Int /\ HeardN(d, s) \in Int
         /\ ToldN(s, d) <= round[s] /\ round[s] - 1 <= ToldN(s, d)
         /\ HeardN(d, s) <= round[d] /\ round[d] - 1 <= HeardN(d, s)
         /\ round[s] \in Nat /\ round[d] \in Nat
         /\ Len(counts[s][d]) \in Nat /\ counts[s][d] \in Seq(Nat)
  BY DEF TypeOK, ToldN, HeardN

(* A step that moves a rank neither into nor out of the two loops over PE, *)
(* and enters no exchange, tells and hears nothing.                        *)
LEMMA Quiet ==
  ASSUME round' = round,
         \A q \in Rank :
            \/ pc'[q] = pc[q] /\ peer'[q] = peer[q]
            \/ pc[q] \notin {"send", "recv"} /\ pc'[q] \notin {"send", "recv"}
  PROVE  /\ \A s, d \in Rank : Heard(d, s)' <=> Heard(d, s)
         /\ \A s, d \in Rank : ToldN(s, d)' = ToldN(s, d)
         /\ \A s, d \in Rank : HeardN(d, s)' = HeardN(d, s)
<1>1. \A s, d \in Rank : Told(s, d)' <=> Told(s, d)
  BY DEF Told
<1>2. \A s, d \in Rank : Heard(d, s)' <=> Heard(d, s)
  BY DEF Heard
<1>3. \A s, d \in Rank : ToldN(s, d)' = ToldN(s, d)
  BY <1>1 DEF ToldN
<1>4. \A s, d \in Rank : HeardN(d, s)' = HeardN(d, s)
  BY <1>2 DEF HeardN
<1> QED
  BY <1>2, <1>3, <1>4

(* A rank that has left get_invert_list has heard from every other rank,   *)
(* so it is not in a later exchange than any of them.                      *)
LEMMA NotAhead ==
  ASSUME TypeOK, Channels, NEW r \in Rank, NEW d \in Rank,
         pc[r] \notin {"send", "recv"}
  PROVE  round[r] <= round[d]
<1>1. HeardN(r, d) = round[r]
  BY DEF HeardN, Heard
<1>2. HeardN(r, d) + Len(counts[d][r]) = ToldN(d, r)
  BY DEF Channels
<1> QED
  BY <1>1, <1>2, ToldType, SMTT(30)

(* Nobody is more than one exchange ahead of a rank it has told about all  *)
(* of its own.                                                             *)
LEMMA OneAhead ==
  ASSUME TypeOK, Channels, NEW s \in Rank, NEW d \in Rank
  PROVE  /\ round[d] <= round[s] + 1
         /\ round[d] = round[s] + 1 => ~Heard(d, s)
<1>1. HeardN(d, s) + Len(counts[s][d]) = ToldN(s, d)
  BY DEF Channels
<1>2. HeardN(d, s) <= round[s]
  BY <1>1, ToldType, SMTT(30)
<1>3. Heard(d, s) => round[d] <= round[s]
  BY <1>2 DEF HeardN
<1> QED
  BY <1>2, <1>3, ToldType

(* A step that changes neither what is owed nor what was announced keeps   *)
(* the bookkeeping of the announcements.                                   *)
LEMMA SameDebts ==
  ASSUME TypeOK, Channels, Announced, Expecting, OutInTime, WireInTime,
         counts' = counts, expected' = expected, round' = round,
         \A s, d \in Rank : \A k : Owes(s, d, k)' <=> Owes(s, d, k),
         \A s, d \in Rank : Heard(d, s)' <=> Heard(d, s),
         \A s, d \in Rank : ToldN(s, d)' = ToldN(s, d),
         \A s, d \in Rank : HeardN(d, s)' = HeardN(d, s)
  PROVE  Channels' /\ Announced' /\ Expecting'
<1>1. Channels'
  BY DEF Channels
<1>2. Announced'
  BY DEF Announced
<1>3. \A d \in Rank : Debtors(d)' = Debtors(d)
  BY DEF Debtors
<1>4. Expecting'
  BY <1>3 DEF Expecting
<1> QED
  BY <1>1, <1>2, <1>4

-----------------------------------------------------------------------------
(***************************************************************************)
(* The actions.  Types are NextTyped's business: each lemma has them.      *)
(***************************************************************************)
(* Entering an exchange.  For r nothing is owed, under way or sorted.      *)
LEMMA EnterKeeps ==
  ASSUME IInv, TypeOK', OutFinite', NEW r \in Rank,
         EnterMigrate(r) \/ EnterGhost(r)
  PROVE  IInv'
<1> USE DEF IInv
<1>1. /\ pc[r] = "enter"
      /\ EnterCommon(r)
      /\ out'[r][r] = {}
      /\ \A s \in Rank : s # r => out'[s] = out[s]
  BY DEF EnterMigrate, EnterGhost, MigrateTo, GhostTo, TypeOK
<1>2. /\ round'[r] = round[r] + 1 /\ expected'[r] = 0 /\ peer'[r] = 0
      /\ pc'[r] = AfterSort
      /\ \A s \in Rank : s # r => /\ round'[s] = round[s]
                                 /\ expected'[s] = expected[s]
                                 /\ peer'[s] = peer[s]
                                 /\ pc'[s] = pc[s]
      /\ counts' = counts /\ wire' = wire /\ lbAt' = lbAt /\ iter' = iter
      /\ mode' = mode
  BY <1>1 DEF EnterCommon, TypeOK
<1>3. round[r] \in Nat /\ \A d \in Rank : out[r][d] = {}
  BY <1>1 DEF TypeOK, OutInTime, Sorted
<1>4. \A s, d \in Rank : s # d => AfterSort = "send"
  BY NProcAssumption DEF Rank, AfterSort
<1>5. \A s, d \in Rank : s # d => ToldN(s, d)' = ToldN(s, d)
  BY <1>1, <1>2, <1>3, <1>4, RankFacts DEF ToldN, Told
<1>6. \A s, d \in Rank : s # d => HeardN(d, s)' = HeardN(d, s)
  BY <1>1, <1>2, <1>3, <1>4, RankFacts DEF HeardN, Heard
<1>7. \A s, d \in Rank : d # r => (Heard(d, s)' <=> Heard(d, s))
  BY <1>2 DEF Heard
<1>8. \A s \in Rank : s # r => ~Heard(r, s)'
  BY <1>2, <1>4 DEF Heard
<1>9. Channels'
  <2> SUFFICES ASSUME NEW s \in Rank, NEW d \in Rank
               PROVE  HeardN(d, s)' + Len(counts'[s][d]) = ToldN(s, d)'
    BY DEF Channels
  <2>1. HeardN(d, s) + Len(counts[s][d]) = ToldN(s, d)
    BY DEF Channels
  <2>2. CASE s # d
    BY <1>2, <1>5, <1>6, <2>1, <2>2
  <2>3. CASE s = d /\ s # r
    BY <1>2, <2>1, <2>3 DEF HeardN, ToldN, Heard, Told
  <2>4. CASE s = r /\ d = r
    <3>1. HeardN(r, r) = round[r] /\ ToldN(r, r) = round[r]
      BY <1>1 DEF HeardN, ToldN, Heard, Told
    <3>2. HeardN(r, r)' = ToldN(r, r)' /\ HeardN(r, r)' \in Int
      BY <1>2, <1>3, RankFacts DEF HeardN, ToldN, Heard, Told, AfterSort
    <3>3. Len(counts[r][r]) = 0
      BY <1>3, <2>1, <2>4, <3>1, ToldType
    <3> QED
      BY <1>2, <2>4, <3>2, <3>3
  <2> QED
    BY <2>2, <2>3, <2>4
<1>10. \A s, d \in Rank : \A k \in Int :
         s # r \/ k <= round[r] => (Owes(s, d, k)' <=> Owes(s, d, k))
  BY <1>1, <1>2, <1>3 DEF Owes, InBuffer, InMessage
<1>11. Announced'
  <2> SUFFICES ASSUME NEW s \in Rank, NEW d \in Rank, s # d,
                      NEW j \in 1..Len(counts[s][d])
               PROVE  counts[s][d][j] > 0 <=> Owes(s, d, HeardN(d, s) + j)'
    BY <1>2, <1>6 DEF Announced
  <2>1. HeardN(d, s) + j \in Int /\ HeardN(d, s) + j <= round[s]
    <3>1. HeardN(d, s) + Len(counts[s][d]) = ToldN(s, d)
      BY DEF Channels
    <3>2. /\ HeardN(d, s) \in Int /\ ToldN(s, d) \in Int
          /\ ToldN(s, d) <= round[s] /\ round[s] \in Nat
          /\ Len(counts[s][d]) \in Nat
      BY ToldType
    <3> QED
      BY <3>1, <3>2
  <2>2. Owes(s, d, HeardN(d, s) + j)' <=> Owes(s, d, HeardN(d, s) + j)
    BY <1>2, <1>6, <1>10, <2>1
  <2> QED
    BY <2>2 DEF Announced
<1>12. Expecting'
  <2> SUFFICES ASSUME NEW d \in Rank
               PROVE  expected'[d] = Cardinality(Debtors(d)')
    BY DEF Expecting
  <2>1. CASE d = r
    <3>1. Debtors(d)' = {}
      BY <1>8, <2>1 DEF Debtors
    <3> QED
      BY <1>2, <2>1, <3>1, FS_EmptySet
  <2>2. CASE d # r
    <3>1. ASSUME NEW s \in Rank, s # d, Heard(d, s)
          PROVE  Owes(s, d, round[d])' <=> Owes(s, d, round[d])
      <4>1. round[d] \in Int /\ (s = r => round[d] <= round[r])
        <5>1. /\ round[d] <= round[s] + 1
              /\ round[d] = round[s] + 1 => ~Heard(d, s)
          BY OneAhead
        <5>2. round[d] \in Nat /\ round[s] \in Nat
          BY DEF TypeOK
        <5> QED
          BY <3>1, <5>1, <5>2
      <4> QED
        BY <1>2, <1>10, <2>2, <4>1
    <3>2. Debtors(d)' = Debtors(d)
      BY <1>2, <1>7, <2>2, <3>1 DEF Debtors
    <3> QED
      BY <1>2, <2>2, <3>2 DEF Expecting
  <2> QED
    BY <2>1, <2>2
<1>13. OutInTime'
  <2> SUFFICES ASSUME NEW s \in Rank, NEW d \in Rank, out'[s][d] # {}
               PROVE  /\ s # d
                      /\ Sorted(s)'
                      /\ round'[d] <= round'[s]
                      /\ round'[d] = round'[s] => InExchange(d)'
    BY DEF OutInTime
  <2>1. CASE s = r
    <3>1. d # r
      BY <1>1, <2>1
    <3>2. Sorted(s)'
      BY <1>2, <1>4, <2>1, <3>1 DEF Sorted
    <3>3. round[d] <= round[r] + 1 /\ (round[d] = round[r] + 1 => ~Heard(d, r))
      BY OneAhead
    <3> QED
      BY <1>2, <2>1, <3>1, <3>2, <3>3 DEF Heard, InExchange
  <2>2. CASE s # r
    <3>1. /\ s # d /\ Sorted(s) /\ round[d] <= round[s]
          /\ round[d] = round[s] => InExchange(d)
      BY <1>1, <2>2 DEF OutInTime
    <3>2. d = r => round[d] + 1 <= round[s] /\ InExchange(d)'
      BY <1>1, <1>2, <1>4, <3>1, ToldType, SMTT(30) DEF InExchange
    <3> QED
      BY <1>2, <2>2, <3>1, <3>2 DEF Sorted, InExchange
  <2> QED
    BY <2>1, <2>2
<1>14. WireInTime'
  <2> SUFFICES ASSUME NEW m \in wire
               PROVE  /\ m.rnd <= round'[m.src]
                      /\ m.rnd = round'[m.src] => ~Sorted(m.src)'
    BY <1>2 DEF WireInTime
  <2>1. /\ m.src \in Rank /\ m.rnd \in Nat /\ round[m.src] \in Nat
        /\ m.rnd <= round[m.src]
        /\ m.rnd = round[m.src] => ~Sorted(m.src)
    BY DEF WireInTime, TypeOK, Message
  <2>2. CASE m.src = r
    BY <1>2, <2>1, <2>2
  <2>3. CASE m.src # r
    BY <1>2, <2>1, <2>3 DEF Sorted
  <2> QED
    BY <2>2, <2>3
<1>15. RoundIsolation'
  <2>1. \A m \in wire : m.dst \in Rank /\ m.dst # r
    BY <1>1 DEF RoundIsolation, TypeOK, Message
  <2> QED
    BY <1>2, <2>1 DEF RoundIsolation
<1>16. Schedule'
  <2>1. \A s \in Rank : Migrations(iter[s])' = Migrations(iter[s])
    BY <1>2 DEF Migrations
  <2>2. AfterSort # "enter"
    BY DEF AfterSort
  <2>3. \A s \in Rank : s # r =>
            /\ GhostsDone(s)' <=> GhostsDone(s)
            /\ BeforeMigrate(s)' <=> BeforeMigrate(s)
    BY <1>2 DEF GhostsDone, BeforeMigrate
  <2>4. /\ ~GhostsDone(r) /\ ~BeforeMigrate(r)'
        /\ GhostsDone(r)' <=> mode[r] = "ghost"
        /\ BeforeMigrate(r) <=> mode[r] = "migrate"
    BY <1>1, <1>2, <2>2 DEF GhostsDone, BeforeMigrate
  <2>5. mode[r] \in {"ghost", "migrate"}
    BY DEF TypeOK, Tags
  <2>6. /\ GhostsDone(r)' => round'[r] = Migrations(iter[r]) + iter[r] + 1
        /\ BeforeMigrate(r)' => round'[r] + 1 = Migrations(iter[r]) + iter[r]
        /\ ~GhostsDone(r)' /\ ~BeforeMigrate(r)'
              => round'[r] = Migrations(iter[r]) + iter[r]
    BY <1>2, <2>4, <2>5 DEF Schedule
  <2>7. /\ pc'[r] \notin {"enter", "compute", "done", "lb"}
        /\ mode[r] = "migrate" => iter[r] > 0 /\ iter[r] \notin lbAt
    BY <1>1, <1>2 DEF AfterSort, Schedule
  <2> QED
    BY <1>2, <2>1, <2>3, <2>6, <2>7 DEF Schedule
<1> QED
  BY <1>9, <1>11, <1>12, <1>13, <1>14, <1>15, <1>16

(* The loops over PE: a rank stays in the first one until it has passed    *)
(* the last rank, and the loop variable names the rank served in this turn.*)
LEMMA LoopStep ==
  ASSUME TypeOK, NEW r \in Rank, NEW next \in Places, Step(r, next)
  PROVE  /\ \A s \in Rank : s # r => peer'[s] = peer[s] /\ pc'[s] = pc[s]
         /\ \/ /\ pc'[r] = pc[r] /\ peer'[r] = peer[r] + 1
               /\ \A d \in Rank : d < peer'[r] <=> d < peer[r] \/ d = peer[r]
            \/ /\ pc'[r] = next /\ peer'[r] = 0
               /\ \A d \in Rank : d < peer[r] \/ d = peer[r]
<1>1. NProc \in Nat /\ peer[r] \in Nat /\ Rank \subseteq Nat
      /\ \A d \in Rank : d <= NProc - 1
  BY NProcAssumption, RankFacts DEF TypeOK, Rank
<1>2. CASE peer[r] = NProc - 1
  <2>1. /\ peer' = [peer EXCEPT ![r] = 0]
        /\ pc' = [pc EXCEPT ![r] = next]
    BY <1>2 DEF Step, LoopTo
  <2>2. \A d \in Rank : d < peer[r] \/ d = peer[r]
    BY <1>1, <1>2
  <2> QED
    BY <2>1, <2>2 DEF TypeOK
<1>3. CASE peer[r] # NProc - 1
  <2>1. /\ peer' = [peer EXCEPT ![r] = peer[r] + 1]
        /\ pc' = pc
    BY <1>3 DEF Step, LoopTo
  <2>2. peer'[r] = peer[r] + 1
    BY <2>1 DEF TypeOK
  <2>3. \A d \in Rank : d < peer'[r] <=> d < peer[r] \/ d = peer[r]
    BY <1>1, <2>2
  <2> QED
    BY <2>1, <2>2, <2>3 DEF TypeOK
<1> QED
  BY <1>2, <1>3

(* Sending a count: r tells peer[r] how much it has sorted for it.         *)
LEMMA SendCountKeeps ==
  ASSUME IInv, TypeOK', OutFinite', NEW r \in Rank, SendCount(r)
  PROVE  IInv'
<1> USE DEF IInv
<1>0. PICK e \in Rank : e = peer[r]
  BY DEF TypeOK
<1> DEFINE q == counts[r][e]
           n == Cardinality(out[r][e])
<1>1. /\ e = peer[r] /\ pc[r] = "send" /\ q \in Seq(Nat) /\ n \in Nat
      /\ n > 0 <=> out[r][e] # {}
  BY <1>0, FS_CardinalityType, FS_EmptySet DEF SendCount, TypeOK, OutFinite
<1>2. /\ counts'[r][e] = Append(q, n)
      /\ \A s, d \in Rank : s # r \/ d # e => counts'[s][d] = counts[s][d]
      /\ UNCHANGED <<lbAt, iter, mode, expected, out, wire, round>>
  BY <1>1 DEF SendCount, TypeOK
<1>3. /\ \A s \in Rank : s # r => peer'[s] = peer[s] /\ pc'[s] = pc[s]
      /\ \/ /\ pc'[r] = pc[r] /\ peer'[r] = peer[r] + 1
            /\ \A d \in Rank : d < peer'[r] <=> d < peer[r] \/ d = peer[r]
         \/ /\ pc'[r] = "recv" /\ peer'[r] = 0
            /\ \A d \in Rank : d < peer[r] \/ d = peer[r]
  BY LoopStep DEF SendCount, Places
<1>4. \A s, d \in Rank : s # r \/ d # e => ToldN(s, d)' = ToldN(s, d)
  BY <1>1, <1>2, <1>3 DEF ToldN, Told
<1>5. ToldN(r, e) = round[r] - 1 /\ ToldN(r, e)' = round[r]
  BY <1>1, <1>2, <1>3, RankFacts DEF ToldN, Told
<1>6. \A s, d \in Rank : Heard(d, s)' <=> Heard(d, s)
  BY <1>1, <1>3, RankFacts DEF Heard
<1>7. \A s, d \in Rank : HeardN(d, s)' = HeardN(d, s)
  BY <1>2, <1>6 DEF HeardN
<1>8. \A s, d \in Rank : \A k : Owes(s, d, k)' <=> Owes(s, d, k)
  BY <1>2 DEF Owes, InBuffer, InMessage
<1>9. Len(q) \in Nat /\ Len(counts'[r][e]) = Len(q) + 1
  BY <1>1, <1>2, AppendFacts
<1>10. HeardN(e, r) + Len(q) = round[r] - 1
  BY <1>1, <1>5 DEF Channels
<1>11. Channels'
  <2> SUFFICES ASSUME NEW s \in Rank, NEW d \in Rank
               PROVE  HeardN(d, s)' + Len(counts'[s][d]) = ToldN(s, d)'
    BY DEF Channels
  <2>1. CASE s = r /\ d = e
    <3>1. HeardN(e, r) \in Int /\ round[r] \in Nat
      BY <1>1, ToldType
    <3>2. HeardN(e, r)' = HeardN(e, r)
      BY <1>7
    <3>3. HeardN(e, r) + Len(counts'[r][e]) = round[r]
      <4> HIDE DEF q, IInv
      <4> QED
        BY <1>9, <1>10, <3>1
    <3> QED
      BY <1>5, <2>1, <3>2, <3>3
  <2>2. CASE s # r \/ d # e
    BY <1>2, <1>4, <1>7, <2>2 DEF Channels
  <2> QED
    BY <2>1, <2>2
<1>12. Announced'
  <2> SUFFICES ASSUME NEW s \in Rank, NEW d \in Rank, s # d,
                      NEW j \in 1..Len(counts'[s][d])
               PROVE  counts'[s][d][j] > 0 <=> Owes(s, d, HeardN(d, s) + j)
    BY <1>7, <1>8 DEF Announced
  <2>1. CASE (s # r \/ d # e) \/ j # Len(q) + 1
    <3>1. j \in 1..Len(counts[s][d]) /\ counts'[s][d][j] = counts[s][d][j]
      <4>1. CASE s # r \/ d # e
        BY <1>2, <4>1
      <4>2. CASE s = r /\ d = e
        <5>1. j \in 1..Len(q)
          BY <1>9, <2>1, <4>2
        <5>2. Append(q, n)[j] = q[j]
          BY <1>1, <5>1, AppendFacts
        <5> QED
          BY <1>2, <4>2, <5>1, <5>2
      <4> QED
        BY <4>1, <4>2
    <3> QED
      BY <3>1 DEF Announced
  <2>2. CASE s = r /\ d = e /\ j = Len(q) + 1
    <3>1. counts'[s][d][j] = n
      BY <1>1, <1>2, <2>2, AppendFacts
    <3>2. HeardN(d, s) + j = round[r]
      <4>1. HeardN(e, r) \in Int /\ round[r] \in Nat
        BY <1>1, ToldType
      <4> QED
        BY <1>9, <1>10, <2>2, <4>1, SMTT(30)
    <3>3. ~InMessage(r, e, round[r])
      BY <1>1 DEF InMessage, WireInTime, Sorted
    <3> QED
      BY <1>1, <2>2, <3>1, <3>2, <3>3 DEF Owes, InBuffer
  <2> QED
    BY <2>1, <2>2
<1>13. Expecting'
  <2>1. \A d \in Rank : Debtors(d)' = Debtors(d)
    BY <1>2, <1>6, <1>8 DEF Debtors
  <2> QED
    BY <1>2, <2>1 DEF Expecting
<1>14. /\ \A s \in Rank : Sorted(s)' <=> Sorted(s)
       /\ \A s \in Rank : InExchange(s)' <=> InExchange(s)
  BY <1>1, <1>3 DEF Sorted, InExchange
<1>15. OutInTime'
  BY <1>2, <1>14 DEF OutInTime
<1>16. WireInTime'
  BY <1>2, <1>14 DEF WireInTime, TypeOK, Message
<1>17. RoundIsolation'
  BY <1>2, <1>14 DEF RoundIsolation, TypeOK, Message, InExchange
<1>18. Schedule'
  BY <1>1, <1>2, <1>3, SMTT(30)
     DEF Schedule, Migrations, GhostsDone, BeforeMigrate
<1> QED
  BY <1>11, <1>12, <1>13, <1>15, <1>16, <1>17, <1>18

(* Receiving a count: r hears from peer[r], and waits for one message more *)
(* if peer[r] announced elements.                                          *)
LEMMA RecvCountKeeps ==
  ASSUME IInv, TypeOK', OutFinite', NEW r \in Rank, RecvCount(r)
  PROVE  IInv'
<1> USE DEF IInv
<1>1. PICK e \in Rank : e = peer[r]
  BY DEF TypeOK
<1> DEFINE q == counts[e][r]
<1>2. /\ pc[r] = "recv" /\ q \in Seq(Nat) /\ q # <<>>
      /\ expected' = [expected EXCEPT ![r] = IF e # r /\ Head(q) > 0
                                             THEN expected[r] + 1
                                             ELSE expected[r]]
      /\ UNCHANGED <<lbAt, iter, mode, out, wire, round>>
  BY <1>1 DEF RecvCount, IsImport, TypeOK
<1>3. /\ counts'[e][r] = Tail(q)
      /\ \A s, d \in Rank : s # e \/ d # r => counts'[s][d] = counts[s][d]
  BY <1>1 DEF RecvCount, TypeOK
<1>4. /\ \A s \in Rank : s # r => peer'[s] = peer[s] /\ pc'[s] = pc[s]
      /\ \/ /\ pc'[r] = pc[r] /\ peer'[r] = peer[r] + 1
            /\ \A d \in Rank : d < peer'[r] <=> d < peer[r] \/ d = peer[r]
         \/ /\ pc'[r] = "isend" /\ peer'[r] = 0
            /\ \A d \in Rank : d < peer[r] \/ d = peer[r]
  BY LoopStep DEF RecvCount, Places
<1>5. \A s, d \in Rank : ToldN(s, d)' = ToldN(s, d)
  BY <1>2, <1>4 DEF ToldN, Told
<1>6. \A s, d \in Rank : s # e \/ d # r => (Heard(d, s)' <=> Heard(d, s))
  BY <1>1, <1>2, <1>4 DEF Heard
<1>7. ~Heard(r, e) /\ Heard(r, e)'
  <2>1. peer[r] \in Nat /\ ~(e < peer[r])
    BY <1>1, RankFacts
  <2>2. pc'[r] = "isend" \/ (pc'[r] = "recv" /\ e < peer'[r])
    BY <1>1, <1>2, <1>4
  <2> QED
    BY <1>2, <2>1, <2>2 DEF Heard
<1>8. \A s, d \in Rank : s # e \/ d # r => HeardN(d, s)' = HeardN(d, s)
  BY <1>2, <1>6 DEF HeardN
<1>9. HeardN(r, e) = round[r] - 1 /\ HeardN(r, e)' = round[r]
  BY <1>2, <1>7 DEF HeardN
<1>10. /\ Len(q) \in Nat \ {0} /\ Len(Tail(q)) = Len(q) - 1
       /\ Head(q) = q[1] /\ Head(q) \in Nat
       /\ \A j \in 1..Len(Tail(q)) : Tail(q)[j] = q[j + 1]
  BY <1>2, TailFacts
<1>11. round[r] - 1 + Len(q) = ToldN(e, r) /\ ToldN(e, r) \in Int
       /\ round[r] \in Nat
  BY <1>9, ToldType DEF Channels
<1>12. \A s, d \in Rank : \A k : Owes(s, d, k)' <=> Owes(s, d, k)
  BY <1>2 DEF Owes, InBuffer, InMessage
<1>13. Channels'
  <2> SUFFICES ASSUME NEW s \in Rank, NEW d \in Rank
               PROVE  HeardN(d, s)' + Len(counts'[s][d]) = ToldN(s, d)'
    BY DEF Channels
  <2>1. CASE s = e /\ d = r
    <3>1. round[r] + Len(Tail(q)) = ToldN(e, r)
      <4> HIDE DEF q, IInv
      <4> QED
        BY <1>10, <1>11
    <3> QED
      BY <1>3, <1>5, <1>9, <2>1, <3>1
  <2>2. CASE s # e \/ d # r
    BY <1>3, <1>5, <1>8, <2>2 DEF Channels
  <2> QED
    BY <2>1, <2>2
<1>14. e # r => (Head(q) > 0 <=> Owes(e, r, round[r]))
  <2> SUFFICES ASSUME e # r PROVE Head(q) > 0 <=> Owes(e, r, round[r])
    OBVIOUS
  <2>1. 1 \in 1..Len(q)
    BY <1>10
  <2>2. q[1] > 0 <=> Owes(e, r, HeardN(r, e) + 1)
    BY <2>1 DEF Announced
  <2>3. HeardN(r, e) + 1 = round[r]
    BY <1>9, <1>11
  <2> QED
    BY <1>10, <2>2, <2>3
<1>15. Announced'
  <2> SUFFICES ASSUME NEW s \in Rank, NEW d \in Rank, s # d,
                      NEW j \in 1..Len(counts'[s][d])
               PROVE  counts'[s][d][j] > 0 <=> Owes(s, d, HeardN(d, s)' + j)
    BY <1>12 DEF Announced
  <2>1. CASE s # e \/ d # r
    BY <1>3, <1>8, <2>1 DEF Announced
  <2>2. CASE s = e /\ d = r
    <3>1. /\ j + 1 \in 1..Len(q) /\ Tail(q)[j] = q[j + 1] /\ j \in Nat
      <4>1. j \in 1..Len(Tail(q))
        BY <1>3, <2>2
      <4>2. Tail(q)[j] = q[j + 1]
        BY <1>10, <4>1
      <4>3. j + 1 \in 1..Len(q) /\ j \in Nat
        <5> HIDE DEF q, IInv
        <5> QED
          BY <1>10, <4>1
      <4> QED
        BY <4>2, <4>3
    <3>2. q[j + 1] > 0 <=> Owes(e, r, HeardN(r, e) + (j + 1))
      BY <2>2, <3>1 DEF Announced
    <3>3. HeardN(r, e) + (j + 1) = HeardN(r, e)' + j
      BY <1>9, <1>11, <3>1
    <3> QED
      BY <1>3, <2>2, <3>1, <3>2, <3>3
  <2> QED
    BY <2>1, <2>2
<1>16. Expecting'
  <2> SUFFICES ASSUME NEW d \in Rank
               PROVE  expected'[d] = Cardinality(Debtors(d)')
    BY DEF Expecting
  <2>1. expected[d] = Cardinality(Debtors(d)) /\ expected \in [Rank -> Nat]
    BY DEF Expecting, TypeOK
  <2>2. CASE d # r
    <3>1. Debtors(d)' = Debtors(d)
      BY <1>2, <1>6, <1>12, <2>2 DEF Debtors
    <3> QED
      BY <1>2, <2>1, <2>2, <3>1
  <2>3. CASE d = r /\ e # r /\ Head(q) > 0
    <3>1. Debtors(r)' = Debtors(r) \cup {e}
      BY <1>2, <1>6, <1>7, <1>12, <1>14, <2>3 DEF Debtors
    <3>2. e \notin Debtors(r)
      BY <1>7 DEF Debtors
    <3>3. IsFiniteSet(Debtors(r))
      BY RankFacts, FS_Subset DEF Debtors
    <3>4. Cardinality(Debtors(r)') = Cardinality(Debtors(r)) + 1
      BY <3>1, <3>2, <3>3, FS_AddElement
    <3> QED
      BY <1>2, <2>1, <2>3, <3>4
  <2>4. CASE d = r /\ ~(e # r /\ Head(q) > 0)
    <3>1. Debtors(r)' = Debtors(r)
      BY <1>2, <1>6, <1>7, <1>12, <1>14, <2>4 DEF Debtors
    <3> QED
      BY <1>2, <2>1, <2>4, <3>1
  <2> QED
    BY <2>2, <2>3, <2>4
<1>17. /\ \A s \in Rank : Sorted(s)' <=> Sorted(s)
       /\ \A s \in Rank : InExchange(s)' <=> InExchange(s)
  BY <1>2, <1>4 DEF Sorted, InExchange
<1>18. OutInTime'
  BY <1>2, <1>17 DEF OutInTime
<1>19. WireInTime'
  BY <1>2, <1>17 DEF WireInTime, TypeOK, Message
<1>20. RoundIsolation'
  BY <1>2, <1>17 DEF RoundIsolation, TypeOK, Message, InExchange
<1>21. Schedule'
  BY <1>2, <1>4
     DEF Schedule, Migrations, GhostsDone, BeforeMigrate
<1> QED
  BY <1>13, <1>15, <1>16, <1>18, <1>19, <1>20, <1>21

(* Posting the buffers: what was owed from a buffer is owed from a message.*)
LEMMA IsendKeeps ==
  ASSUME IInv, TypeOK', OutFinite', NEW r \in Rank, Isend(r)
  PROVE  IInv'
<1> USE DEF IInv
<1>1. /\ pc[r] = "isend" /\ pc'[r] = "drain"
      /\ \A s \in Rank : s # r => pc'[s] = pc[s] /\ out'[s] = out[s]
      /\ \A d \in Rank : out'[r][d] = {}
      /\ wire' = wire \cup Posted(r)
      /\ UNCHANGED <<lbAt, iter, mode, peer, expected, counts, round>>
  BY DEF Isend, TypeOK, Empty
<1>2. \A m \in Posted(r) : /\ m.src = r /\ m.dst \in Rank /\ m.rnd = round[r]
                           /\ m.tag = Tag(mode[r]) /\ out[r][m.dst] # {}
  BY DEF Posted
<1>3. \A d \in Rank : out[r][d] # {} =>
         \E m \in Posted(r) : m.src = r /\ m.dst = d /\ m.rnd = round[r]
  <2> SUFFICES ASSUME NEW d \in Rank, out[r][d] # {}
               PROVE  \E m \in Posted(r) :
                         m.src = r /\ m.dst = d /\ m.rnd = round[r]
    OBVIOUS
  <2> DEFINE m == [tag |-> Tag(mode[r]), src |-> r, dst |-> d,
                   rnd |-> round[r], body |-> out[r][d]]
  <2>1. m \in Posted(r)
    BY DEF Posted
  <2>2. m.src = r /\ m.dst = d /\ m.rnd = round[r]
    OBVIOUS
  <2> QED
    BY <2>1, <2>2
<1>4. \A m, n \in Posted(r) : m.dst = n.dst => m = n
  BY DEF Posted
<1>5. /\ \A s, d \in Rank : Heard(d, s)' <=> Heard(d, s)
      /\ \A s, d \in Rank : ToldN(s, d)' = ToldN(s, d)
      /\ \A s, d \in Rank : HeardN(d, s)' = HeardN(d, s)
  <2>1. \A q \in Rank :
           \/ pc'[q] = pc[q] /\ peer'[q] = peer[q]
           \/ pc[q] \notin {"send", "recv"} /\ pc'[q] \notin {"send", "recv"}
    BY <1>1
  <2> QED
    BY <1>1, <2>1, Quiet
<1>6. \A s, d \in Rank : \A k : Owes(s, d, k)' <=> Owes(s, d, k)
  <2> SUFFICES ASSUME NEW s \in Rank, NEW d \in Rank, NEW k
               PROVE  Owes(s, d, k)' <=> Owes(s, d, k)
    OBVIOUS
  <2>1. CASE s # r
    BY <1>1, <1>2, <2>1 DEF Owes, InBuffer, InMessage
  <2>2. CASE s = r
    <3>1. InMessage(r, d, k)' <=>
             InMessage(r, d, k) \/ (k = round[r] /\ out[r][d] # {})
      BY <1>1, <1>2, <1>3 DEF InMessage
    <3>2. ~InBuffer(r, d, k)'
      BY <1>1 DEF InBuffer
    <3> QED
      BY <2>2, <3>1, <3>2 DEF Owes, InBuffer
  <2> QED
    BY <2>1, <2>2
<1>7. Channels' /\ Announced' /\ Expecting'
  BY <1>1, <1>5, <1>6, SameDebts
<1>8. \A s \in Rank : /\ Sorted(s)' <=> (Sorted(s) /\ s # r)
                      /\ InExchange(s)' <=> InExchange(s)
  BY <1>1 DEF Sorted, InExchange
<1>9. OutInTime'
  BY <1>1, <1>8 DEF OutInTime
<1>10. \A d \in Rank : out[r][d] # {} =>
          /\ r # d /\ round[d] = round[r] /\ InExchange(d)
          /\ mode[d] = mode[r]
  <2> SUFFICES ASSUME NEW d \in Rank, out[r][d] # {}
               PROVE  /\ r # d /\ round[d] = round[r] /\ InExchange(d)
                      /\ mode[d] = mode[r]
    OBVIOUS
  <2>1. /\ r # d /\ round[d] <= round[r]
        /\ round[d] = round[r] => InExchange(d)
    BY DEF OutInTime
  <2>2. round[r] <= round[d]
    BY <1>1, NotAhead
  <2>3. round[d] = round[r]
    BY <2>1, <2>2, ToldType
  <2>4. InExchange(r)
    BY <1>1 DEF InExchange
  <2>5. mode[d] = mode[r]
    BY <2>1, <2>3, <2>4, SameMode
  <2> QED
    BY <2>1, <2>3, <2>5
<1>11. WireInTime'
  <2>1. \A m \in wire : m.src = r => out[r][m.dst] = {}
    <3> SUFFICES ASSUME NEW m \in wire, m.src = r, out[r][m.dst] # {}
                 PROVE  FALSE
      OBVIOUS
    <3>1. m.dst \in Rank /\ m.rnd = round[m.dst]
      BY DEF TypeOK, Message, RoundIsolation
    <3>2. m.rnd = round[r]
      BY <1>10, <3>1
    <3> QED
      BY <1>1, <3>2 DEF WireInTime, Sorted
  <2>2. \A m, n \in wire' : m.src = n.src /\ m.dst = n.dst => m = n
    BY <1>1, <1>2, <1>4, <2>1 DEF WireInTime
  <2>3. \A m \in wire' : /\ m.src # m.dst
                         /\ m.rnd <= round'[m.src]
                         /\ m.rnd = round'[m.src] => ~Sorted(m.src)'
    <3>1. ASSUME NEW m \in wire
          PROVE  /\ m.src # m.dst
                 /\ m.rnd <= round'[m.src]
                 /\ m.rnd = round'[m.src] => ~Sorted(m.src)'
      BY <1>1, <1>8 DEF WireInTime, TypeOK, Message
    <3>2. ASSUME NEW m \in Posted(r)
          PROVE  /\ m.src # m.dst
                 /\ m.rnd <= round'[m.src]
                 /\ m.rnd = round'[m.src] => ~Sorted(m.src)'
      <4>1. /\ m.src = r /\ m.dst \in Rank /\ m.dst # r
            /\ m.rnd = round[r] /\ round[r] \in Nat /\ round' = round
        BY <1>1, <1>2, <1>10 DEF TypeOK
      <4>2. ~Sorted(r)'
        BY <1>8
      <4> QED
        BY <4>1, <4>2
    <3> QED
      BY <1>1, <3>1, <3>2
  <2> QED
    BY <2>2, <2>3 DEF WireInTime
<1>12. RoundIsolation'
  <2>1. ASSUME NEW m \in wire
        PROVE  /\ m.rnd = round'[m.dst] /\ m.tag = Tag(mode'[m.dst])
               /\ InExchange(m.dst)'
    BY <1>1, <1>8 DEF RoundIsolation, TypeOK, Message, InExchange
  <2>2. ASSUME NEW m \in Posted(r)
        PROVE  /\ m.rnd = round'[m.dst] /\ m.tag = Tag(mode'[m.dst])
               /\ InExchange(m.dst)'
    BY <1>1, <1>2, <1>8, <1>10
  <2> QED
    BY <1>1, <2>1, <2>2 DEF RoundIsolation, InExchange
<1>13. Schedule'
  BY <1>1 DEF Schedule, Migrations, GhostsDone, BeforeMigrate
<1> QED
  BY <1>7, <1>9, <1>11, <1>12, <1>13

(* Receiving a message: its sender owes nothing more for this exchange.    *)
LEMMA RecvKeeps ==
  ASSUME IInv, TypeOK', OutFinite', NEW r \in Rank, Recv(r)
  PROVE  IInv'
<1> USE DEF IInv
<1>1. PICK m \in Matches(r) : wire' = wire \ {m}
  BY DEF Recv
<1>2. /\ pc[r] = "drain" /\ m \in wire /\ m.dst = r
      /\ expected' = [expected EXCEPT ![r] = expected[r] - 1]
      /\ UNCHANGED <<lbAt, iter, mode, pc, peer, out, counts, round>>
  BY DEF Recv, Matches
<1>3. /\ m.src \in Rank /\ m.src # r /\ m.rnd = round[r] /\ m.rnd \in Nat
      /\ m.rnd = round[m.src] => ~Sorted(m.src)
  BY <1>2 DEF WireInTime, RoundIsolation, TypeOK, Message
<1> DEFINE e == m.src
<1>4. /\ \A s, d \in Rank : Heard(d, s)' <=> Heard(d, s)
      /\ \A s, d \in Rank : ToldN(s, d)' = ToldN(s, d)
      /\ \A s, d \in Rank : HeardN(d, s)' = HeardN(d, s)
  BY <1>2, Quiet
<1>5. Owes(e, r, round[r]) /\ ~Owes(e, r, round[r])'
  <2>1. InMessage(e, r, round[r])
    BY <1>2, <1>3 DEF InMessage
  <2>2. ~InMessage(e, r, round[r])'
    BY <1>1, <1>2, <1>3 DEF InMessage, WireInTime
  <2>3. ~InBuffer(e, r, round[r])'
    BY <1>2, <1>3 DEF InBuffer, OutInTime
  <2> QED
    BY <2>1, <2>2, <2>3 DEF Owes
<1>6. \A s, d \in Rank : \A k : s # e \/ d # r \/ k # round[r] =>
         (Owes(s, d, k)' <=> Owes(s, d, k))
  BY <1>1, <1>2, <1>3 DEF Owes, InBuffer, InMessage
<1>7. Channels'
  BY <1>2, <1>4 DEF Channels
<1>8. \A s \in Rank : Heard(r, s) /\ HeardN(r, s) = round[r]
  BY <1>2 DEF Heard, HeardN
<1>9. Announced'
  <2> SUFFICES ASSUME NEW s \in Rank, NEW d \in Rank, s # d,
                      NEW j \in 1..Len(counts[s][d])
               PROVE  counts[s][d][j] > 0 <=> Owes(s, d, HeardN(d, s) + j)'
    BY <1>2, <1>4 DEF Announced
  <2>1. d = r => HeardN(d, s) + j # round[r]
    <3>1. round[r] \in Nat /\ j \in Nat /\ j > 0
      BY <1>3, ToldType
    <3> QED
      BY <1>8, <3>1
  <2>2. Owes(s, d, HeardN(d, s) + j)' <=> Owes(s, d, HeardN(d, s) + j)
    BY <1>2, <1>4, <1>6, <2>1
  <2> QED
    BY <2>2 DEF Announced
<1>10. Expecting'
  <2> SUFFICES ASSUME NEW d \in Rank
               PROVE  expected'[d] = Cardinality(Debtors(d)')
    BY DEF Expecting
  <2>1. expected[d] = Cardinality(Debtors(d)) /\ expected \in [Rank -> Nat]
    BY DEF Expecting, TypeOK
  <2>2. CASE d # r
    <3>1. Debtors(d)' = Debtors(d)
      BY <1>2, <1>4, <1>6, <2>2 DEF Debtors
    <3> QED
      BY <1>2, <2>1, <2>2, <3>1
  <2>3. CASE d = r
    <3>1. Debtors(r)' = Debtors(r) \ {e}
      BY <1>2, <1>4, <1>5, <1>6 DEF Debtors
    <3>2. e \in Debtors(r)
      BY <1>3, <1>5, <1>8 DEF Debtors
    <3>3. IsFiniteSet(Debtors(r))
      BY RankFacts, FS_Subset DEF Debtors
    <3>4. Cardinality(Debtors(r)') = Cardinality(Debtors(r)) - 1
      BY <3>1, <3>2, <3>3, FS_RemoveElement
    <3> QED
      BY <1>2, <2>1, <2>3, <3>4
  <2> QED
    BY <2>2, <2>3
<1>11. OutInTime' /\ Schedule'
  BY <1>2 DEF OutInTime, Schedule, Sorted, InExchange, Migrations, GhostsDone,
              BeforeMigrate
<1>12. WireInTime' /\ RoundIsolation'
  BY <1>1, <1>2 DEF WireInTime, RoundIsolation, Sorted
<1> QED
  BY <1>7, <1>9, <1>10, <1>11, <1>12

(* Leaving an exchange: nobody owes r a message any more, so none can be   *)
(* matched in a later exchange.                                            *)
LEMMA WaitallKeeps ==
  ASSUME IInv, TypeOK', OutFinite', NEW r \in Rank, Waitall(r)
  PROVE  IInv'
<1> USE DEF IInv
<1>1. /\ pc[r] = "drain" /\ expected[r] = 0
      /\ \A s \in Rank : s # r => pc'[s] = pc[s] /\ mode'[s] = mode[s]
      /\ UNCHANGED <<lbAt, iter, peer, expected, out, counts, wire, round>>
      /\ \/ mode[r] = "migrate" /\ mode'[r] = "ghost" /\ pc'[r] = "enter"
         \/ /\ mode[r] = "ghost" /\ mode'[r] = "ghost"
            /\ pc'[r] \in {"compute", "done"}
  BY DEF Waitall, Drained, TypeOK, Tags
<1>2. /\ \A s, d \in Rank : Heard(d, s)' <=> Heard(d, s)
      /\ \A s, d \in Rank : ToldN(s, d)' = ToldN(s, d)
      /\ \A s, d \in Rank : HeardN(d, s)' = HeardN(d, s)
  <2>1. \A q \in Rank :
           \/ pc'[q] = pc[q] /\ peer'[q] = peer[q]
           \/ pc[q] \notin {"send", "recv"} /\ pc'[q] \notin {"send", "recv"}
    BY <1>1
  <2> QED
    BY <1>1, <2>1, Quiet
<1>3. \A s, d \in Rank : \A k : Owes(s, d, k)' <=> Owes(s, d, k)
  BY <1>1 DEF Owes, InBuffer, InMessage
<1>4. Channels' /\ Announced' /\ Expecting'
  BY <1>1, <1>2, <1>3, SameDebts
<1>5. \A s \in Rank : s # r => ~Owes(s, r, round[r])
  <2>1. Cardinality(Debtors(r)) = 0
    BY <1>1 DEF Expecting
  <2>2. IsFiniteSet(Debtors(r))
    BY RankFacts, FS_Subset DEF Debtors
  <2>3. Debtors(r) = {}
    BY <2>1, <2>2, FS_EmptySet
  <2>4. \A s \in Rank : Heard(r, s)
    BY <1>1 DEF Heard
  <2> QED
    BY <2>3, <2>4 DEF Debtors
<1>6. \A m \in wire : m.dst # r
  <2> SUFFICES ASSUME NEW m \in wire, m.dst = r PROVE FALSE
    OBVIOUS
  <2>1. m.src \in Rank /\ m.src # r /\ m.rnd = round[r]
    BY DEF TypeOK, Message, WireInTime, RoundIsolation
  <2>2. InMessage(m.src, r, round[r])
    BY <2>1 DEF InMessage
  <2> QED
    BY <1>5, <2>1, <2>2 DEF Owes
<1>7. /\ \A s \in Rank : Sorted(s)' <=> Sorted(s)
      /\ \A s \in Rank : s # r => (InExchange(s)' <=> InExchange(s))
  BY <1>1 DEF Sorted, InExchange
<1>8. OutInTime'
  <2>1. \A s \in Rank : out[s][r] # {} => round[r] # round[s]
    BY <1>5 DEF OutInTime, Owes, InBuffer
  <2> QED
    BY <1>1, <1>7, <2>1 DEF OutInTime
<1>8a. \A m \in wire : m.src \in Rank /\ m.dst \in Rank
  BY WireRanks
<1>9. WireInTime'
  BY <1>1, <1>7, <1>8a DEF WireInTime
<1>10. RoundIsolation'
  BY <1>1, <1>6, <1>8a DEF RoundIsolation
<1>11. Schedule'
  <2>1. \A s \in Rank : Migrations(iter[s])' = Migrations(iter[s])
    BY <1>1 DEF Migrations
  <2>2. \A s \in Rank : s # r => /\ GhostsDone(s)' <=> GhostsDone(s)
                                 /\ BeforeMigrate(s)' <=> BeforeMigrate(s)
    BY <1>1 DEF GhostsDone, BeforeMigrate
  <2>3. mode[r] = "migrate" => /\ ~GhostsDone(r) /\ ~BeforeMigrate(r)
                               /\ ~GhostsDone(r)' /\ ~BeforeMigrate(r)'
    BY <1>1 DEF GhostsDone, BeforeMigrate
  <2>4. mode[r] = "ghost" => GhostsDone(r) /\ GhostsDone(r)'
    BY <1>1 DEF GhostsDone
  <2>5. ~BeforeMigrate(r)'
    BY <1>1 DEF BeforeMigrate
  <2> QED
    BY <1>1, <2>1, <2>2, <2>3, <2>4, <2>5 DEF Schedule
<1> QED
  BY <1>4, <1>8, <1>9, <1>10, <1>11

(* A step of the computation: no exchange of r is open.                    *)
LEMMA ComputeKeeps ==
  ASSUME IInv, TypeOK', OutFinite', NEW r \in Rank, Compute(r)
  PROVE  IInv'
<1> USE DEF IInv
<1>1. /\ pc[r] = "compute" /\ mode'[r] = "migrate"
      /\ iter[r] \in Nat /\ iter'[r] = iter[r] + 1
      /\ pc'[r] = IF iter[r] + 1 \in lbAt THEN "lb" ELSE "enter"
      /\ \A s \in Rank : s # r => /\ pc'[s] = pc[s] /\ mode'[s] = mode[s]
                                 /\ iter'[s] = iter[s]
      /\ UNCHANGED <<lbAt, peer, expected, out, counts, wire, round>>
  BY DEF Compute, TypeOK
<1>2. /\ \A s, d \in Rank : Heard(d, s)' <=> Heard(d, s)
      /\ \A s, d \in Rank : ToldN(s, d)' = ToldN(s, d)
      /\ \A s, d \in Rank : HeardN(d, s)' = HeardN(d, s)
  <2>1. \A q \in Rank :
           \/ pc'[q] = pc[q] /\ peer'[q] = peer[q]
           \/ pc[q] \notin {"send", "recv"} /\ pc'[q] \notin {"send", "recv"}
    BY <1>1
  <2> QED
    BY <1>1, <2>1, Quiet
<1>3. \A s, d \in Rank : \A k : Owes(s, d, k)' <=> Owes(s, d, k)
  BY <1>1 DEF Owes, InBuffer, InMessage
<1>4. Channels' /\ Announced' /\ Expecting'
  BY <1>1, <1>2, <1>3, SameDebts
<1>5. /\ \A s \in Rank : Sorted(s)' <=> Sorted(s)
      /\ \A s \in Rank : InExchange(s)' <=> InExchange(s)
  BY <1>1 DEF Sorted, InExchange
<1>6. OutInTime'
  BY <1>1, <1>5 DEF OutInTime
<1>6a. \A m \in wire : m.src \in Rank /\ m.dst \in Rank
  BY WireRanks
<1>7. WireInTime'
  BY <1>1, <1>5, <1>6a DEF WireInTime
<1>8. RoundIsolation'
  BY <1>1, <1>6a DEF RoundIsolation
<1>9. Schedule'
  <2>1. /\ round[r] = Migrations(iter[r]) + iter[r] + 1
        /\ round[r] \in Nat /\ Migrations(iter[r]) \in Nat
    BY <1>1, MigrationsType DEF Schedule, GhostsDone, TypeOK
  <2>2. \A n \in Nat : Migrations(n)' = Migrations(n)
    BY <1>1 DEF Migrations
  <2>3. Migrations(iter[r] + 1) = IF iter[r] + 1 \in lbAt
                                  THEN Migrations(iter[r])
                                  ELSE Migrations(iter[r]) + 1
    BY <1>1, MigrationsStep
  <2> SUFFICES ASSUME NEW s \in Rank
               PROVE
        /\ GhostsDone(s)' => round[s] = Migrations(iter'[s]) + iter'[s] + 1
        /\ BeforeMigrate(s)' => round[s] + 1 = Migrations(iter'[s]) + iter'[s]
        /\ ~GhostsDone(s)' /\ ~BeforeMigrate(s)'
              => round[s] = Migrations(iter'[s]) + iter'[s]
        /\ pc'[s] \in {"compute", "done"} => mode'[s] = "ghost"
        /\ pc'[s] = "lb" => mode'[s] = "migrate" /\ iter'[s] \in lbAt
        /\ mode'[s] = "migrate" => iter'[s] > 0
        /\ mode'[s] = "migrate" /\ pc'[s] # "lb" => iter'[s] \notin lbAt
    BY <1>1, <2>2 DEF Schedule, TypeOK, Migrations
  <2>4. CASE s # r
    BY <1>1, <2>4 DEF Schedule, GhostsDone, BeforeMigrate
  <2>5. CASE s = r
    <3>1. CASE iter[r] + 1 \in lbAt
      BY <1>1, <2>1, <2>3, <2>5, <3>1 DEF GhostsDone, BeforeMigrate
    <3>2. CASE iter[r] + 1 \notin lbAt
      BY <1>1, <2>1, <2>3, <2>5, <3>2 DEF GhostsDone, BeforeMigrate
    <3> QED
      BY <3>1, <3>2
  <2> QED
    BY <2>4, <2>5
<1> QED
  BY <1>4, <1>6, <1>7, <1>8, <1>9

(* Load balancing: nobody is in an exchange, so nothing is sorted and no   *)
(* message is under way.                                                   *)
LEMMA LoadBalanceKeeps ==
  ASSUME IInv, TypeOK', OutFinite', LoadBalance
  PROVE  IInv'
<1> USE DEF IInv
<1>1. /\ \A r \in Rank : /\ pc[r] = "lb" /\ pc'[r] = "enter"
                         /\ mode'[r] = "ghost"
      /\ UNCHANGED <<lbAt, iter, peer, expected, out, counts, wire, round>>
  BY DEF LoadBalance
<1>2. wire = {} /\ \A s, d \in Rank : out[s][d] = {}
  <2>1. \A m \in wire : /\ m.dst \in Rank
                        /\ pc[m.dst] \in {"send", "recv", "isend", "drain"}
    BY DEF RoundIsolation, TypeOK, Message
  <2>2. wire = {}
    BY <1>1, <2>1
  <2>3. \A s, d \in Rank : out[s][d] = {}
    BY <1>1 DEF OutInTime, Sorted
  <2> QED
    BY <2>2, <2>3
<1>3. /\ \A s, d \in Rank : Heard(d, s)' <=> Heard(d, s)
      /\ \A s, d \in Rank : ToldN(s, d)' = ToldN(s, d)
      /\ \A s, d \in Rank : HeardN(d, s)' = HeardN(d, s)
  <2>1. \A q \in Rank :
           \/ pc'[q] = pc[q] /\ peer'[q] = peer[q]
           \/ pc[q] \notin {"send", "recv"} /\ pc'[q] \notin {"send", "recv"}
    BY <1>1
  <2> QED
    BY <1>1, <2>1, Quiet
<1>4. \A s, d \in Rank : \A k : Owes(s, d, k)' <=> Owes(s, d, k)
  BY <1>1 DEF Owes, InBuffer, InMessage
<1>5. Channels' /\ Announced' /\ Expecting'
  BY <1>1, <1>3, <1>4, SameDebts
<1>6. OutInTime' /\ WireInTime' /\ RoundIsolation'
  BY <1>1, <1>2 DEF OutInTime, WireInTime, RoundIsolation
<1>7. Schedule'
  BY <1>1 DEF Schedule, Migrations, GhostsDone, BeforeMigrate
<1> QED
  BY <1>5, <1>6, <1>7

-----------------------------------------------------------------------------
(***************************************************************************)
(* The invariant holds at the start and after every step.                  *)
(***************************************************************************)
LEMMA InitIInv == Init => IInv
<1> SUFFICES ASSUME Init PROVE IInv
  OBVIOUS
<1>1. TypeOK /\ OutFinite
  BY InitTyped DEF Typed
<1>2. /\ \A s, d \in Rank : out[s][d] = {} /\ counts[s][d] = <<>>
      /\ wire = {}
      /\ \A r \in Rank : /\ pc[r] = "enter" /\ mode[r] = "ghost"
                         /\ round[r] = 0 /\ iter[r] = 0 /\ expected[r] = 0
  BY DEF Init, Empty
<1>3. \A s, d \in Rank : ~Owes(s, d, round[d])
  BY <1>2 DEF Owes, InBuffer, InMessage
<1>4. Channels /\ Announced
  BY <1>2 DEF Channels, Announced, HeardN, ToldN, Heard, Told
<1>5. Expecting
  BY <1>2, <1>3, FS_EmptySet DEF Expecting, Debtors
<1>6. OutInTime /\ WireInTime /\ RoundIsolation
  BY <1>2 DEF OutInTime, WireInTime, RoundIsolation
<1>7. Schedule
  <2>1. Migrations(0) = 0
    <3>1. (1..0) \ lbAt = {}
      OBVIOUS
    <3> QED
      BY <3>1, FS_EmptySet DEF Migrations
  <2> QED
    BY <1>2, <2>1 DEF Schedule, GhostsDone, BeforeMigrate
<1> QED
  BY <1>1, <1>4, <1>5, <1>6, <1>7 DEF IInv

LEMMA NextIInv == IInv /\ [Next]_vars => IInv'
<1> SUFFICES ASSUME IInv, [Next]_vars PROVE IInv'
  OBVIOUS
<1>1. TypeOK' /\ OutFinite'
  BY NextTyped DEF IInv, Typed
<1>2. ASSUME NEW r \in Rank, EnterMigrate(r) \/ EnterGhost(r) PROVE IInv'
  BY <1>1, <1>2, EnterKeeps
<1>3. ASSUME NEW r \in Rank, SendCount(r) PROVE IInv'
  BY <1>1, <1>3, SendCountKeeps
<1>4. ASSUME NEW r \in Rank, RecvCount(r) PROVE IInv'
  BY <1>1, <1>4, RecvCountKeeps
<1>5. ASSUME NEW r \in Rank, Isend(r) PROVE IInv'
  BY <1>1, <1>5, IsendKeeps
<1>6. ASSUME NEW r \in Rank, Recv(r) PROVE IInv'
  BY <1>1, <1>6, RecvKeeps
<1>7. ASSUME NEW r \in Rank, Waitall(r) PROVE IInv'
  BY <1>1, <1>7, WaitallKeeps
<1>8. ASSUME NEW r \in Rank, Compute(r) PROVE IInv'
  BY <1>1, <1>8, ComputeKeeps
<1>9. ASSUME LoadBalance PROVE IInv'
  BY <1>1, <1>9, LoadBalanceKeeps
<1>10. ASSUME UNCHANGED vars PROVE IInv'
  <2> USE <1>10 DEF vars, IInv
  <2>1. \A s, d \in Rank : \A k : Owes(s, d, k)' <=> Owes(s, d, k)
    BY DEF Owes, InBuffer, InMessage
  <2>2. Channels' /\ Announced' /\ Expecting'
    BY <2>1, SameDebts, Quiet
  <2>3. OutInTime' /\ WireInTime' /\ RoundIsolation'
    BY DEF OutInTime, WireInTime, RoundIsolation, Sorted, InExchange
  <2>4. Schedule'
    BY DEF Schedule, Migrations, GhostsDone, BeforeMigrate
  <2> QED
    BY <1>1, <2>2, <2>3, <2>4
<1> QED
  BY <1>2, <1>3, <1>4, <1>5, <1>6, <1>7, <1>8, <1>9, <1>10
     DEF Next, RankStep, Finished

(* The bookkeeping of get_invert_list is right at every step of every      *)
(* interleaving: recv_count is the number of ranks that have announced     *)
(* elements and still owe them, and every count under way belongs to the   *)
(* exchange its receiver will take it for.                                 *)
THEOREM Bookkeeping == Spec => []IInv
  BY InitIInv, NextIInv, PTL DEF Spec

(* MPI_Probe(MPI_ANY_SOURCE, tag) in migrate_data and exchange_data never  *)
(* sees a message of another exchange than the one its caller is in, though*)
(* the message does not say which one it was sent in.                      *)
THEOREM Isolation == Spec => []RoundIsolation
<1>1. IInv => RoundIsolation
  BY DEF IInv
<1> QED
  BY <1>1, Bookkeeping, PTL

-----------------------------------------------------------------------------
(***************************************************************************)
(* What else follows from the bookkeeping.                                 *)
(***************************************************************************)

(* No rank enters an exchange while another has yet to leave the one but   *)
(* last, so the blocking MPI_Send of get_invert_list needs room for two    *)
(* counts from a rank to another at most, and for one to itself.           *)
THEOREM Skew == Spec => []BoundedSkew
<1>1. IInv => BoundedSkew
  <2> SUFFICES ASSUME IInv, NEW r \in Rank, NEW s \in Rank
               PROVE  /\ round[r] <= round[s] + 1
                      /\ Len(counts[r][s]) <= (IF r = s THEN 1 ELSE 2)
    BY DEF BoundedSkew
  <2> USE DEF IInv
  <2>1. round[r] <= round[s] + 1
    BY OneAhead
  <2>2. HeardN(s, r) + Len(counts[r][s]) = ToldN(r, s)
    BY DEF Channels
  <2>3. /\ ToldN(r, s) \in Int /\ HeardN(s, r) \in Int
        /\ Len(counts[r][s]) \in Nat /\ round[r] \in Nat /\ round[s] \in Nat
        /\ ToldN(r, s) <= round[r] /\ round[s] - 1 <= HeardN(s, r)
    BY ToldType
  <2> QED
    BY <2>1, <2>2, <2>3
<1> QED
  BY <1>1, Bookkeeping, PTL

(* When the last rank leaves its last exchange MPI holds nothing that      *)
(* get_invert_list, migrate_data or exchange_data sent.                    *)
THEOREM Leftovers == Spec => []NothingLeftOver
<1>1. IInv => NothingLeftOver
  <2> SUFFICES ASSUME IInv, \A r \in Rank : pc[r] = "done"
               PROVE  /\ wire = {}
                      /\ \A r, s \in Rank : counts[r][s] = <<>> /\ out[r][s] = {}
    BY DEF NothingLeftOver
  <2> USE DEF IInv
  <2>1. wire = {}
    <3>1. \A m \in wire : m.dst \in Rank
      BY WireRanks
    <3>2. \A m \in wire : pc[m.dst] # "done"
      BY <3>1 DEF RoundIsolation
    <3> QED
      BY <3>1, <3>2
  <2>2. \A r, s \in Rank : out[r][s] = {}
    BY DEF OutInTime, Sorted
  <2>3. ASSUME NEW r \in Rank, NEW s \in Rank PROVE counts[r][s] = <<>>
    <3>1. round[r] <= round[s] /\ round[s] <= round[r]
      BY NotAhead
    <3>2. HeardN(s, r) = round[s] /\ ToldN(r, s) = round[r]
      BY DEF HeardN, ToldN, Heard, Told
    <3>3. HeardN(s, r) + Len(counts[r][s]) = ToldN(r, s)
      BY DEF Channels
    <3>4. Len(counts[r][s]) = 0
      BY <3>1, <3>2, <3>3, ToldType
    <3>5. counts[r][s] \in Seq(Nat)
      BY ToldType
    <3> HIDE DEF IInv
    <3> QED
      BY <3>4, <3>5
  <2> QED
    BY <2>1, <2>2, <2>3
<1> QED
  BY <1>1, Bookkeeping, PTL


-----------------------------------------------------------------------------
(***************************************************************************)
(* Which exchange a rank is in says which iteration it is in.              *)
(***************************************************************************)

(* The exchanges entered by the end of the migration of iteration n.       *)
Turn(n) == Migrations(n) + n

LEMMA TurnType == ASSUME NEW n \in Nat PROVE Turn(n) \in Nat
<1>1. Migrations(n) \in Nat
  BY MigrationsType
<1> QED
  BY <1>1 DEF Turn

LEMMA TurnGrows ==
  ASSUME NEW n \in Nat, NEW k \in Nat, n < k
  PROVE  /\ Turn(n) + 1 <= Turn(k)
         /\ k \notin lbAt => Turn(n) + 2 <= Turn(k)
<1>1. k - 1 \in Nat /\ n <= k - 1 /\ (k - 1) + 1 = k
  OBVIOUS
<1>2. Migrations(k) = IF k \in lbAt THEN Migrations(k - 1)
                                    ELSE Migrations(k - 1) + 1
  BY <1>1, MigrationsStep
<1>3. Migrations(n) <= Migrations(k - 1)
  BY <1>1, MigrationsMonotone
<1>4. Migrations(n) \in Nat /\ Migrations(k - 1) \in Nat
  BY <1>1, MigrationsType
<1> QED
  BY <1>1, <1>2, <1>3, <1>4 DEF Turn

(* Schedule in these terms.                                                *)
LEMMA TurnOf ==
  ASSUME IInv, NEW r \in Rank
  PROVE  /\ iter[r] \in Nat /\ round[r] \in Nat /\ Turn(iter[r]) \in Nat
         /\ GhostsDone(r) => round[r] = Turn(iter[r]) + 1
         /\ BeforeMigrate(r) => round[r] + 1 = Turn(iter[r])
         /\ ~GhostsDone(r) /\ ~BeforeMigrate(r) => round[r] = Turn(iter[r])
<1>1. iter[r] \in Nat /\ round[r] \in Nat
  BY DEF IInv, TypeOK
<1> QED
  BY <1>1, TurnType DEF IInv, Schedule, Turn

(* Two ranks in the same exchange are in the same iteration.               *)
LEMMA SameIter ==
  ASSUME IInv, NEW r \in Rank, NEW s \in Rank,
         InExchange(r), InExchange(s), round[r] = round[s]
  PROVE  mode[r] = mode[s] /\ iter[r] = iter[s]
<1>1. mode[r] = mode[s]
  BY SameMode DEF IInv
<1>2. /\ GhostsDone(r) <=> GhostsDone(s)
      /\ ~BeforeMigrate(r) /\ ~BeforeMigrate(s)
  BY <1>1 DEF GhostsDone, BeforeMigrate, InExchange
<1>3. Turn(iter[r]) = Turn(iter[s]) /\ iter[r] \in Nat /\ iter[s] \in Nat
  BY <1>2, TurnOf
<1>4. ~(iter[r] < iter[s]) /\ ~(iter[s] < iter[r])
  BY <1>3, TurnGrows, TurnType
<1> QED
  BY <1>1, <1>3, <1>4

(* A rank that has left the counts of the ghost exchange has no rank in or *)
(* before the migration of its iteration.                                  *)
LEMMA PastMigration ==
  ASSUME IInv, NEW r \in Rank, NEW s \in Rank,
         GhostsDone(r), pc[r] \notin {"send", "recv"}, ~GhostsDone(s)
  PROVE  iter[r] < iter[s]
<1>1. round[r] <= round[s]
  BY NotAhead DEF IInv
<1>2. /\ round[r] = Turn(iter[r]) + 1 /\ round[s] <= Turn(iter[s])
      /\ iter[r] \in Nat /\ iter[s] \in Nat
      /\ round[r] \in Nat /\ round[s] \in Nat
      /\ Turn(iter[r]) \in Nat /\ Turn(iter[s]) \in Nat
  BY TurnOf
<1>3. ~(iter[s] < iter[r])
  BY <1>1, <1>2, TurnGrows
<1>4. iter[s] # iter[r]
  BY <1>1, <1>2
<1> QED
  BY <1>2, <1>3, <1>4

(* A rank about to leave a migration has no other rank before it.          *)
LEMMA LeavesLast ==
  ASSUME IInv, NEW r \in Rank, NEW s \in Rank,
         pc[r] = "drain", mode[r] = "migrate"
  PROVE  /\ iter[r] <= iter[s]
         /\ ~BeforeMigrate(s)
         /\ pc[s] # "lb"
<1>1. round[r] <= round[s] /\ (pc[s] \in {"lb", "enter"} => round[s] <= round[r])
  BY NotAhead DEF IInv
<1>2. ~GhostsDone(r) /\ ~BeforeMigrate(r) /\ iter[r] \notin lbAt
  BY DEF GhostsDone, BeforeMigrate, IInv, Schedule
<1>3. /\ round[r] = Turn(iter[r]) /\ round[r] \in Nat
      /\ iter[r] \in Nat /\ iter[s] \in Nat /\ round[s] \in Nat
      /\ Turn(iter[r]) \in Nat /\ Turn(iter[s]) \in Nat
      /\ round[s] <= Turn(iter[s]) + 1
  BY <1>2, TurnOf
<1>4. iter[r] <= iter[s]
  <2>1. CASE iter[s] < iter[r]
    <3>1. Turn(iter[s]) + 2 <= Turn(iter[r])
      BY <1>2, <1>3, <2>1, TurnGrows
    <3> QED
      BY <1>1, <1>3, <3>1
  <2> QED
    BY <1>3, <2>1
<1>5. ~BeforeMigrate(s)
  <2> SUFFICES ASSUME BeforeMigrate(s) PROVE FALSE
    OBVIOUS
  <2>1. round[s] + 1 = Turn(iter[s]) /\ round[s] = round[r]
    BY <1>1, <1>3, TurnOf DEF BeforeMigrate
  <2>2. iter[s] \notin lbAt
    BY DEF BeforeMigrate, IInv, Schedule
  <2>3. iter[r] < iter[s] => Turn(iter[r]) + 2 <= Turn(iter[s])
    BY <1>3, <2>2, TurnGrows
  <2> QED
    BY <1>3, <1>4, <2>1, <2>3
<1>6. pc[s] # "lb"
  <2> SUFFICES ASSUME pc[s] = "lb" PROVE FALSE
    OBVIOUS
  <2>1. iter[s] \in lbAt /\ ~GhostsDone(s) /\ ~BeforeMigrate(s)
    BY DEF GhostsDone, BeforeMigrate, IInv, Schedule
  <2>2. round[s] = Turn(iter[s]) /\ round[s] = round[r]
    BY <1>1, <1>3, <2>1, TurnOf
  <2>3. iter[r] < iter[s]
    BY <1>2, <1>3, <1>4, <2>1
  <2>4. Turn(iter[r]) + 1 <= Turn(iter[s])
    BY <1>3, <2>3, TurnGrows
  <2> QED
    BY <1>3, <2>2, <2>4
<1> QED
  BY <1>4, <1>5, <1>6

(* Ranks that wait for the load balancer are in the same iteration.        *)
LEMMA BalanceTogether ==
  ASSUME IInv, \A r \in Rank : pc[r] = "lb", NEW r \in Rank, NEW s \in Rank
  PROVE  iter[r] = iter[s]
<1>1. round[r] <= round[s] /\ round[s] <= round[r]
  BY NotAhead DEF IInv
<1>2. /\ ~GhostsDone(r) /\ ~BeforeMigrate(r)
      /\ ~GhostsDone(s) /\ ~BeforeMigrate(s)
  BY DEF GhostsDone, BeforeMigrate, IInv, Schedule
<1>3. /\ round[r] = Turn(iter[r]) /\ round[s] = Turn(iter[s])
      /\ iter[r] \in Nat /\ iter[s] \in Nat
      /\ Turn(iter[r]) \in Nat /\ Turn(iter[s]) \in Nat
  BY <1>2, TurnOf
<1>4. ~(iter[r] < iter[s]) /\ ~(iter[s] < iter[r])
  BY <1>1, <1>3, TurnGrows
<1> QED
  BY <1>3, <1>4

-----------------------------------------------------------------------------
(***************************************************************************)
(* Where the particles are: Delivered.                                     *)
(***************************************************************************)

(* Only particles are buffered or in a message.                            *)
LEMMA PlacesTyped ==
  ASSUME TypeOK
  PROVE  /\ \A s, d \in Rank : Buffered(s, d) \subseteq Particle
         /\ \A m \in wire : Flying(m) \subseteq Particle
<1>1. \A s, d \in Rank : out[s][d] \in SUBSET Copy
  BY DEF TypeOK
<1>2. \A m \in wire : m.body \in SUBSET Copy
  BY DEF TypeOK, Message
<1> QED
  BY <1>1, <1>2 DEF Buffered, Flying, Gids, Copy

(* A rank that is not sorting or telling has nothing in its buffers.       *)
LEMMA NothingSorted ==
  ASSUME IInv, NEW s \in Rank, ~Sorted(s)
  PROVE  \A d \in Rank : out[s][d] = {} /\ Buffered(s, d) = {}
<1>1. \A d \in Rank : out[s][d] = {}
  BY DEF IInv, OutInTime
<1> QED
  BY <1>1 DEF Buffered, Gids

(* A step that moves no particle from one place to another.                *)
LEMMA SamePlaces ==
  ASSUME Once,
         els' = els,
         \A s, d \in Rank : Buffered(s, d)' = Buffered(s, d),
         \A m : m.tag = 300 => (m \in wire' <=> m \in wire)
  PROVE  Once'
<1>1. \A m, p : p \in Flying(m) => (m \in wire' <=> m \in wire)
  BY DEF Flying
<1>2. \A m, p : (p \in Flying(m))' <=> p \in Flying(m)
  BY DEF Flying, Gids
<1> QED
  BY <1>1, <1>2 DEF Once

(* The same when it is no step of the integration either, and no rank goes *)
(* past the exchange it has to enter or the load balancing it waits for.   *)
LEMMA SameParticles ==
  ASSUME Once, Addressed, Residents,
         UNCHANGED <<cut, pos, step, els, iter>>,
         \A s, d \in Rank : Buffered(s, d)' = Buffered(s, d),
         \A m : m.tag = 300 => (m \in wire' <=> m \in wire),
         \A r \in Rank : /\ pc[r] = "lb" => pc'[r] = "lb"
                         /\ BeforeMigrate(r) => BeforeMigrate(r)'
  PROVE  Once' /\ Addressed' /\ Residents'
<1>1. Once'
  BY SamePlaces
<1>2. \A p : HomeOf(p)' = HomeOf(p)
  BY DEF HomeOf
<1>3. \A m, p : p \in Flying(m) => (m \in wire' <=> m \in wire)
  BY DEF Flying
<1>4. \A m, p : (p \in Flying(m))' <=> p \in Flying(m)
  BY DEF Flying, Gids
<1>5. Addressed'
  BY <1>2, <1>3, <1>4 DEF Addressed
<1>6. Residents'
  BY <1>2 DEF Residents
<1> QED
  BY <1>1, <1>5, <1>6

(* The copies made of some particles name just these.                      *)
LEMMA GidsOfCopies ==
  ASSUME NEW S
  PROVE  Gids({CopyOf(p) : p \in S}) = S
<1> DEFINE T == {CopyOf(p) : p \in S}
<1>1. \A p \in S : CopyOf(p) \in T /\ CopyOf(p).gid = p
  BY DEF CopyOf
<1>2. \A c \in T : \E p \in S : c = CopyOf(p)
  OBVIOUS
<1> HIDE DEF T
<1>3. {c.gid : c \in T} = S
  BY <1>1, <1>2
<1> QED
  BY <1>3 DEF Gids, T

LEMMA SameBehind ==
  ASSUME Behind, UNCHANGED <<mode, iter>>,
         \A r \in Rank : pc'[r] = "compute" => pc[r] = "compute"
  PROVE  Behind'
  BY DEF Behind

(* migrate_data sorts: what leaves the vector is in exactly one buffer.    *)
LEMMA EnterMigrateDelivers ==
  ASSUME IInv, Delivered, NEW r \in Rank, EnterMigrate(r)
  PROVE  Delivered'
<1>1. /\ TypeOK
      /\ Once /\ Addressed /\ Residents /\ Behind
  BY DEF IInv, Delivered
<1>2. /\ pc[r] = "enter" /\ mode[r] = "migrate" /\ BeforeMigrate(r)
      /\ pc'[r] = AfterSort
      /\ \A s \in Rank : s # r => pc'[s] = pc[s] /\ els'[s] = els[s]
                                  /\ out'[s] = out[s]
      /\ els'[r] = {p \in els[r] : HomeOf(p) = r}
      /\ mode' = mode /\ wire' = wire /\ iter' = iter
      /\ step' = step /\ pos' = pos /\ cut' = cut
  BY <1>1 DEF EnterMigrate, EnterCommon, Kept, BeforeMigrate, TypeOK
<1>3. \A p \in Particle : HomeOf(p)' = HomeOf(p) /\ HomeOf(p) \in Rank
  BY <1>1, <1>2, PartitionAssumption DEF HomeOf, TypeOK
<1>4. \A s, d \in Rank : s # r => Buffered(s, d)' = Buffered(s, d)
  BY <1>2 DEF Buffered
<1>5. \A d \in Rank : Buffered(r, d)' = {p \in els[r] : HomeOf(p) = d /\ d # r}
  <2> SUFFICES ASSUME NEW d \in Rank
               PROVE  Buffered(r, d)' = MigrateTo(r, d)
    BY DEF MigrateTo
  <2>1. out'[r][d] = {CopyOf(p) : p \in MigrateTo(r, d)}
    BY <1>1 DEF EnterMigrate, TypeOK
  <2>2. Gids({CopyOf(p) : p \in MigrateTo(r, d)}) = MigrateTo(r, d)
    BY GidsOfCopies
  <2> QED
    BY <1>2, <2>1, <2>2 DEF Buffered
<1>6. \A d \in Rank : Buffered(r, d) = {}
  BY <1>2, NothingSorted DEF Sorted
<1>7. \A m, p : (p \in Flying(m))' <=> p \in Flying(m)
  BY DEF Flying, Gids
<1>8. /\ \A m \in wire : Flying(m) \subseteq Particle
      /\ \A s \in Rank : els[s] \subseteq Particle
  BY <1>1, PlacesTyped DEF TypeOK
<1>9. Once'
  <2> SUFFICES ASSUME NEW p \in Particle
               PROVE
        (/\ \/ \E x \in Rank : p \in els[x]
            \/ \E s, d \in Rank : p \in Buffered(s, d)
            \/ \E m \in wire : p \in Flying(m)
         /\ \A x, s \in Rank : p \in els[x] /\ p \in els[s] => x = s
         /\ \A s, d, t, e \in Rank :
              p \in Buffered(s, d) /\ p \in Buffered(t, e) => s = t /\ d = e
         /\ \A m, n \in wire : p \in Flying(m) /\ p \in Flying(n) => m = n
         /\ \A x, s, d \in Rank : p \in els[x] => p \notin Buffered(s, d)
         /\ \A m \in wire : p \in Flying(m) =>
              \A x, s \in Rank : p \notin els[x] /\ p \notin Buffered(x, s))'
    BY DEF Once
  <2>1. \A x \in Rank : p \in els'[x] => p \in els[x]
    BY <1>2
  <2>2. \A s, d \in Rank : p \in Buffered(s, d)' =>
           \/ s # r /\ p \in Buffered(s, d)
           \/ s = r /\ p \in els[r] /\ HomeOf(p) = d /\ d # r
    BY <1>4, <1>5
  <2>3. CASE p \in els[r]
    <3>1. p \in els'[r] \/ p \in Buffered(r, HomeOf(p))'
      BY <1>2, <1>3, <1>5, <2>3
    <3> QED
      BY <1>1, <1>2, <1>3, <1>7, <2>1, <2>2, <2>3, <3>1 DEF Once
  <2>4. CASE p \notin els[r]
    <3>1. \A x \in Rank : p \in els'[x] <=> p \in els[x]
      BY <1>2, <2>4
    <3>2. \A s, d \in Rank : p \in Buffered(s, d)' <=> p \in Buffered(s, d)
      BY <1>4, <1>5, <1>6, <2>4
    <3> QED
      BY <1>1, <1>2, <1>7, <3>1, <3>2 DEF Once
  <2> QED
    BY <2>3, <2>4
<1>10. Addressed'
  <2>1. \A s, d \in Rank : \A p \in Buffered(s, d)' :
          HomeOf(p)' = d /\ step'[p] = iter'[s]
    BY <1>1, <1>2, <1>3, <1>4, <1>5, <1>8 DEF Addressed, Residents, HomeOf
  <2>2. \A m \in wire' : \A p \in Flying(m) :
          HomeOf(p)' = m.dst /\ step'[p] = iter'[m.dst]
    BY <1>1, <1>2, <1>3, <1>8 DEF Addressed
  <2> QED
    BY <1>7, <2>1, <2>2 DEF Addressed
<1>11. Residents'
  BY <1>1, <1>2, <1>3, <1>8 DEF Residents, BeforeMigrate
<1>12. Behind'
  BY <1>1, <1>2, SameBehind DEF AfterSort
<1> QED
  BY <1>9, <1>10, <1>11, <1>12 DEF Delivered

(* The messages a rank posts: one for each destination it has elements for.*)
LEMMA PostedFacts ==
  ASSUME NEW r \in Rank
  PROVE  /\ \A m \in Posted(r) :
              /\ m.tag = Tag(mode[r]) /\ m.src = r /\ m.dst \in Rank
              /\ m.rnd = round[r] /\ m.body = out[r][m.dst]
              /\ out[r][m.dst] # {}
         /\ \A d \in Rank :
              out[r][d] # {} => \E m \in Posted(r) : m.dst = d
         /\ \A m, n \in Posted(r) : m.dst = n.dst => m = n
<1> DEFINE msg(d) == [tag |-> Tag(mode[r]), src |-> r, dst |-> d,
                      rnd |-> round[r], body |-> out[r][d]]
<1>1. /\ \A m \in Posted(r) :
           \E d \in Rank : out[r][d] # {} /\ m = msg(d)
      /\ \A d \in Rank : out[r][d] # {} => msg(d) \in Posted(r)
  BY DEF Posted
<1>2. \A d : /\ msg(d).tag = Tag(mode[r]) /\ msg(d).src = r
             /\ msg(d).dst = d /\ msg(d).rnd = round[r]
             /\ msg(d).body = out[r][d]
  OBVIOUS
<1> HIDE DEF msg
<1>3. \A m \in Posted(r) :
         /\ m.tag = Tag(mode[r]) /\ m.src = r /\ m.dst \in Rank
         /\ m.rnd = round[r] /\ m.body = out[r][m.dst]
         /\ out[r][m.dst] # {}
  BY <1>1, <1>2
<1>4. \A d \in Rank : out[r][d] # {} => \E m \in Posted(r) : m.dst = d
  BY <1>1, <1>2
<1>5. \A m, n \in Posted(r) : m.dst = n.dst => m = n
  BY <1>1, <1>2
<1> QED
  BY <1>3, <1>4, <1>5

(* Posting: the receivers are in the exchange, and so in the iteration.    *)
LEMMA IsendReaches ==
  ASSUME IInv, IInv', NEW r \in Rank, Isend(r), NEW m \in Posted(r)
  PROVE  /\ m.dst # r /\ InExchange(m.dst) /\ pc'[m.dst] = pc[m.dst]
         /\ mode[m.dst] = mode[r] /\ iter[m.dst] = iter[r]
<1>1. m \in wire' /\ m.src = r /\ m.dst \in Rank /\ m.rnd = round[r]
  BY PostedFacts DEF Isend
<1>2. m.dst # r
  BY <1>1 DEF IInv, WireInTime
<1>3. round'[m.dst] = round[r] /\ InExchange(m.dst)'
  BY <1>1 DEF IInv, RoundIsolation, InExchange
<1>4. /\ round' = round /\ pc'[m.dst] = pc[m.dst]
      /\ pc[r] = "isend"
  BY <1>1, <1>2 DEF Isend, IInv, TypeOK
<1>5. InExchange(m.dst) /\ InExchange(r)
  BY <1>3, <1>4 DEF InExchange
<1> QED
  BY <1>1, <1>2, <1>3, <1>4, <1>5, SameIter

LEMMA IsendDelivers ==
  ASSUME IInv, IInv', Delivered, NEW r \in Rank, Isend(r)
  PROVE  Delivered'
<1>1. /\ TypeOK
      /\ Once /\ Addressed /\ Residents /\ Behind
  BY DEF IInv, Delivered
<1>2. /\ pc[r] = "isend" /\ pc'[r] = "drain"
      /\ \A s \in Rank : s # r => pc'[s] = pc[s] /\ out'[s] = out[s]
      /\ \A d \in Rank : out'[r][d] = {}
      /\ wire' = wire \cup Posted(r)
      /\ els' = els /\ mode' = mode /\ iter' = iter
      /\ step' = step /\ pos' = pos /\ cut' = cut
  BY <1>1 DEF Isend, TypeOK, Empty
<1>3. \A p : HomeOf(p)' = HomeOf(p)
  BY <1>2 DEF HomeOf
<1>4. /\ \A s, d \in Rank : s # r => Buffered(s, d)' = Buffered(s, d)
      /\ \A d \in Rank : Buffered(r, d)' = {}
  BY <1>2 DEF Buffered, Gids
<1>5. \A m, p : (p \in Flying(m))' <=> p \in Flying(m)
  BY DEF Flying, Gids
<1>6. \A m \in Posted(r) : m.dst \in Rank /\ Flying(m) = Buffered(r, m.dst)
  <2>1. mode[r] \in Tags
    BY <1>1 DEF TypeOK
  <2> QED
    BY <2>1, PostedFacts DEF Flying, Buffered, Tag, Tags
<1>7. \A d \in Rank : \A p \in Buffered(r, d) :
         \E m \in Posted(r) : p \in Flying(m)
  <2>1. \A d \in Rank : Buffered(r, d) # {} => out[r][d] # {}
    BY DEF Buffered, Gids
  <2> QED
    BY <1>6, <2>1, PostedFacts
<1>8. Once'
  <2> SUFFICES ASSUME NEW p \in Particle
               PROVE
        (/\ \/ \E x \in Rank : p \in els[x]
            \/ \E s, d \in Rank : p \in Buffered(s, d)
            \/ \E m \in wire : p \in Flying(m)
         /\ \A x, s \in Rank : p \in els[x] /\ p \in els[s] => x = s
         /\ \A s, d, t, e \in Rank :
              p \in Buffered(s, d) /\ p \in Buffered(t, e) => s = t /\ d = e
         /\ \A m, n \in wire : p \in Flying(m) /\ p \in Flying(n) => m = n
         /\ \A x, s, d \in Rank : p \in els[x] => p \notin Buffered(s, d)
         /\ \A m \in wire : p \in Flying(m) =>
              \A x, s \in Rank : p \notin els[x] /\ p \notin Buffered(x, s))'
    BY DEF Once
  <2>1. \A s, d \in Rank :
          p \in Buffered(s, d)' => s # r /\ p \in Buffered(s, d)
    BY <1>4
  <2>2. \A m, n \in wire' : p \in Flying(m) /\ p \in Flying(n) => m = n
    <3>1. \A m, n \in Posted(r) : p \in Flying(m) /\ p \in Flying(n) => m = n
      BY <1>1, <1>6, PostedFacts DEF Once
    <3>2. \A m \in wire : \A n \in Posted(r) :
            ~(p \in Flying(m) /\ p \in Flying(n))
      BY <1>1, <1>6 DEF Once
    <3> QED
      BY <1>1, <1>2, <3>1, <3>2 DEF Once
  <2>3. \A m \in wire' : p \in Flying(m) =>
          \A x, s \in Rank : p \notin els[x] /\ p \notin Buffered(x, s)'
    BY <1>1, <1>2, <1>6, <2>1 DEF Once
  <2>4. \/ \E x \in Rank : p \in els[x]
        \/ \E s, d \in Rank : p \in Buffered(s, d)'
        \/ \E m \in wire' : p \in Flying(m)
    BY <1>1, <1>2, <1>4, <1>7 DEF Once
  <2> QED
    BY <1>1, <1>2, <1>5, <2>1, <2>2, <2>3, <2>4 DEF Once
<1>9. Addressed'
  <2>1. \A s, d \in Rank : \A p \in Buffered(s, d)' :
          HomeOf(p)' = d /\ step'[p] = iter'[s]
    BY <1>1, <1>2, <1>3, <1>4 DEF Addressed
  <2>2. \A m \in wire' : \A p \in Flying(m) :
          HomeOf(p)' = m.dst /\ step'[p] = iter'[m.dst]
    BY <1>1, <1>2, <1>3, <1>6, IsendReaches DEF Addressed
  <2> QED
    BY <1>5, <2>1, <2>2 DEF Addressed
<1>10. Residents'
  BY <1>1, <1>2, <1>3 DEF Residents, BeforeMigrate
<1>11. Behind'
  BY <1>1, <1>2, SameBehind
<1> QED
  BY <1>8, <1>9, <1>10, <1>11 DEF Delivered

(* What a probe can match, and where its elements go.                      *)
LEMMA RecvFacts ==
  ASSUME TypeOK, RoundIsolation, NEW r \in Rank, Recv(r)
  PROVE  \E m \in wire :
            /\ m.dst = r /\ m.tag = Tag(mode[r]) /\ m.body \in SUBSET Copy
            /\ wire' = wire \ {m}
            /\ mode[r] = "migrate" =>
                  /\ els'[r] = els[r] \cup Flying(m)
                  /\ \A s \in Rank : s # r => els'[s] = els[s]
                  /\ remote' = remote
            /\ mode[r] = "ghost" =>
                  /\ els' = els
                  /\ remote'[r] = remote[r] \cup m.body
                  /\ \A s \in Rank : s # r => remote'[s] = remote[s]
<1>1. PICK m \in Matches(r) :
         /\ wire' = wire \ {m}
         /\ els' = IF mode[r] = "migrate"
                   THEN [els EXCEPT ![r] = @ \cup Gids(m.body)] ELSE els
         /\ remote' = IF mode[r] = "ghost"
                      THEN [remote EXCEPT ![r] = @ \cup m.body] ELSE remote
  BY DEF Recv
<1>2. m \in wire /\ m.dst = r /\ m.tag = Tag(mode[r])
  BY <1>1 DEF Matches
<1>3. m.body \in SUBSET Copy
  BY <1>2 DEF TypeOK, Message
<1>4. mode[r] = "migrate" => Gids(m.body) = Flying(m)
  BY <1>2 DEF Flying, Tag
<1> QED
  BY <1>1, <1>2, <1>3, <1>4 DEF TypeOK

LEMMA RecvDelivers ==
  ASSUME IInv, Delivered, NEW r \in Rank, Recv(r)
  PROVE  Delivered'
<1>1. /\ TypeOK /\ RoundIsolation
      /\ Once /\ Addressed /\ Residents /\ Behind
  BY DEF IInv, Delivered
<1>2. /\ pc[r] = "drain" /\ pc' = pc /\ out' = out /\ mode' = mode
      /\ iter' = iter /\ step' = step /\ pos' = pos /\ cut' = cut
  BY DEF Recv
<1>3. PICK m \in wire :
            /\ m.dst = r /\ m.tag = Tag(mode[r]) /\ m.body \in SUBSET Copy
            /\ wire' = wire \ {m}
            /\ mode[r] = "migrate" =>
                  /\ els'[r] = els[r] \cup Flying(m)
                  /\ \A s \in Rank : s # r => els'[s] = els[s]
                  /\ remote' = remote
            /\ mode[r] = "ghost" =>
                  /\ els' = els
                  /\ remote'[r] = remote[r] \cup m.body
                  /\ \A s \in Rank : s # r => remote'[s] = remote[s]
  BY <1>1, RecvFacts
<1>4. \A s, d \in Rank : Buffered(s, d)' = Buffered(s, d)
  BY <1>2 DEF Buffered
<1>5. \A p : HomeOf(p)' = HomeOf(p)
  BY <1>2 DEF HomeOf
<1>6. Behind'
  BY <1>1, <1>2, SameBehind
<1>7. CASE mode[r] = "ghost"
  <2>1. \A n : n.tag = 300 => (n \in wire' <=> n \in wire)
    BY <1>3, <1>7 DEF Tag
  <2>2. \A q \in Rank : /\ pc[q] = "lb" => pc'[q] = "lb"
                        /\ BeforeMigrate(q) => BeforeMigrate(q)'
    BY <1>2 DEF BeforeMigrate
  <2> QED
    BY <1>1, <1>2, <1>3, <1>4, <1>6, <1>7, <2>1, <2>2, SameParticles
       DEF Delivered
<1>8. CASE mode[r] = "migrate"
  <2>1. \A n, p : (p \in Flying(n))' <=> p \in Flying(n)
    BY DEF Flying, Gids
  <2>2. \A s \in Rank, p \in Particle :
           p \in els'[s] <=> p \in els[s] \/ (s = r /\ p \in Flying(m))
    BY <1>3, <1>8
  <2>3. Once'
    <3> SUFFICES ASSUME NEW p \in Particle
                 PROVE
        (/\ \/ \E x \in Rank : p \in els[x]
            \/ \E s, d \in Rank : p \in Buffered(s, d)
            \/ \E n \in wire : p \in Flying(n)
         /\ \A x, s \in Rank : p \in els[x] /\ p \in els[s] => x = s
         /\ \A s, d, t, e \in Rank :
              p \in Buffered(s, d) /\ p \in Buffered(t, e) => s = t /\ d = e
         /\ \A n, o \in wire : p \in Flying(n) /\ p \in Flying(o) => n = o
         /\ \A x, s, d \in Rank : p \in els[x] => p \notin Buffered(s, d)
         /\ \A n \in wire : p \in Flying(n) =>
              \A x, s \in Rank : p \notin els[x] /\ p \notin Buffered(x, s))'
      BY DEF Once
    <3>1. \A n \in wire' : n \in wire /\ n # m
      BY <1>3
    <3>2. \A n \in wire : n = m \/ n \in wire'
      BY <1>3
    <3> QED
      BY <1>1, <1>4, <2>1, <2>2, <3>1, <3>2 DEF Once
  <2>4. Addressed'
    <3>1. \A n \in wire' : n \in wire
      BY <1>3
    <3> QED
      BY <1>1, <1>2, <1>4, <1>5, <2>1, <3>1 DEF Addressed
  <2>5. Residents'
    <3>1. Flying(m) \subseteq Particle /\ \A s \in Rank : els'[s] \subseteq Particle
      BY <1>1, <1>3, <1>8, PlacesTyped DEF TypeOK
    <3>2. ASSUME NEW s \in Rank, NEW p \in els'[s]
          PROVE  /\ step'[p] = iter'[s]
                 /\ pc'[s] = "lb" \/ BeforeMigrate(s)' \/ HomeOf(p)' = s
      <4>1. p \in els[s] \/ (s = r /\ p \in Flying(m))
        BY <2>2, <3>1, <3>2
      <4> QED
        BY <1>1, <1>2, <1>3, <1>5, <4>1
           DEF Residents, Addressed, BeforeMigrate
    <3> QED
      BY <3>2 DEF Residents
  <2> QED
    BY <1>6, <2>3, <2>4, <2>5 DEF Delivered
<1>9. mode[r] \in Tags
  BY <1>1 DEF TypeOK
<1> QED
  BY <1>7, <1>8, <1>9 DEF Tags

(* The ghost exchange and the counts leave the particles alone.            *)
LEMMA EnterGhostDelivers ==
  ASSUME IInv, Delivered, NEW r \in Rank, EnterGhost(r)
  PROVE  Delivered'
<1>1. /\ TypeOK
      /\ Once /\ Addressed /\ Residents /\ Behind
  BY DEF IInv, Delivered
<1>2. /\ pc[r] = "enter" /\ mode[r] = "ghost" /\ pc'[r] = AfterSort
      /\ \A s \in Rank : s # r => pc'[s] = pc[s] /\ out'[s] = out[s]
      /\ UNCHANGED <<cut, pos, step, els, iter, mode, wire>>
  BY <1>1 DEF EnterGhost, EnterCommon, TypeOK
<1>3. \A s, d \in Rank : Buffered(s, d)' = Buffered(s, d)
  BY <1>2 DEF Buffered
<1>4. \A q \in Rank : /\ pc[q] = "lb" => pc'[q] = "lb"
                      /\ BeforeMigrate(q) => BeforeMigrate(q)'
  BY <1>2 DEF BeforeMigrate
<1>5. Once' /\ Addressed' /\ Residents'
  BY <1>1, <1>2, <1>3, <1>4, SameParticles
<1>6. Behind'
  BY <1>1, <1>2, SameBehind DEF AfterSort
<1> QED
  BY <1>5, <1>6 DEF Delivered

LEMMA CountsDeliver ==
  ASSUME IInv, Delivered, NEW r \in Rank, SendCount(r) \/ RecvCount(r)
  PROVE  Delivered'
<1>1. /\ TypeOK
      /\ Once /\ Addressed /\ Residents /\ Behind
  BY DEF IInv, Delivered
<1>2. /\ pc[r] \in {"send", "recv"} /\ pc'[r] \in {"send", "recv", "isend"}
      /\ \A s \in Rank : s # r => pc'[s] = pc[s]
      /\ UNCHANGED <<cut, pos, step, els, iter, mode, wire, out>>
  BY <1>1, LoopStep DEF SendCount, RecvCount, Places
<1>3. \A s, d \in Rank : Buffered(s, d)' = Buffered(s, d)
  BY <1>2 DEF Buffered
<1>4. \A q \in Rank : /\ pc[q] = "lb" => pc'[q] = "lb"
                      /\ BeforeMigrate(q) => BeforeMigrate(q)'
  BY <1>2 DEF BeforeMigrate
<1>5. Once' /\ Addressed' /\ Residents'
  BY <1>1, <1>2, <1>3, <1>4, SameParticles
<1>6. Behind'
  BY <1>1, <1>2, SameBehind
<1> QED
  BY <1>5, <1>6 DEF Delivered

(* Leaving an exchange: after a migration no rank is behind.               *)
LEMMA WaitallDelivers ==
  ASSUME IInv, Delivered, NEW r \in Rank, Waitall(r)
  PROVE  Delivered'
<1>1. /\ TypeOK
      /\ Once /\ Addressed /\ Residents /\ Behind
  BY DEF IInv, Delivered
<1>2. /\ pc[r] = "drain"
      /\ \A s \in Rank : s # r => pc'[s] = pc[s] /\ mode'[s] = mode[s]
      /\ UNCHANGED <<cut, pos, step, els, iter, wire, out>>
      /\ mode'[r] = "ghost"
      /\ mode[r] = "migrate" => pc'[r] = "enter"
      /\ mode[r] = "ghost" =>
            pc'[r] = IF iter[r] = MaxIter THEN "done" ELSE "compute"
      /\ mode[r] \in {"ghost", "migrate"}
  BY <1>1 DEF Waitall, TypeOK, Tags
<1>3. \A d \in Rank : out[r][d] = {} /\ Buffered(r, d) = {}
  BY <1>2, NothingSorted DEF Sorted
<1>4. \A s, d \in Rank : Buffered(s, d)' = Buffered(s, d)
  BY <1>2, <1>3 DEF Buffered
<1>5. \A q \in Rank : /\ pc[q] = "lb" => pc'[q] = "lb"
                      /\ BeforeMigrate(q) => BeforeMigrate(q)'
  BY <1>2 DEF BeforeMigrate
<1>6. Once' /\ Addressed' /\ Residents'
  BY <1>1, <1>2, <1>4, <1>5, SameParticles
<1>7. Behind'
  <2> SUFFICES ASSUME NEW q \in Rank
               PROVE  /\ mode'[q] = "ghost" =>
                            \A s \in Rank : iter[q] <= iter[s]
                      /\ iter[q] <= MaxIter
                      /\ pc'[q] = "compute" => iter[q] < MaxIter
    BY <1>2 DEF Behind
  <2>1. CASE q # r
    BY <1>1, <1>2, <2>1 DEF Behind
  <2>2. CASE q = r
    <3>1. \A s \in Rank : iter[r] <= iter[s]
      BY <1>1, <1>2, LeavesLast DEF Behind
    <3>2. iter[r] <= MaxIter /\ iter[r] \in Nat /\ MaxIter \in Nat
      BY <1>1, BoundsAssumption DEF Behind, TypeOK
    <3> QED
      BY <1>2, <2>2, <3>1, <3>2
  <2> QED
    BY <2>1, <2>2
<1> QED
  BY <1>6, <1>7 DEF Delivered

(* Computing: only the rank's own particles move, and they alone are       *)
(* integrated, as no particle of its vector is anywhere else.              *)
LEMMA ComputeDelivers ==
  ASSUME IInv, Delivered, NEW r \in Rank, Compute(r)
  PROVE  Delivered'
<1>1. /\ TypeOK /\ RoundIsolation
      /\ Once /\ Addressed /\ Residents /\ Behind
  BY DEF IInv, Delivered
<1>2. /\ pc[r] = "compute" /\ mode'[r] = "migrate" /\ mode[r] = "ghost"
      /\ iter'[r] = iter[r] + 1
      /\ pc'[r] \in {"lb", "enter"}
      /\ \A s \in Rank : s # r => /\ pc'[s] = pc[s] /\ mode'[s] = mode[s]
                                 /\ iter'[s] = iter[s]
      /\ UNCHANGED <<cut, els, out, wire>>
  BY <1>1 DEF Compute, TypeOK, IInv, Schedule
<1>3. \A p \in Particle :
         /\ p \in els[r] => step'[p] = step[p] + 1
         /\ p \notin els[r] => step'[p] = step[p] /\ pos'[p] = pos[p]
  BY DEF Compute
<1>4. \A p \in Particle : p \notin els[r] => HomeOf(p)' = HomeOf(p)
  BY <1>2, <1>3 DEF HomeOf
<1>5. \A d \in Rank : out[r][d] = {} /\ Buffered(r, d) = {}
  BY <1>2, NothingSorted DEF Sorted
<1>6. \A s, d \in Rank : Buffered(s, d)' = Buffered(s, d)
  <2>1. \A d \in Rank : Buffered(r, d)' = {}
    BY <1>2, <1>5 DEF Buffered, Gids
  <2>2. \A s, d \in Rank : s # r => Buffered(s, d)' = Buffered(s, d)
    BY <1>2 DEF Buffered
  <2> QED
    BY <1>5, <2>1, <2>2
<1>7. \A m, p : (p \in Flying(m))' <=> p \in Flying(m)
  BY DEF Flying, Gids
<1>8. Once'
  BY <1>1, <1>2, <1>6, SamePlaces
<1>9. /\ \A s, d \in Rank : Buffered(s, d) \subseteq Particle
      /\ \A m \in wire : Flying(m) \subseteq Particle
      /\ \A s \in Rank : els[s] \subseteq Particle
  BY <1>1, PlacesTyped DEF TypeOK
<1>10. Addressed'
  <2>1. ASSUME NEW s \in Rank, NEW d \in Rank, NEW p \in Buffered(s, d)
        PROVE  HomeOf(p)' = d /\ step'[p] = iter'[s]
    <3>1. p \in Particle /\ p \notin els[r] /\ s # r
      BY <1>1, <1>5, <1>9, <2>1 DEF Once
    <3> QED
      BY <1>1, <1>2, <1>3, <1>4, <3>1 DEF Addressed
  <2>2. ASSUME NEW m \in wire, NEW p \in Flying(m)
        PROVE  HomeOf(p)' = m.dst /\ step'[p] = iter'[m.dst]
    <3>1. p \in Particle /\ p \notin els[r] /\ m.dst # r /\ m.dst \in Rank
      BY <1>1, <1>2, <1>9, <2>2 DEF Once, RoundIsolation, TypeOK, Message
    <3> QED
      BY <1>1, <1>2, <1>3, <1>4, <3>1 DEF Addressed
  <2> QED
    BY <1>2, <1>6, <1>7, <2>1, <2>2 DEF Addressed
<1>11. Residents'
  <2> SUFFICES ASSUME NEW s \in Rank, NEW p \in els[s]
               PROVE  /\ step'[p] = iter'[s]
                      /\ pc'[s] = "lb" \/ BeforeMigrate(s)' \/ HomeOf(p)' = s
    BY <1>2 DEF Residents
  <2>1. p \in Particle /\ step[p] = iter[s]
    BY <1>1, <1>9 DEF Residents
  <2>2. CASE s = r
    BY <1>2, <1>3, <2>1, <2>2 DEF BeforeMigrate
  <2>3. CASE s # r
    <3>1. p \notin els[r]
      BY <1>1, <2>1, <2>3 DEF Once
    <3> QED
      BY <1>1, <1>2, <1>3, <1>4, <2>1, <2>3, <3>1
         DEF Residents, BeforeMigrate
  <2> QED
    BY <2>2, <2>3
<1>12. Behind'
  <2>1. \A s \in Rank : iter[s] \in Nat /\ MaxIter \in Nat
    BY <1>1, BoundsAssumption DEF TypeOK
  <2>2. \A s \in Rank : iter[s] <= iter'[s]
    BY <1>2, <2>1
  <2>3. iter[r] + 1 <= MaxIter
    BY <1>1, <1>2, <2>1 DEF Behind
  <2> QED
    BY <1>1, <1>2, <2>1, <2>2, <2>3 DEF Behind
<1> QED
  BY <1>8, <1>10, <1>11, <1>12 DEF Delivered

(* When every rank waits for Zoltan_Do_LB no migration is under way and    *)
(* every particle is in a vector.                                          *)
LEMMA AllWait ==
  ASSUME IInv, \A r \in Rank : pc[r] = "lb"
  PROVE  /\ wire = {} /\ \A s, d \in Rank : out[s][d] = {}
         /\ \A s, d \in Rank : Buffered(s, d) = {}
         /\ Once => \A p \in Particle : \E r \in Rank : p \in els[r]
<1>1. wire = {}
  <2>1. \A m \in wire : m.dst \in Rank /\ pc[m.dst] # "lb"
    BY DEF IInv, RoundIsolation, TypeOK, Message
  <2> QED
    BY <2>1
<1>2. \A s, d \in Rank : out[s][d] = {} /\ Buffered(s, d) = {}
  BY NothingSorted DEF Sorted
<1> QED
  BY <1>1, <1>2 DEF Once

LEMMA LoadBalanceDelivers ==
  ASSUME IInv, Delivered, LoadBalance
  PROVE  Delivered'
<1>1. /\ TypeOK
      /\ Once /\ Addressed /\ Residents /\ Behind
  BY DEF IInv, Delivered
<1>2. /\ \A r \in Rank : /\ pc[r] = "lb" /\ pc'[r] = "enter"
                         /\ mode'[r] = "ghost"
      /\ cut' \in Cuts /\ pos' = pos /\ step' = step
      /\ iter' = iter /\ wire' = wire /\ out' = out
      /\ \A r \in Rank : els'[r] = {p \in Particle : Owner[cut'][pos[p]] = r}
  BY DEF LoadBalance
<1>3. /\ wire = {} /\ \A s, d \in Rank : out[s][d] = {}
      /\ \A p \in Particle : \E r \in Rank : p \in els[r]
  BY <1>1, <1>2, AllWait
<1>4. \A r, s \in Rank : iter[r] = iter[s]
  BY <1>2, BalanceTogether
<1>5. \A s, d \in Rank : Buffered(s, d)' = {}
  BY <1>2, <1>3 DEF Buffered, Gids
<1>6. \A p \in Particle : HomeOf(p)' = Owner[cut'][pos[p]]
                          /\ HomeOf(p)' \in Rank
  BY <1>1, <1>2, PartitionAssumption DEF HomeOf, TypeOK
<1>7. Once'
  BY <1>2, <1>3, <1>5, <1>6 DEF Once
<1>8. Addressed'
  BY <1>2, <1>3, <1>5 DEF Addressed
<1>9. Residents'
  <2>1. \A p \in Particle, r \in Rank : step[p] = iter[r]
    BY <1>1, <1>3, <1>4 DEF Residents
  <2> QED
    BY <1>2, <1>6, <2>1 DEF Residents
<1>10. Behind'
  <2>1. \A r \in Rank : iter[r] \in Nat
    BY <1>1 DEF TypeOK
  <2> QED
    BY <1>1, <1>2, <1>4, <2>1 DEF Behind
<1> QED
  BY <1>7, <1>8, <1>9, <1>10 DEF Delivered

LEMMA InitDelivered ==
  ASSUME Init PROVE Delivered
<1>1. /\ \A r \in Rank : /\ pc[r] = "enter" /\ mode[r] = "ghost"
                         /\ iter[r] = 0
                         /\ els[r] = {p \in Particle : HomeOf(p) = r}
      /\ \A p \in Particle : step[p] = 0
      /\ wire = {} /\ \A s, d \in Rank : Buffered(s, d) = {}
  BY DEF Init, Buffered
<1>2. \A p \in Particle : HomeOf(p) \in Rank
  BY PartitionAssumption DEF Init, HomeOf
<1>3. Once /\ Addressed /\ Residents
  BY <1>1, <1>2 DEF Once, Addressed, Residents
<1>4. Behind
  BY <1>1, BoundsAssumption DEF Behind
<1> QED
  BY <1>3, <1>4 DEF Delivered

LEMMA StutterDelivers ==
  ASSUME Delivered, UNCHANGED vars PROVE Delivered'
<1>1. /\ Once /\ Addressed /\ Residents /\ Behind
      /\ UNCHANGED <<cut, pos, step, els, iter, mode, pc, out, wire>>
  BY DEF Delivered, vars
<1>2. \A s, d \in Rank : Buffered(s, d)' = Buffered(s, d)
  BY <1>1 DEF Buffered
<1>3. \A q \in Rank : BeforeMigrate(q)' <=> BeforeMigrate(q)
  BY <1>1 DEF BeforeMigrate
<1>4. Once' /\ Addressed' /\ Residents'
  BY <1>1, <1>2, <1>3, SameParticles
<1>5. Behind'
  BY <1>1, SameBehind
<1> QED
  BY <1>4, <1>5 DEF Delivered

LEMMA NextDelivered ==
  ASSUME IInv, IInv', Delivered, [Next]_vars
  PROVE  Delivered'
<1>1. ASSUME NEW r \in Rank, EnterMigrate(r) PROVE Delivered'
  BY <1>1, EnterMigrateDelivers
<1>2. ASSUME NEW r \in Rank, EnterGhost(r) PROVE Delivered'
  BY <1>2, EnterGhostDelivers
<1>3. ASSUME NEW r \in Rank, SendCount(r) \/ RecvCount(r) PROVE Delivered'
  BY <1>3, CountsDeliver
<1>4. ASSUME NEW r \in Rank, Isend(r) PROVE Delivered'
  BY <1>4, IsendDelivers
<1>5. ASSUME NEW r \in Rank, Recv(r) PROVE Delivered'
  BY <1>5, RecvDelivers
<1>6. ASSUME NEW r \in Rank, Waitall(r) PROVE Delivered'
  BY <1>6, WaitallDelivers
<1>7. ASSUME NEW r \in Rank, Compute(r) PROVE Delivered'
  BY <1>7, ComputeDelivers
<1>8. ASSUME LoadBalance PROVE Delivered'
  BY <1>8, LoadBalanceDelivers
<1>9. ASSUME UNCHANGED vars PROVE Delivered'
  BY <1>9, StutterDelivers
<1> QED
  BY <1>1, <1>2, <1>3, <1>4, <1>5, <1>6, <1>7, <1>8, <1>9
     DEF Next, RankStep, Finished

LEMMA AlwaysDelivered == Spec => [](IInv /\ Delivered)
<1>1. Init => IInv /\ Delivered
  BY InitIInv, InitDelivered
<1>2. IInv /\ Delivered /\ [Next]_vars => (IInv /\ Delivered)'
  BY NextIInv, NextDelivered
<1> QED
  BY <1>1, <1>2, PTL DEF Spec

(* migrate_data and the automatic migration of Zoltan neither lose nor     *)
(* double a particle, at any step of any interleaving of the ranks.        *)
THEOREM Conserved == Spec => []Conservation
<1>1. ASSUME Once, NEW p \in Particle
      PROVE  Cardinality({r \in Rank : p \in els[r]})
               + Cardinality({sd \in Rank \X Rank :
                                p \in Buffered(sd[1], sd[2])})
               + Cardinality({m \in wire : p \in Flying(m)}) = 1
  <2> DEFINE atRank == {r \in Rank : p \in els[r]}
             inBuf  == {sd \in Rank \X Rank : p \in Buffered(sd[1], sd[2])}
             inWire == {m \in wire : p \in Flying(m)}
  <2>0. ASSUME NEW x PROVE Cardinality({}) = 0 /\ Cardinality({x}) = 1
    BY FS_EmptySet, FS_Singleton
  <2>1. CASE \E r \in Rank : p \in els[r]
    <3>1. PICK r \in Rank : p \in els[r]
      BY <2>1
    <3>2. atRank = {r} /\ inBuf = {} /\ inWire = {}
      BY <1>1, <3>1 DEF Once
    <3>3. Cardinality(atRank) = 1 /\ Cardinality(inBuf) = 0
          /\ Cardinality(inWire) = 0
      BY <2>0, <3>2
    <3> QED
      BY <3>3
  <2>2. CASE \E s, d \in Rank : p \in Buffered(s, d)
    <3>1. PICK s \in Rank, d \in Rank : p \in Buffered(s, d)
      BY <2>2
    <3>2. atRank = {} /\ inBuf = {<<s, d>>} /\ inWire = {}
      BY <1>1, <3>1 DEF Once
    <3>3. Cardinality(atRank) = 0 /\ Cardinality(inBuf) = 1
          /\ Cardinality(inWire) = 0
      BY <2>0, <3>2
    <3> QED
      BY <3>3
  <2>3. CASE \E m \in wire : p \in Flying(m)
    <3>1. PICK m \in wire : p \in Flying(m)
      BY <2>3
    <3>2. atRank = {} /\ inBuf = {} /\ inWire = {m}
      BY <1>1, <3>1 DEF Once
    <3>3. Cardinality(atRank) = 0 /\ Cardinality(inBuf) = 0
          /\ Cardinality(inWire) = 1
      BY <2>0, <3>2
    <3> QED
      BY <3>3
  <2> QED
    BY <1>1, <2>1, <2>2, <2>3 DEF Once
<1>2. Delivered => Conservation
  BY <1>1 DEF Delivered, Conservation
<1> QED
  BY <1>2, AlwaysDelivered, PTL

(* A particle with as many steps as a rank about to compute, in its region *)
(* or near it, is in a vector: the migration of that iteration is over.    *)
LEMMA InAVector ==
  ASSUME IInv, Delivered, NEW r \in Rank, pc[r] = "compute",
         NEW p \in Particle, step[p] = iter[r]
  PROVE  \E s \in Rank : p \in els[s] /\ iter[s] = iter[r] /\ GhostsDone(s)
<1>1. /\ TypeOK /\ RoundIsolation
      /\ Once /\ Addressed /\ Residents
  BY DEF IInv, Delivered
<1>2. GhostsDone(r)
  BY DEF GhostsDone, IInv, Schedule
<1>3. \A s \in Rank : iter[s] = iter[r] => GhostsDone(s)
  <2> SUFFICES ASSUME NEW s \in Rank, iter[s] = iter[r], ~GhostsDone(s)
               PROVE  FALSE
    OBVIOUS
  <2>1. iter[r] < iter[s] /\ iter[r] \in Nat
    BY <1>1, <1>2, PastMigration DEF TypeOK
  <2> QED
    BY <2>1
<1>4. \A s, d \in Rank : p \notin Buffered(s, d)
  <2> SUFFICES ASSUME NEW s \in Rank, NEW d \in Rank, p \in Buffered(s, d)
               PROVE  FALSE
    OBVIOUS
  <2>1. mode[s] = "migrate"
    BY DEF Buffered
  <2>2. iter[s] = iter[r]
    BY <1>1 DEF Addressed
  <2> QED
    BY <1>3, <2>1, <2>2 DEF GhostsDone
<1>5. \A m \in wire : p \notin Flying(m)
  <2> SUFFICES ASSUME NEW m \in wire, p \in Flying(m) PROVE FALSE
    OBVIOUS
  <2>1. m.dst \in Rank /\ m.tag = 300 /\ m.tag = Tag(mode[m.dst])
    BY <1>1 DEF Flying, TypeOK, Message, RoundIsolation
  <2>2. iter[m.dst] = iter[r]
    BY <1>1 DEF Addressed
  <2> QED
    BY <1>3, <2>1, <2>2 DEF GhostsDone, Tag
<1>6. PICK s \in Rank : p \in els[s]
  BY <1>1, <1>4, <1>5 DEF Once
<1>7. iter[s] = iter[r]
  BY <1>1, <1>6 DEF Residents
<1> QED
  BY <1>3, <1>6, <1>7

(* compute_one_step integrates a particle exactly once per iteration, on   *)
(* the rank of its region.                                                 *)
THEOREM OncePerIteration == Spec => []IntegratedOnce
<1>1. ASSUME IInv, Delivered PROVE IntegratedOnce
  <2> SUFFICES ASSUME NEW r \in Rank, pc[r] = "compute"
               PROVE  /\ \A p \in els[r] : step[p] = iter[r] /\ HomeOf(p) = r
                      /\ \A p \in Particle :
                           HomeOf(p) = r /\ step[p] = iter[r] => p \in els[r]
    BY DEF IntegratedOnce
  <2>1. Residents
    BY <1>1 DEF Delivered
  <2>2. \A p \in els[r] : step[p] = iter[r] /\ HomeOf(p) = r
    BY <2>1 DEF Residents, BeforeMigrate
  <2>3. ASSUME NEW p \in Particle, HomeOf(p) = r, step[p] = iter[r]
        PROVE  p \in els[r]
    <3>1. PICK s \in Rank : p \in els[s] /\ GhostsDone(s)
      BY <1>1, <2>3, InAVector
    <3>2. pc[s] # "lb" /\ ~BeforeMigrate(s)
      BY <1>1, <3>1 DEF GhostsDone, BeforeMigrate, IInv, Schedule
    <3> QED
      BY <2>1, <2>3, <3>1, <3>2 DEF Residents
  <2> QED
    BY <2>2, <2>3
<1> QED
  BY <1>1, AlwaysDelivered, PTL

-----------------------------------------------------------------------------
(***************************************************************************)
(* Where the copies are: Gathered.                                         *)
(***************************************************************************)

(* A step that touches neither a particle nor a copy.                      *)
LEMMA SameCopies ==
  ASSUME Gathered,
         UNCHANGED <<cut, pos, step, els, remote, iter, wire, out>>,
         \A q \in Rank : GhostsDone(q)' <=> GhostsDone(q),
         \A q \in Rank : \/ mode'[q] = "ghost" => mode[q] = "ghost"
                         \/ \A d \in Rank : out[q][d] = {}
  PROVE  Gathered'
<1>1. CopiesInTime /\ Copied
  BY DEF Gathered
<1>2. CopiesInTime'
  BY <1>1 DEF CopiesInTime
<1>3. \A p : CopyOf(p)' = CopyOf(p)
  BY DEF CopyOf
<1>4. Copied'
  BY <1>1, <1>3 DEF Copied, Given
<1> QED
  BY <1>2, <1>4 DEF Gathered

(* migrate_data sorts after the rank's ghosts were used.                   *)
LEMMA EnterMigrateGathers ==
  ASSUME IInv, Gathered, NEW r \in Rank, EnterMigrate(r)
  PROVE  Gathered'
<1>1. TypeOK /\ CopiesInTime /\ Copied
  BY DEF IInv, Gathered
<1>2. /\ pc[r] = "enter" /\ mode[r] = "migrate"
      /\ \A s \in Rank : s # r => pc'[s] = pc[s] /\ els'[s] = els[s]
                                  /\ out'[s] = out[s]
      /\ \A s \in Rank : els'[s] \subseteq els[s]
      /\ UNCHANGED <<mode, wire, iter, step, pos, cut, remote>>
  BY <1>1 DEF EnterMigrate, EnterCommon, Kept, TypeOK
<1>3. \A q \in Rank : GhostsDone(q)' <=> GhostsDone(q)
  BY <1>2 DEF GhostsDone
<1>4. CopiesInTime'
  <2>1. \A s, d \in Rank : mode'[s] = "ghost" =>
          \A c \in out'[s][d] : c.step = iter'[s] /\ c.gid \in els'[s]
    BY <1>1, <1>2 DEF CopiesInTime
  <2>2. \A m \in wire' : m.tag = 400 =>
          \A c \in m.body : c.step = iter'[m.dst] /\ c.gid \notin els'[m.dst]
    <3>1. \A m \in wire : m.dst \in Rank
      BY <1>1 DEF TypeOK, Message
    <3> QED
      BY <1>1, <1>2, <3>1 DEF CopiesInTime
  <2>3. \A q \in Rank : GhostsDone(q)' =>
          \A c \in remote'[q] : c.step = iter'[q] /\ c.gid \notin els'[q]
    BY <1>1, <1>2, <1>3 DEF CopiesInTime
  <2> QED
    BY <2>1, <2>2, <2>3 DEF CopiesInTime
<1>5. \A p : CopyOf(p)' = CopyOf(p)
  BY <1>2 DEF CopyOf
<1>6. Copied'
  <2>1. ~GhostsDone(r)
    BY <1>2 DEF GhostsDone
  <2> QED
    BY <1>1, <1>2, <1>3, <1>5, <2>1 DEF Copied, Given
<1> QED
  BY <1>4, <1>6 DEF Gathered

(* exchange_data sorts: a copy of every particle near another rank.        *)
LEMMA EnterGhostGathers ==
  ASSUME IInv, Delivered, Gathered, NEW r \in Rank, EnterGhost(r)
  PROVE  Gathered'
<1>1. TypeOK /\ Residents /\ CopiesInTime /\ Copied
  BY DEF IInv, Delivered, Gathered
<1>2. /\ pc[r] = "enter" /\ mode[r] = "ghost" /\ pc'[r] = AfterSort
      /\ remote'[r] = {}
      /\ \A s \in Rank : s # r => pc'[s] = pc[s] /\ out'[s] = out[s]
                                  /\ remote'[s] = remote[s]
      /\ \A d \in Rank : out'[r][d] = {CopyOf(p) : p \in GhostTo(r, d)}
      /\ UNCHANGED <<mode, wire, iter, step, pos, cut, els>>
  BY <1>1 DEF EnterGhost, EnterCommon, NoGhosts, TypeOK
<1>3. \A q \in Rank : q # r => (GhostsDone(q)' <=> GhostsDone(q))
  BY <1>2 DEF GhostsDone
<1>4. CopiesInTime'
  <2>1. ASSUME NEW d \in Rank, NEW c \in out'[r][d]
        PROVE  c.step = iter[r] /\ c.gid \in els[r]
    <3>1. PICK p \in GhostTo(r, d) : c = CopyOf(p)
      BY <1>2, <2>1
    <3>2. p \in els[r] /\ step[p] = iter[r]
      BY <1>1, <3>1 DEF GhostTo, Residents
    <3> QED
      BY <3>1, <3>2 DEF CopyOf
  <2>2. \A s, d \in Rank : mode'[s] = "ghost" =>
          \A c \in out'[s][d] : c.step = iter'[s] /\ c.gid \in els'[s]
    BY <1>1, <1>2, <2>1 DEF CopiesInTime
  <2>3. \A q \in Rank : GhostsDone(q)' =>
          \A c \in remote'[q] : c.step = iter'[q] /\ c.gid \notin els'[q]
    BY <1>1, <1>2, <1>3 DEF CopiesInTime
  <2> QED
    BY <1>1, <1>2, <2>2, <2>3 DEF CopiesInTime
<1>5. \A p : CopyOf(p)' = CopyOf(p)
  BY <1>2 DEF CopyOf
<1>6. Copied'
  <2> SUFFICES ASSUME NEW s \in Rank, NEW x \in Rank, s # x, GhostsDone(s)',
                      iter[s] = iter[x], NEW p \in els[s],
                      x \in Near[cut][pos[p]]
               PROVE  Given(s, x, CopyOf(p))'
    BY <1>2 DEF Copied
  <2>1. CASE s = r
    <3>1. p \in GhostTo(r, x)
      BY <2>1 DEF GhostTo
    <3> QED
      BY <1>2, <1>5, <2>1, <3>1 DEF Given
  <2>2. CASE s # r
    <3>1. Given(s, x, CopyOf(p))
      BY <1>1, <1>3, <2>2 DEF Copied
    <3>2. x = r => ~GhostsDone(x)
      BY <1>2 DEF GhostsDone
    <3> QED
      BY <1>2, <1>3, <1>5, <2>2, <3>1, <3>2 DEF Given
  <2> QED
    BY <2>1, <2>2
<1> QED
  BY <1>4, <1>6 DEF Gathered

LEMMA CountsGather ==
  ASSUME IInv, Gathered, NEW r \in Rank, SendCount(r) \/ RecvCount(r)
  PROVE  Gathered'
<1>1. TypeOK
  BY DEF IInv
<1>2. /\ pc[r] \in {"send", "recv"} /\ pc'[r] \in {"send", "recv", "isend"}
      /\ \A s \in Rank : s # r => pc'[s] = pc[s]
      /\ UNCHANGED <<cut, pos, step, els, remote, iter, mode, wire, out>>
  BY <1>1, LoopStep DEF SendCount, RecvCount, Places
<1>3. \A q \in Rank : GhostsDone(q)' <=> GhostsDone(q)
  BY <1>2 DEF GhostsDone
<1> QED
  BY <1>2, <1>3, SameCopies

LEMMA WaitallGathers ==
  ASSUME IInv, Gathered, NEW r \in Rank, Waitall(r)
  PROVE  Gathered'
<1>1. TypeOK
  BY DEF IInv
<1>2. /\ pc[r] = "drain"
      /\ \A s \in Rank : s # r => pc'[s] = pc[s] /\ mode'[s] = mode[s]
      /\ UNCHANGED <<cut, pos, step, els, remote, iter, wire, out>>
      /\ mode'[r] = "ghost"
      /\ mode[r] # "ghost" => pc'[r] = "enter"
      /\ mode[r] = "ghost" => pc'[r] # "enter"
  BY <1>1 DEF Waitall, TypeOK, Tags
<1>3. \A d \in Rank : out[r][d] = {}
  BY <1>2, NothingSorted DEF Sorted
<1>4. \A q \in Rank : GhostsDone(q)' <=> GhostsDone(q)
  BY <1>2 DEF GhostsDone
<1> QED
  BY <1>2, <1>3, <1>4, SameCopies

(* Posting copies to ranks that are gathering, and do not hold what they   *)
(* are copies of.                                                          *)
LEMMA IsendGathers ==
  ASSUME IInv, IInv', Delivered, Gathered, NEW r \in Rank, Isend(r)
  PROVE  Gathered'
<1>1. TypeOK /\ Once /\ CopiesInTime /\ Copied
  BY DEF IInv, Delivered, Gathered
<1>2. /\ pc[r] = "isend" /\ pc'[r] = "drain"
      /\ \A s \in Rank : s # r => pc'[s] = pc[s] /\ out'[s] = out[s]
      /\ \A d \in Rank : out'[r][d] = {}
      /\ wire' = wire \cup Posted(r)
      /\ UNCHANGED <<cut, pos, step, els, remote, iter, mode>>
  BY <1>1 DEF Isend, TypeOK, Empty
<1>3. \A q \in Rank : GhostsDone(q)' <=> GhostsDone(q)
  BY <1>2 DEF GhostsDone
<1>4. mode[r] \in {"ghost", "migrate"}
  BY <1>1 DEF TypeOK, Tags
<1>5. ASSUME NEW m \in Posted(r), m.tag = 400, NEW c \in m.body
      PROVE  c.step = iter[m.dst] /\ c.gid \notin els[m.dst]
  <2>1. m.dst \in Rank /\ c \in out[r][m.dst] /\ mode[r] = "ghost"
    BY <1>4, <1>5, PostedFacts DEF Tag
  <2>2. c.step = iter[r] /\ c.gid \in els[r] /\ c.gid \in Particle
    BY <1>1, <2>1 DEF CopiesInTime, TypeOK
  <2>3. m.dst # r /\ iter[m.dst] = iter[r]
    BY <1>5, IsendReaches
  <2> QED
    BY <1>1, <2>1, <2>2, <2>3 DEF Once
<1>6. CopiesInTime'
  <2>1. \A s, d \in Rank : mode'[s] = "ghost" =>
          \A c \in out'[s][d] : c.step = iter'[s] /\ c.gid \in els'[s]
    BY <1>1, <1>2 DEF CopiesInTime
  <2>2. \A m \in wire' : m.tag = 400 =>
          \A c \in m.body : c.step = iter'[m.dst] /\ c.gid \notin els'[m.dst]
    BY <1>1, <1>2, <1>5 DEF CopiesInTime
  <2>3. \A q \in Rank : GhostsDone(q)' =>
          \A c \in remote'[q] : c.step = iter'[q] /\ c.gid \notin els'[q]
    BY <1>1, <1>2, <1>3 DEF CopiesInTime
  <2> QED
    BY <2>1, <2>2, <2>3 DEF CopiesInTime
<1>7. \A p : CopyOf(p)' = CopyOf(p)
  BY <1>2 DEF CopyOf
<1>8. ASSUME NEW s \in Rank, NEW x \in Rank, NEW c, GhostsDone(s),
             Given(s, x, c)
      PROVE  Given(s, x, c)'
  <2>1. CASE s = r /\ c \in out[s][x]
    <3>1. PICK m \in Posted(r) : m.dst = x
      BY <2>1, PostedFacts
    <3>2. m.tag = 400 /\ m.src = r /\ c \in m.body /\ m \in wire'
      BY <1>2, <1>8, <2>1, <3>1, PostedFacts DEF GhostsDone, Tag
    <3> QED
      BY <2>1, <3>1, <3>2 DEF Given
  <2>2. CASE ~(s = r /\ c \in out[s][x])
    BY <1>2, <1>3, <1>8, <2>2 DEF Given
  <2> QED
    BY <2>1, <2>2
<1>9. Copied'
  BY <1>1, <1>2, <1>3, <1>7, <1>8 DEF Copied
<1> QED
  BY <1>6, <1>9 DEF Gathered

(* Receiving: a copy goes from the message to the ghosts.                  *)
LEMMA RecvGathers ==
  ASSUME IInv, Gathered, NEW r \in Rank, Recv(r)
  PROVE  Gathered'
<1>1. TypeOK /\ RoundIsolation /\ CopiesInTime /\ Copied
  BY DEF IInv, Gathered
<1>2. /\ pc[r] = "drain"
      /\ UNCHANGED <<pc, out, mode, iter, step, pos, cut>>
  BY DEF Recv
<1>3. PICK m \in wire :
            /\ m.dst = r /\ m.tag = Tag(mode[r]) /\ m.body \in SUBSET Copy
            /\ wire' = wire \ {m}
            /\ mode[r] = "migrate" =>
                  /\ els'[r] = els[r] \cup Flying(m)
                  /\ \A s \in Rank : s # r => els'[s] = els[s]
                  /\ remote' = remote
            /\ mode[r] = "ghost" =>
                  /\ els' = els
                  /\ remote'[r] = remote[r] \cup m.body
                  /\ \A s \in Rank : s # r => remote'[s] = remote[s]
  BY <1>1, RecvFacts
<1>4. \A q \in Rank : GhostsDone(q)' <=> GhostsDone(q)
  BY <1>2 DEF GhostsDone
<1>5. \A p : CopyOf(p)' = CopyOf(p)
  BY <1>2 DEF CopyOf
<1>6. /\ \A n \in wire' : n \in wire /\ n # m
      /\ \A n \in wire : n \in wire' \/ n = m
      /\ \A n \in wire : n.dst \in Rank /\ n.tag = Tag(mode[n.dst])
  BY <1>1, <1>3 DEF TypeOK, Message, RoundIsolation
<1>7. CASE mode[r] = "ghost"
  <2>1. GhostsDone(r) /\ m.tag = 400
    BY <1>2, <1>3, <1>7 DEF GhostsDone, Tag
  <2>2. \A c \in m.body : c.step = iter[r] /\ c.gid \notin els[r]
    BY <1>1, <1>3, <2>1 DEF CopiesInTime
  <2>3. CopiesInTime'
    <3>1. \A s, d \in Rank : mode'[s] = "ghost" =>
            \A c \in out'[s][d] : c.step = iter'[s] /\ c.gid \in els'[s]
      BY <1>1, <1>2, <1>3, <1>7 DEF CopiesInTime
    <3>2. \A n \in wire' : n.tag = 400 =>
            \A c \in n.body : c.step = iter'[n.dst] /\ c.gid \notin els'[n.dst]
      BY <1>1, <1>2, <1>3, <1>6, <1>7 DEF CopiesInTime
    <3>3. \A q \in Rank : GhostsDone(q)' =>
            \A c \in remote'[q] : c.step = iter'[q] /\ c.gid \notin els'[q]
      BY <1>1, <1>2, <1>3, <1>4, <1>7, <2>2 DEF CopiesInTime
    <3> QED
      BY <3>1, <3>2, <3>3 DEF CopiesInTime
  <2>4. ASSUME NEW s \in Rank, NEW x \in Rank, NEW c, Given(s, x, c)
        PROVE  Given(s, x, c)'
    <3>1. CASE c \in out[s][x] \/ (GhostsDone(x) /\ c \in remote[x])
      BY <1>2, <1>3, <1>4, <1>7, <3>1 DEF Given
    <3>2. CASE \E n \in wire : /\ n.tag = 400 /\ n.src = s /\ n.dst = x
                               /\ c \in n.body
      <4>1. PICK n \in wire : /\ n.tag = 400 /\ n.src = s /\ n.dst = x
                              /\ c \in n.body
        BY <3>2
      <4>2. CASE n = m
        BY <1>3, <1>4, <1>7, <2>1, <4>1, <4>2 DEF Given
      <4>3. CASE n # m
        BY <1>6, <4>1, <4>3 DEF Given
      <4> QED
        BY <4>2, <4>3
    <3> QED
      BY <2>4, <3>1, <3>2 DEF Given
  <2>5. Copied'
    BY <1>1, <1>2, <1>3, <1>4, <1>5, <1>7, <2>4 DEF Copied
  <2> QED
    BY <2>3, <2>5 DEF Gathered
<1>8. CASE mode[r] = "migrate"
  <2>1. ~GhostsDone(r) /\ m.tag # 400
    BY <1>3, <1>8 DEF GhostsDone, Tag
  <2>2. \A n \in wire : n.tag = 400 => n.dst # r
    BY <1>6, <1>8 DEF Tag
  <2>3. CopiesInTime'
    <3>1. \A s, d \in Rank : mode'[s] = "ghost" =>
            \A c \in out'[s][d] : c.step = iter'[s] /\ c.gid \in els'[s]
      BY <1>1, <1>2, <1>3, <1>8 DEF CopiesInTime
    <3>2. \A n \in wire' : n.tag = 400 =>
            \A c \in n.body : c.step = iter'[n.dst] /\ c.gid \notin els'[n.dst]
      BY <1>1, <1>2, <1>3, <1>6, <1>8, <2>2 DEF CopiesInTime
    <3>3. \A q \in Rank : GhostsDone(q)' =>
            \A c \in remote'[q] : c.step = iter'[q] /\ c.gid \notin els'[q]
      BY <1>1, <1>2, <1>3, <1>4, <1>8, <2>1 DEF CopiesInTime
    <3> QED
      BY <3>1, <3>2, <3>3 DEF CopiesInTime
  <2>4. ASSUME NEW s \in Rank, NEW x \in Rank, NEW c, Given(s, x, c)
        PROVE  Given(s, x, c)'
    BY <1>2, <1>3, <1>4, <1>6, <1>8, <2>1, <2>4 DEF Given
  <2>5. Copied'
    BY <1>1, <1>2, <1>3, <1>4, <1>5, <1>8, <2>1, <2>4 DEF Copied
  <2> QED
    BY <2>3, <2>5 DEF Gathered
<1>9. mode[r] \in Tags
  BY <1>1 DEF TypeOK
<1> QED
  BY <1>7, <1>8, <1>9 DEF Tags

(* Computing ends what the rank's ghosts were gathered for; no rank waits  *)
(* for copies of an iteration that the computing rank now joins.           *)
LEMMA ComputeGathers ==
  ASSUME IInv, Delivered, Gathered, NEW r \in Rank, Compute(r)
  PROVE  Gathered'
<1>1. /\ TypeOK /\ RoundIsolation /\ Once /\ Behind
      /\ CopiesInTime /\ Copied
  BY DEF IInv, Delivered, Gathered
<1>2. /\ pc[r] = "compute" /\ mode'[r] = "migrate"
      /\ iter'[r] = iter[r] + 1 /\ iter[r] \in Nat
      /\ \A s \in Rank : s # r => /\ pc'[s] = pc[s] /\ mode'[s] = mode[s]
                                 /\ iter'[s] = iter[s]
      /\ UNCHANGED <<cut, els, remote, out, wire>>
  BY <1>1 DEF Compute, TypeOK
<1>3. \A p \in Particle : p \notin els[r] =>
         pos'[p] = pos[p] /\ CopyOf(p)' = CopyOf(p)
  BY DEF Compute, CopyOf
<1>4. /\ ~GhostsDone(r)'
      /\ \A q \in Rank : q # r => (GhostsDone(q)' <=> GhostsDone(q))
  BY <1>2 DEF GhostsDone
<1>5. CopiesInTime'
  <2>1. \A s, d \in Rank : mode'[s] = "ghost" =>
          \A c \in out'[s][d] : c.step = iter'[s] /\ c.gid \in els'[s]
    BY <1>1, <1>2 DEF CopiesInTime
  <2>2. \A m \in wire' : m.tag = 400 =>
          \A c \in m.body : c.step = iter'[m.dst] /\ c.gid \notin els'[m.dst]
    <3>1. \A m \in wire : m.dst \in Rank /\ m.dst # r
      BY <1>1, <1>2 DEF TypeOK, Message, RoundIsolation
    <3> QED
      BY <1>1, <1>2, <3>1 DEF CopiesInTime
  <2>3. \A q \in Rank : GhostsDone(q)' =>
          \A c \in remote'[q] : c.step = iter'[q] /\ c.gid \notin els'[q]
    BY <1>1, <1>2, <1>4 DEF CopiesInTime
  <2> QED
    BY <2>1, <2>2, <2>3 DEF CopiesInTime
<1>6. Copied'
  <2> SUFFICES ASSUME NEW s \in Rank, NEW x \in Rank, s # x, GhostsDone(s)',
                      iter'[s] = iter'[x], NEW p \in els[s],
                      x \in Near[cut][pos'[p]]
               PROVE  Given(s, x, CopyOf(p))'
    BY <1>2 DEF Copied
  <2>1. s # r /\ GhostsDone(s)
    BY <1>4
  <2>2. x # r
    <3>1. iter[s] <= iter[r] /\ iter[s] \in Nat
      BY <1>1, <2>1 DEF Behind, GhostsDone, TypeOK
    <3> QED
      BY <1>2, <2>1, <3>1
  <2>3. p \in Particle /\ p \notin els[r]
    BY <1>1, <2>1 DEF TypeOK, Once
  <2>4. Given(s, x, CopyOf(p))
    BY <1>1, <1>2, <1>3, <2>1, <2>2, <2>3 DEF Copied
  <2> QED
    BY <1>2, <1>3, <1>4, <2>2, <2>3, <2>4 DEF Given
<1> QED
  BY <1>5, <1>6 DEF Gathered

LEMMA LoadBalanceGathers ==
  ASSUME IInv, LoadBalance
  PROVE  Gathered'
<1>1. /\ \A r \in Rank : pc[r] = "lb" /\ pc'[r] = "enter"
      /\ wire' = wire /\ out' = out
  BY DEF LoadBalance
<1>2. wire = {} /\ \A s, d \in Rank : out[s][d] = {}
  BY <1>1, AllWait
<1>3. \A r \in Rank : ~GhostsDone(r)'
  BY <1>1 DEF GhostsDone
<1> QED
  BY <1>1, <1>2, <1>3 DEF Gathered, CopiesInTime, Copied

LEMMA InitGathered ==
  ASSUME Init PROVE Gathered
<1>1. /\ wire = {} /\ \A s, d \in Rank : out[s][d] = {}
      /\ \A r \in Rank : ~GhostsDone(r)
  BY DEF Init, Empty, GhostsDone
<1> QED
  BY <1>1 DEF Gathered, CopiesInTime, Copied

LEMMA NextGathered ==
  ASSUME IInv, IInv', Delivered, Gathered, [Next]_vars
  PROVE  Gathered'
<1>1. ASSUME NEW r \in Rank, EnterMigrate(r) PROVE Gathered'
  BY <1>1, EnterMigrateGathers
<1>2. ASSUME NEW r \in Rank, EnterGhost(r) PROVE Gathered'
  BY <1>2, EnterGhostGathers
<1>3. ASSUME NEW r \in Rank, SendCount(r) \/ RecvCount(r) PROVE Gathered'
  BY <1>3, CountsGather
<1>4. ASSUME NEW r \in Rank, Isend(r) PROVE Gathered'
  BY <1>4, IsendGathers
<1>5. ASSUME NEW r \in Rank, Recv(r) PROVE Gathered'
  BY <1>5, RecvGathers
<1>6. ASSUME NEW r \in Rank, Waitall(r) PROVE Gathered'
  BY <1>6, WaitallGathers
<1>7. ASSUME NEW r \in Rank, Compute(r) PROVE Gathered'
  BY <1>7, ComputeGathers
<1>8. ASSUME LoadBalance PROVE Gathered'
  BY <1>8, LoadBalanceGathers
<1>9. ASSUME UNCHANGED vars PROVE Gathered'
  <2>1. /\ UNCHANGED <<cut, pos, step, els, remote, iter, wire, out>>
        /\ mode' = mode /\ pc' = pc
    BY <1>9 DEF vars
  <2>2. \A q \in Rank : GhostsDone(q)' <=> GhostsDone(q)
    BY <2>1 DEF GhostsDone
  <2> QED
    BY <2>1, <2>2, SameCopies
<1> QED
  BY <1>1, <1>2, <1>3, <1>4, <1>5, <1>6, <1>7, <1>8, <1>9
     DEF Next, RankStep, Finished

(* Every particle is in one place and every copy is one of this iteration, *)
(* at every step of every interleaving.                                    *)
THEOREM Delivery == Spec => []DInv
<1>1. Init => DInv
  BY InitIInv, InitDelivered, InitGathered DEF DInv
<1>2. DInv /\ [Next]_vars => DInv'
  BY NextIInv, NextDelivered, NextGathered DEF DInv
<1> QED
  BY <1>1, <1>2, PTL DEF Spec

(* exchange_data gives a rank the ghosts of the step it is about to        *)
(* compute: all the particles of others near its region, and only as they  *)
(* are after the last step.                                                *)
THEOREM GhostsInTime == Spec => []GhostsCurrent
<1>1. ASSUME DInv PROVE GhostsCurrent
  <2>1. /\ IInv /\ TypeOK /\ RoundIsolation /\ OutInTime
        /\ Delivered /\ CopiesInTime /\ Copied
    BY <1>1 DEF DInv, IInv, Gathered
  <2> SUFFICES ASSUME NEW r \in Rank, pc[r] = "compute"
               PROVE
        /\ \A c \in remote[r] : c.step = iter[r] /\ c.gid \notin els[r]
        /\ \A p \in Particle \ els[r] :
              step[p] = iter[r] /\ r \in Near[cut][pos[p]]
                 => CopyOf(p) \in remote[r]
    BY DEF GhostsCurrent
  <2>2. GhostsDone(r)
    BY <2>1 DEF GhostsDone, IInv, Schedule
  <2>3. \A c \in remote[r] : c.step = iter[r] /\ c.gid \notin els[r]
    BY <2>1, <2>2 DEF CopiesInTime
  <2>4. ASSUME NEW p \in Particle \ els[r], step[p] = iter[r],
               r \in Near[cut][pos[p]]
        PROVE  CopyOf(p) \in remote[r]
    <3>1. PICK s \in Rank :
             p \in els[s] /\ iter[s] = iter[r] /\ GhostsDone(s)
      BY <2>1, <2>4, InAVector
    <3>2. Given(s, r, CopyOf(p))
      BY <2>1, <2>4, <3>1 DEF Copied
    <3>3. out[s][r] = {}
      <4>1. round[s] \in Nat /\ round[s] = round[r]
        BY <2>1, <2>2, <3>1, TurnOf
      <4> QED
        BY <2>1, <4>1 DEF OutInTime, InExchange
    <3>4. \A m \in wire : m.dst # r
      BY <2>1 DEF RoundIsolation
    <3> QED
      BY <3>2, <3>3, <3>4 DEF Given
  <2> QED
    BY <2>3, <2>4
<1> QED
  BY <1>1, Delivery, PTL

-----------------------------------------------------------------------------
(***************************************************************************)
(* The exchanges and the load balancing implement Redistribution, step by  *)
(* step: computing is Move, sorting what migrates is Enter, receiving it   *)
(* is Take, leaving the migration is Leave, Zoltan_Do_LB is Repartition,   *)
(* and everything else is invisible.                                       *)
(***************************************************************************)

LEMMA SameTransit ==
  ASSUME \A s, d \in Rank : Buffered(s, d)' = Buffered(s, d),
         \A m : m.tag = 300 => (m \in wire' <=> m \in wire)
  PROVE  Transit' = Transit
<1>1. \A m, p : p \in Flying(m) => (m \in wire' <=> m \in wire)
  BY DEF Flying
<1>2. \A m, p : (p \in Flying(m))' <=> p \in Flying(m)
  BY DEF Flying, Gids
<1> QED
  BY <1>1, <1>2 DEF Transit

(* A step that is invisible: no particle moves, and no rank changes stage. *)
LEMMA Invisible ==
  ASSUME UNCHANGED <<cut, pos, els, iter>>, Transit' = Transit,
         \A q \in Rank : Stage(q)' = Stage(q)
  PROVE  UNCHANGED Abstract!vars
<1>1. \A p \in Particle : HomeOf(p)' = HomeOf(p)
  BY DEF HomeOf
<1> QED
  BY <1>1 DEF Abstract!vars

LEMMA InitRefines ==
  ASSUME Init PROVE Abstract!Init
<1>1. /\ \A p \in Particle : HomeOf(p) \in Rank
      /\ iter = [r \in Rank |-> 0]
      /\ els = [r \in Rank |-> {p \in Particle : HomeOf(p) = r}]
      /\ \A r \in Rank : pc[r] = "enter" /\ mode[r] = "ghost"
      /\ wire = {}
      /\ \A s, d \in Rank : Buffered(s, d) = {}
  BY PartitionAssumption DEF Init, HomeOf, Buffered
<1>2. Transit = {}
  BY <1>1 DEF Transit
<1>3. \A r \in Rank : Stage(r) = "ready"
  BY <1>1 DEF Stage
<1>4. els = [r \in Rank |->
               Abstract!Held([p \in Particle |-> HomeOf(p)], r)]
  BY <1>1 DEF Abstract!Held
<1> QED
  BY <1>1, <1>2, <1>3, <1>4 DEF Abstract!Init

LEMMA ComputeRefines ==
  ASSUME DInv, NEW r \in Rank, Compute(r)
  PROVE  Abstract!Move(r)
<1>1. IInv /\ TypeOK /\ Behind
  BY DEF DInv, IInv, Delivered
<1>2. /\ pc[r] = "compute" /\ mode[r] = "ghost" /\ mode'[r] = "migrate"
      /\ iter' = [iter EXCEPT ![r] = iter[r] + 1]
      /\ pc'[r] \in {"lb", "enter"}
      /\ \A s \in Rank : s # r => pc'[s] = pc[s] /\ mode'[s] = mode[s]
      /\ UNCHANGED <<cut, els, out, wire>>
  BY <1>1 DEF Compute, TypeOK, IInv, Schedule
<1>3. PICK f \in [els[r] -> Pos] :
         pos' = [p \in Particle |-> IF p \in els[r] THEN f[p] ELSE pos[p]]
  BY DEF Compute
<1>4. els[r] \subseteq Particle /\ \A p \in Particle : HomeOf(p)' \in Rank
  <2>1. pos' \in [Particle -> Pos] /\ els[r] \subseteq Particle
    BY <1>1, <1>3 DEF TypeOK
  <2> QED
    BY <1>1, <1>2, <2>1, PartitionAssumption DEF HomeOf, TypeOK
<1>5. \E h \in [els[r] -> Rank] :
        [p \in Particle |-> HomeOf(p)]' =
          [p \in Particle |-> IF p \in els[r] THEN h[p]
                              ELSE [q \in Particle |-> HomeOf(q)][p]]
  <2> DEFINE h == [p \in els[r] |-> HomeOf(p)']
  <2>1. h \in [els[r] -> Rank]
    BY <1>4
  <2>2. \A p \in Particle : p \notin els[r] => HomeOf(p)' = HomeOf(p)
    BY <1>2, <1>3 DEF HomeOf
  <2> QED
    BY <2>1, <2>2
<1>6. Stage(r) = "ready" /\ Stage(r)' = "moved"
      /\ \A s \in Rank : s # r => Stage(s)' = Stage(s)
  BY <1>2 DEF Stage
<1>7. Transit' = Transit
  <2>1. \A d \in Rank : out[r][d] = {}
    BY <1>1, <1>2, NothingSorted DEF Sorted
  <2>2. \A s, d \in Rank : Buffered(s, d)' = Buffered(s, d)
    BY <1>2, <2>1 DEF Buffered, Gids
  <2> QED
    BY <1>2, <2>2, SameTransit
<1>8. iter[r] < MaxIter
  BY <1>1, <1>2 DEF Behind
<1>9. \A s \in Rank : Stage(s) = "inside" => iter[s] > iter[r]
  <2> SUFFICES ASSUME NEW s \in Rank, Stage(s) = "inside"
               PROVE  iter[s] > iter[r]
    OBVIOUS
  <2>1. GhostsDone(r) /\ ~GhostsDone(s)
    BY <1>2 DEF Stage, GhostsDone
  <2>2. iter[r] < iter[s]
    BY <1>1, <1>2, <2>1, PastMigration
  <2> QED
    BY <1>1, <2>2 DEF TypeOK
<1> QED
  BY <1>2, <1>5, <1>6, <1>7, <1>8, <1>9 DEF Abstract!Move

LEMMA EnterMigrateRefines ==
  ASSUME DInv, NEW r \in Rank, EnterMigrate(r)
  PROVE  \E found \in SUBSET Abstract!Left(r) : Abstract!Enter(r, found)
<1>1. IInv /\ TypeOK
  BY DEF DInv, IInv
<1>2. /\ pc[r] = "enter" /\ mode[r] = "migrate"
      /\ pc'[r] = AfterSort
      /\ \A s \in Rank : s # r => pc'[s] = pc[s] /\ out'[s] = out[s]
      /\ els' = [els EXCEPT ![r] = {p \in els[r] : HomeOf(p) = r}]
      /\ UNCHANGED <<mode, wire, iter, pos, cut>>
  BY <1>1 DEF EnterMigrate, EnterCommon, Kept, TypeOK
<1>3. \A p \in Particle : HomeOf(p)' = HomeOf(p) /\ HomeOf(p) \in Rank
  BY <1>1, <1>2, PartitionAssumption DEF HomeOf, TypeOK
<1>4. \A s, d \in Rank : s # r => Buffered(s, d)' = Buffered(s, d)
  BY <1>2 DEF Buffered
<1>5. \A d \in Rank : /\ Buffered(r, d) = {}
                      /\ Buffered(r, d)' = MigrateTo(r, d)
  <2>1. \A d \in Rank : out'[r][d] = {CopyOf(p) : p \in MigrateTo(r, d)}
    BY <1>1 DEF EnterMigrate, TypeOK
  <2>2. \A d \in Rank : Buffered(r, d) = {}
    BY <1>1, <1>2, NothingSorted DEF Sorted
  <2>3. \A d \in Rank : Buffered(r, d)' = Gids(out'[r][d])
    BY <1>2 DEF Buffered
  <2> QED
    BY <2>1, <2>2, <2>3, GidsOfCopies
<1>6. els[r] \subseteq Particle
  BY <1>1 DEF TypeOK
<1>7. Transit' = Transit \cup {p \in els[r] : HomeOf(p) # r}
  <2>1. \A m, p : (p \in Flying(m))' <=> p \in Flying(m)
    BY DEF Flying, Gids
  <2>2. ASSUME NEW p \in Particle
        PROVE  p \in Transit' <=>
                  p \in Transit \/ (p \in els[r] /\ HomeOf(p) # r)
    <3>1. (\E d \in Rank : p \in MigrateTo(r, d))
             <=> p \in els[r] /\ HomeOf(p) # r
      BY <1>3, <1>6 DEF MigrateTo
    <3>2. (\E s, d \in Rank : p \in Buffered(s, d)') <=>
             \/ \E s, d \in Rank : p \in Buffered(s, d)
             \/ \E d \in Rank : p \in MigrateTo(r, d)
      BY <1>4, <1>5
    <3> QED
      BY <1>2, <2>1, <3>1, <3>2 DEF Transit
  <2> QED
    BY <1>6, <2>2 DEF Transit
<1>8. /\ Stage(r) = "moved" /\ Stage(r)' = "inside"
      /\ \A s \in Rank : s # r => Stage(s)' = Stage(s)
  BY <1>2 DEF Stage, AfterSort
<1>9. PICK found : found = {p \in els[r] : HomeOf(p) # r}
  OBVIOUS
<1>10. Abstract!Left(r) = found
  BY <1>6, <1>9 DEF Abstract!Left
<1>11. els' = [els EXCEPT ![r] = els[r] \ found]
  <2>1. els[r] \ found = {p \in els[r] : HomeOf(p) = r}
    BY <1>9
  <2> QED
    BY <1>2, <2>1
<1>12. found \ found = {} /\ Transit' = Transit \cup found
  BY <1>7, <1>9
<1>13. Abstract!Enter(r, found)
  BY <1>2, <1>3, <1>8, <1>10, <1>11, <1>12 DEF Abstract!Enter
<1> QED
  BY <1>10, <1>13

(* A migration's message is Take; a ghost message is invisible.            *)
LEMMA RecvRefines ==
  ASSUME DInv, NEW r \in Rank, Recv(r)
  PROVE  \/ UNCHANGED Abstract!vars
         \/ \E a \in SUBSET {p \in Transit :
                               [q \in Particle |-> HomeOf(q)][p] = r} :
               Abstract!Take(r, a)
<1>1. IInv /\ TypeOK /\ RoundIsolation /\ Once /\ Addressed
  BY DEF DInv, IInv, Delivered
<1>2. /\ pc[r] = "drain"
      /\ UNCHANGED <<pc, out, mode, iter, pos, cut>>
  BY DEF Recv
<1>3. PICK m \in wire :
            /\ m.dst = r /\ m.tag = Tag(mode[r]) /\ m.body \in SUBSET Copy
            /\ wire' = wire \ {m}
            /\ mode[r] = "migrate" =>
                  /\ els'[r] = els[r] \cup Flying(m)
                  /\ \A s \in Rank : s # r => els'[s] = els[s]
                  /\ remote' = remote
            /\ mode[r] = "ghost" =>
                  /\ els' = els
                  /\ remote'[r] = remote[r] \cup m.body
                  /\ \A s \in Rank : s # r => remote'[s] = remote[s]
  BY <1>1, RecvFacts
<1>4. \A q \in Rank : Stage(q)' = Stage(q)
  BY <1>2 DEF Stage
<1>5. \A s, d \in Rank : Buffered(s, d)' = Buffered(s, d)
  BY <1>2 DEF Buffered
<1>6. Flying(m) \subseteq {p \in Transit :
                             [q \in Particle |-> HomeOf(q)][p] = r}
  <2>1. Flying(m) \subseteq Particle
    BY <1>1, PlacesTyped
  <2> QED
    BY <1>1, <1>3, <2>1 DEF Transit, Addressed
<1>7. CASE mode[r] = "ghost"
  <2>1. \A n : n.tag = 300 => (n \in wire' <=> n \in wire)
    BY <1>3, <1>7 DEF Tag
  <2>2. Transit' = Transit
    BY <1>5, <2>1, SameTransit
  <2> QED
    BY <1>2, <1>3, <1>4, <1>7, <2>2, Invisible
<1>8. CASE mode[r] = "migrate"
  <2>1. els' = [els EXCEPT ![r] = els[r] \cup Flying(m)]
    <3>0. Typed /\ Next
      BY <1>1 DEF IInv, Typed, Next, RankStep
    <3>1. TypeOK /\ TypeOK'
      BY <3>0, NextTyped DEF Typed
    <3> QED
      BY <1>3, <1>8, <3>1 DEF TypeOK
  <2>2. Transit' = Transit \ Flying(m)
    <3>1. \A n, p : (p \in Flying(n))' <=> p \in Flying(n)
      BY DEF Flying, Gids
    <3>2. ASSUME NEW p \in Particle
          PROVE  p \in Transit' <=> p \in Transit /\ p \notin Flying(m)
      <4>1. \A n : n \in wire' <=> n \in wire /\ n # m
        BY <1>3
      <4>2. p \in Flying(m) => /\ \A s, d \in Rank : p \notin Buffered(s, d)
                               /\ \A n \in wire : p \in Flying(n) => n = m
        BY <1>1 DEF Once
      <4> QED
        BY <1>5, <3>1, <4>1, <4>2 DEF Transit
    <3> QED
      BY <3>2 DEF Transit
  <2>3. Stage(r) = "inside"
    BY <1>2, <1>8 DEF Stage
  <2>4. \A p \in Particle : HomeOf(p)' = HomeOf(p)
    BY <1>2 DEF HomeOf
  <2>5. CASE Flying(m) = {}
    <3>1. els' = els /\ Transit' = Transit
      BY <1>1, <2>1, <2>2, <2>5 DEF TypeOK
    <3> QED
      BY <1>2, <1>4, <3>1, Invisible
  <2>6. CASE Flying(m) # {}
    <3>1. Abstract!Take(r, Flying(m))
      BY <1>2, <1>4, <2>1, <2>2, <2>3, <2>4, <2>6 DEF Abstract!Take
    <3> QED
      BY <1>6, <3>1
  <2> QED
    BY <2>5, <2>6
<1>9. mode[r] \in Tags
  BY <1>1 DEF TypeOK
<1> QED
  BY <1>7, <1>8, <1>9 DEF Tags

(* A rank that waits for no message has nothing migrating towards it.      *)
LEMMA NothingDue ==
  ASSUME DInv, NEW r \in Rank, mode[r] = "migrate", pc[r] = "drain",
         expected[r] = 0, NEW p \in Transit
  PROVE  HomeOf(p) # r
<1>1. /\ IInv /\ TypeOK /\ OutFinite /\ Expecting /\ WireInTime /\ OutInTime
      /\ RoundIsolation /\ Once /\ Addressed
  BY DEF DInv, IInv, Delivered
<1>2. \A s \in Rank : s # r => ~Owes(s, r, round[r])
  <2>1. IsFiniteSet(Debtors(r)) /\ Cardinality(Debtors(r)) = 0
    BY <1>1, RankFacts, FS_Subset DEF Expecting, Debtors
  <2>2. Debtors(r) = {}
    BY <2>1, FS_EmptySet
  <2> QED
    BY <2>2 DEF Debtors, Heard
<1>3. SUFFICES ASSUME HomeOf(p) = r PROVE FALSE
  OBVIOUS
<1>4. CASE \E s, d \in Rank : p \in Buffered(s, d)
  <2>1. PICK s \in Rank : p \in Buffered(s, r)
    BY <1>1, <1>3, <1>4 DEF Addressed
  <2>2. mode[s] = "migrate" /\ out[s][r] # {}
    BY <2>1 DEF Buffered, Gids
  <2>3. s # r /\ Sorted(s) /\ round[r] <= round[s]
    BY <1>1, <2>2 DEF OutInTime
  <2>4. round[s] # round[r]
    BY <1>2, <2>2, <2>3 DEF Owes, InBuffer
  <2>5. /\ ~GhostsDone(s) /\ ~BeforeMigrate(s) /\ iter[s] \notin lbAt
        /\ ~GhostsDone(r) /\ ~BeforeMigrate(r)
    BY <1>1, <2>2, <2>3
       DEF GhostsDone, BeforeMigrate, Sorted, IInv, Schedule
  <2>6. /\ round[r] = Turn(iter[r]) /\ round[s] = Turn(iter[s])
        /\ round[r] \in Nat /\ round[s] \in Nat
        /\ iter[r] \in Nat /\ iter[s] \in Nat
    BY <1>1, <2>5, TurnOf
  <2>7. round[s] <= round[r] + 1
    BY <1>1, OneAhead DEF IInv
  <2>8. CASE iter[r] < iter[s]
    <3>1. Turn(iter[r]) + 2 <= Turn(iter[s])
      BY <2>5, <2>6, <2>8, TurnGrows
    <3> QED
      BY <2>6, <2>7, <3>1
  <2>9. CASE iter[s] < iter[r]
    <3>1. Turn(iter[s]) + 1 <= Turn(iter[r])
      BY <2>6, <2>9, TurnGrows
    <3> QED
      BY <2>3, <2>6, <3>1
  <2>10. CASE iter[s] = iter[r]
    BY <2>4, <2>6, <2>10
  <2> QED
    BY <2>6, <2>8, <2>9, <2>10
<1>5. CASE \E m \in wire : p \in Flying(m)
  <2>1. PICK m \in wire : p \in Flying(m)
    BY <1>5
  <2>2. m.dst = r /\ m.src \in Rank /\ m.src # r /\ m.rnd = round[r]
    BY <1>1, <1>3, <2>1
       DEF Addressed, WireInTime, RoundIsolation, TypeOK, Message
  <2> QED
    BY <1>2, <2>1, <2>2 DEF Owes, InMessage
<1> QED
  BY <1>4, <1>5 DEF Transit

(* Leaving a migration is Leave; leaving a ghost exchange is invisible.    *)
LEMMA WaitallRefines ==
  ASSUME DInv, NEW r \in Rank, Waitall(r)
  PROVE  UNCHANGED Abstract!vars \/ Abstract!Leave(r)
<1>1. IInv /\ TypeOK
  BY DEF DInv, IInv
<1>2. /\ pc[r] = "drain" /\ expected[r] = 0
      /\ \A s \in Rank : s # r => pc'[s] = pc[s] /\ mode'[s] = mode[s]
      /\ UNCHANGED <<cut, pos, els, iter, wire, out>>
      /\ mode'[r] = "ghost"
      /\ mode[r] = "migrate" => pc'[r] = "enter"
      /\ mode[r] = "ghost" => pc'[r] \in {"done", "compute"}
      /\ mode[r] \in {"ghost", "migrate"}
  BY <1>1 DEF Waitall, Drained, TypeOK, Tags
<1>3. \A d \in Rank : out[r][d] = {}
  BY <1>1, <1>2, NothingSorted DEF Sorted
<1>4. \A s, d \in Rank : Buffered(s, d)' = Buffered(s, d)
  BY <1>2, <1>3 DEF Buffered, Gids
<1>5. Transit' = Transit
  BY <1>2, <1>4, SameTransit
<1>6. Stage(r)' = "ready" /\ \A s \in Rank : s # r => Stage(s)' = Stage(s)
  BY <1>2 DEF Stage
<1>7. CASE mode[r] = "ghost"
  <2>1. Stage(r) = "ready"
    BY <1>2, <1>7 DEF Stage
  <2> QED
    BY <1>2, <1>5, <1>6, <2>1, Invisible
<1>8. CASE mode[r] = "migrate"
  <2>1. Stage(r) = "inside"
    BY <1>2, <1>8 DEF Stage
  <2>2. \A s \in Rank : iter[s] >= iter[r] /\ Stage(s) # "moved"
    <3> SUFFICES ASSUME NEW s \in Rank
                 PROVE  iter[s] >= iter[r] /\ Stage(s) # "moved"
      OBVIOUS
    <3>1. iter[r] <= iter[s] /\ ~BeforeMigrate(s) /\ pc[s] # "lb"
      BY <1>1, <1>2, <1>8, LeavesLast
    <3> QED
      BY <1>1, <3>1 DEF Stage, BeforeMigrate, TypeOK
  <2>3. \A p \in Transit : [q \in Particle |-> HomeOf(q)][p] # r
    BY <1>2, <1>8, NothingDue DEF Transit
  <2>4. \A p \in Particle : HomeOf(p)' = HomeOf(p)
    BY <1>2 DEF HomeOf
  <2> QED
    BY <1>2, <1>5, <1>6, <2>1, <2>2, <2>3, <2>4
       DEF Abstract!Leave, Abstract!AllTaken
<1> QED
  BY <1>2, <1>7, <1>8

(* Zoltan_Do_LB between its barriers is Repartition.                       *)
LEMMA LoadBalanceRefines ==
  ASSUME DInv, LoadBalance
  PROVE  Abstract!Repartition
<1>1. IInv /\ TypeOK
  BY DEF DInv, IInv
<1>2. /\ \A r \in Rank : /\ pc[r] = "lb" /\ pc'[r] = "enter"
                         /\ mode'[r] = "ghost"
      /\ cut' \in Cuts
      /\ UNCHANGED <<pos, iter, wire, out>>
      /\ els' = [r \in Rank |-> {p \in Particle : Owner[cut'][pos[p]] = r}]
  BY DEF LoadBalance
<1>3. wire = {} /\ \A s, d \in Rank : out[s][d] = {}
  BY <1>1, <1>2, AllWait
<1>4. \A r, s \in Rank : iter[r] = iter[s]
  BY <1>1, <1>2, BalanceTogether
<1>5. \A p \in Particle : HomeOf(p)' = Owner[cut'][pos[p]]
                          /\ HomeOf(p)' \in Rank
  BY <1>1, <1>2, PartitionAssumption DEF HomeOf, TypeOK
<1>6. Transit' = Transit
  <2>1. \A s, d \in Rank : Buffered(s, d)' = Buffered(s, d)
    BY <1>2, <1>3 DEF Buffered, Gids
  <2> QED
    BY <1>2, <2>1, SameTransit
<1>7. \A r \in Rank : Stage(r) = "moved" /\ Stage(r)' = "ready"
  BY <1>2 DEF Stage
<1>8. els' = [r \in Rank |->
                Abstract!Held([p \in Particle |-> HomeOf(p)]', r)]
  BY <1>2, <1>5 DEF Abstract!Held
<1>9. [p \in Particle |-> HomeOf(p)]' \in [Particle -> Rank]
  BY <1>5
<1> QED
  BY <1>2, <1>4, <1>6, <1>7, <1>8, <1>9 DEF Abstract!Repartition

(* The ghost exchange up to its messages, the counts, and the messages of  *)
(* a migration when they are posted.                                       *)
LEMMA InvisibleSteps ==
  ASSUME DInv, NEW r \in Rank,
         EnterGhost(r) \/ SendCount(r) \/ RecvCount(r) \/ Isend(r)
  PROVE  UNCHANGED Abstract!vars
<1>1. IInv /\ TypeOK
  BY DEF DInv, IInv
<1>2. CASE EnterGhost(r)
  <2>1. /\ pc[r] = "enter" /\ mode[r] = "ghost"
        /\ \A s \in Rank : s # r => pc'[s] = pc[s] /\ out'[s] = out[s]
        /\ UNCHANGED <<cut, pos, els, iter, mode, wire>>
    BY <1>1, <1>2 DEF EnterGhost, EnterCommon, TypeOK
  <2>2. pc'[r] = AfterSort
    BY <1>1, <1>2 DEF EnterGhost, EnterCommon, TypeOK
  <2>3. \A s, d \in Rank : Buffered(s, d)' = Buffered(s, d)
    BY <2>1 DEF Buffered
  <2>4. \A q \in Rank : Stage(q)' = Stage(q)
    BY <2>1, <2>2 DEF Stage, AfterSort
  <2> QED
    BY <2>1, <2>3, <2>4, SameTransit, Invisible
<1>3. CASE SendCount(r) \/ RecvCount(r)
  <2>1. /\ pc[r] \in {"send", "recv"} /\ pc'[r] \in {"send", "recv", "isend"}
        /\ \A s \in Rank : s # r => pc'[s] = pc[s]
        /\ UNCHANGED <<cut, pos, els, iter, mode, wire, out>>
    BY <1>1, <1>3, LoopStep DEF SendCount, RecvCount, Places
  <2>2. \A s, d \in Rank : Buffered(s, d)' = Buffered(s, d)
    BY <2>1 DEF Buffered
  <2>3. \A q \in Rank : Stage(q)' = Stage(q)
    BY <2>1 DEF Stage
  <2> QED
    BY <2>1, <2>2, <2>3, SameTransit, Invisible
<1>4. CASE Isend(r)
  <2>1. /\ pc[r] = "isend" /\ pc'[r] = "drain"
        /\ \A s \in Rank : s # r => pc'[s] = pc[s] /\ out'[s] = out[s]
        /\ \A d \in Rank : out'[r][d] = {}
        /\ wire' = wire \cup Posted(r)
        /\ UNCHANGED <<cut, pos, els, iter, mode>>
    BY <1>1, <1>4 DEF Isend, TypeOK, Empty
  <2>2. \A q \in Rank : Stage(q)' = Stage(q)
    BY <2>1 DEF Stage
  <2>3. \A m, p : (p \in Flying(m))' <=> p \in Flying(m)
    BY DEF Flying, Gids
  <2>4. /\ \A s, d \in Rank : s # r => Buffered(s, d)' = Buffered(s, d)
        /\ \A d \in Rank : Buffered(r, d)' = {}
    BY <2>1 DEF Buffered, Gids
  <2>5. \A m \in Posted(r) : m.dst \in Rank /\ Flying(m) = Buffered(r, m.dst)
    <3>1. mode[r] \in Tags
      BY <1>1 DEF TypeOK
    <3> QED
      BY <3>1, PostedFacts DEF Flying, Buffered, Tag, Tags
  <2>6. \A d \in Rank : \A p \in Buffered(r, d) :
           \E m \in Posted(r) : p \in Flying(m)
    <3>1. \A d \in Rank : Buffered(r, d) # {} => out[r][d] # {}
      BY DEF Buffered, Gids
    <3> QED
      BY <2>5, <3>1, PostedFacts
  <2>7. Transit' = Transit
    <3>1. ASSUME NEW p \in Particle
          PROVE  /\ (\E s, d \in Rank : p \in Buffered(s, d)') =>
                       \E s, d \in Rank : p \in Buffered(s, d)
                 /\ (\E s, d \in Rank : p \in Buffered(s, d)) =>
                       \/ \E s, d \in Rank : p \in Buffered(s, d)'
                       \/ \E m \in wire' : p \in Flying(m)
                 /\ (\E m \in wire' : p \in Flying(m)) =>
                       \/ \E s, d \in Rank : p \in Buffered(s, d)
                       \/ \E m \in wire : p \in Flying(m)
                 /\ \A m \in wire : m \in wire'
      BY <2>1, <2>4, <2>5, <2>6
    <3> QED
      BY <2>3, <3>1 DEF Transit
  <2> QED
    BY <2>1, <2>2, <2>7, Invisible
<1> QED
  BY <1>2, <1>3, <1>4

LEMMA NextRefines ==
  ASSUME DInv, [Next]_vars
  PROVE  [Abstract!Next]_(Abstract!vars)
<1>1. ASSUME NEW r \in Rank, EnterMigrate(r) PROVE Abstract!Next
  BY <1>1, EnterMigrateRefines DEF Abstract!Next
<1>2. ASSUME NEW r \in Rank,
             EnterGhost(r) \/ SendCount(r) \/ RecvCount(r) \/ Isend(r)
      PROVE  UNCHANGED Abstract!vars
  BY <1>2, InvisibleSteps
<1>3. ASSUME NEW r \in Rank, Recv(r)
      PROVE  Abstract!Next \/ UNCHANGED Abstract!vars
  BY <1>3, RecvRefines DEF Abstract!Next
<1>4. ASSUME NEW r \in Rank, Waitall(r)
      PROVE  Abstract!Next \/ UNCHANGED Abstract!vars
  BY <1>4, WaitallRefines DEF Abstract!Next
<1>5. ASSUME NEW r \in Rank, Compute(r) PROVE Abstract!Next
  BY <1>5, ComputeRefines DEF Abstract!Next
<1>6. ASSUME LoadBalance PROVE Abstract!Next
  BY <1>6, LoadBalanceRefines DEF Abstract!Next
<1>7. ASSUME UNCHANGED vars PROVE UNCHANGED Abstract!vars
  <2>1. /\ UNCHANGED <<cut, pos, els, iter, out, wire>>
        /\ mode' = mode /\ pc' = pc
    BY <1>7 DEF vars
  <2>2. \A s, d \in Rank : Buffered(s, d)' = Buffered(s, d)
    BY <2>1 DEF Buffered
  <2>3. \A q \in Rank : Stage(q)' = Stage(q)
    BY <2>1 DEF Stage
  <2> QED
    BY <2>1, <2>2, <2>3, SameTransit, Invisible
<1> QED
  BY <1>1, <1>2, <1>3, <1>4, <1>5, <1>6, <1>7 DEF Next, RankStep, Finished

(* Every run of the exchanges, message by message and rank by rank, is a   *)
(* run of Redistribution: what the ranks promise each other about the      *)
(* particles is what migrate_data and the load balancing do.               *)
THEOREM Refinement == Spec => ImplementsRedistribution
<1>1. Init => Abstract!Init
  BY InitRefines
<1>2. DInv /\ [Next]_vars => [Abstract!Next]_(Abstract!vars)
  BY NextRefines
<1> QED
  BY <1>1, <1>2, Delivery, PTL
     DEF Spec, ImplementsRedistribution, Abstract!Spec
=============================================================================
