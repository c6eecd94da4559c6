--------------------------- MODULE UnloadingProofs ---------------------------
(***************************************************************************)
(* For every set of ranks and of particles, any slopes, and however the    *)
(* particles move: who is told what by get_communicator, where the top     *)
(* data can be, and that every particle is in one place, the right one     *)
(* when nobody is inside a call.                                           *)
(***************************************************************************)
EXTENDS UnloadingModel, SumProofs

Later == {"ready", "moved", "invertBottom", "sendBottom", "invertTop",
          "sendTop", "receive", "migrated"}

-----------------------------------------------------------------------------
(***************************************************************************)
(* The inductive invariant.                                                *)
(***************************************************************************)
Types ==
    /\ rising \subseteq Rank
    /\ pc \in [Rank -> Early \cup Later]
    /\ topHome \in [Particle -> Rank]
    /\ bottom \in [Rank -> SUBSET Particle]
    /\ top \in [Rank -> SUBSET Particle]
    /\ mesh \in [Rank -> SUBSET Particle]
    /\ buf \in [Rank -> [Tag -> [Rank -> SUBSET Particle]]]
    /\ \A m \in wire : m.data \subseteq Particle

Failed == TooMany(Cardinality(rising))

(* What each rank has from get_communicator, in terms of the slopes.       *)
SplitSo(r) ==
    /\ err[r] = Failed
    /\ increasing[r] = IF Failed THEN {} ELSE rising
    /\ comm[r] = IF Failed \/ r \in rising THEN {} ELSE Rank \ rising

(* Before get_communicator nothing is anywhere but in the bottom data.     *)
View ==
    \/ /\ AllAt("split")
       /\ wire = {}
       /\ \A r \in Rank : top[r] = {} /\ comm[r] = {}
    \/ \A r \in Rank : pc[r] # "split" /\ SplitSo(r)

(* All ranks are past the division, or none is; when they are, the top     *)
(* partition has parts on the ranks of top only.                           *)
Phases ==
    \/ /\ \A r \in Rank : pc[r] \in Early
       /\ \A r, d \in Rank : buf[r]["top"][d] = {}
    \/ /\ \A r \in Rank : pc[r] \notin Early
       /\ \A p \in Particle : InTop(topHome[p])
       /\ \A r, d \in Rank : buf[r]["top"][d] # {} => InTop(d)

IInv == Types /\ View /\ Phases /\ TopDataOnTop

-----------------------------------------------------------------------------
(* The slopes never make all ranks increasing without the error.           *)
LEMMA SomebodyLeft ==
    ASSUME rising \subseteq Rank, ~Failed PROVE Rank \ rising # {}
<1>1. Cardinality(Rank) \in Nat \ {0}
  BY RankAssumption, FS_CardinalityType, FS_EmptySet
<1>2. Cardinality(Rank) > Cardinality(Rank) \div 2
  BY <1>1
<1>3. rising # Rank
  BY <1>2 DEF Failed, TooMany
<1> QED
  BY <1>3

(* The two ways to work out who is increasing are one.                     *)
LEMMA SeenAlike ==
    ASSUME rising \subseteq Rank, NEW r \in Rank
    PROVE  IncreasingSeen(r) = rising
BY DEF IncreasingSeen, Group

LEMMA TopOfComm ==
    ASSUME NEW r \in Rank, SplitSo(r), comm[r] # {} PROVE InTop(r)
BY DEF SplitSo, InTop

LEMMA ViewIsSame == ASSUME Types, View PROVE SameView
<1> SUFFICES ASSUME NEW r \in Rank, NEW s \in Rank, pc[r] # "split"
             PROVE  /\ err[r] = err[s] /\ increasing[r] = increasing[s]
                    /\ ~err[r] =>
                          /\ comm[r] = IF InTop(r) THEN Rank \ increasing[r]
                                       ELSE {}
                          /\ Rank \ increasing[r] # {}
  BY DEF SameView
<1>1. SplitSo(r) /\ SplitSo(s)
  BY DEF View, AllAt
<1>2. err[r] = err[s] /\ increasing[r] = increasing[s]
  BY <1>1 DEF SplitSo
<1>3. ASSUME ~err[r]
      PROVE  /\ comm[r] = IF InTop(r) THEN Rank \ increasing[r] ELSE {}
             /\ Rank \ increasing[r] # {}
  <2>1. ~Failed
    BY <1>1, <1>3 DEF SplitSo
  <2>2. Rank \ rising # {}
    BY <2>1, SomebodyLeft DEF Types
  <2> QED
    BY <1>1, <2>1, <2>2 DEF SplitSo, InTop
<1> QED
  BY <1>2, <1>3

LEMMA InitHolds == ASSUME Init PROVE IInv
<1>1. Types
  BY DEF Init, Types, Early, Tag, NoBuffers
<1>2. View
  BY DEF Init, View, AllAt
<1>3. Phases
  BY DEF Init, Phases, Early, NoBuffers, Tag
<1>4. TopDataOnTop
  BY DEF Init, TopDataOnTop
<1> QED
  BY <1>1, <1>2, <1>3, <1>4 DEF IInv

(* Whoever is past get_communicator shows that all are, with what it gave. *)
LEMMA ViewKept ==
    ASSUME View, NEW r \in Rank, pc[r] # "split",
           UNCHANGED <<rising, err, increasing, comm>>,
           \A s \in Rank : pc[s] # "split" => pc'[s] # "split"
    PROVE  /\ View'
           /\ \A s \in Rank : pc[s] # "split" /\ SplitSo(s)
<1>1. \A s \in Rank : pc[s] # "split" /\ SplitSo(s)
  BY DEF View, AllAt
<1>2. \A s \in Rank : SplitSo(s)'
  BY <1>1 DEF SplitSo, Failed
<1> QED
  BY <1>1, <1>2 DEF View

-----------------------------------------------------------------------------
(***************************************************************************)
(* get_communicator and the division.                                      *)
(***************************************************************************)
LEMMA GetCommunicatorKeeps ==
    ASSUME IInv, GetCommunicator PROVE IInv'
<1> USE DEF IInv
<1>1. \A r \in Rank : IncreasingSeen(r) = rising
  BY SeenAlike DEF Types
<1>2. /\ err' = [r \in Rank |-> Failed]
      /\ increasing' = [r \in Rank |-> IF Failed THEN {} ELSE rising]
  BY <1>1 DEF GetCommunicator, Failed
<1>3. comm' = [r \in Rank |-> IF Failed \/ r \in rising THEN {}
                                                        ELSE Rank \ rising]
  BY <1>2 DEF GetCommunicator, Group
<1>4. pc' = [r \in Rank |-> IF Failed THEN "failed" ELSE "divide"]
  BY <1>2 DEF GetCommunicator
<1>5. /\ AllAt("split")
      /\ UNCHANGED <<rising, topHome, bottom, top, mesh, buf, wire>>
  BY DEF GetCommunicator
<1>6. Types'
  BY <1>4, <1>5 DEF Types, Early
<1>7. View'
  <2>1. Failed' = Failed
    BY <1>5 DEF Failed
  <2>2. \A r \in Rank : (pc[r] # "split" /\ SplitSo(r))'
    BY <1>2, <1>3, <1>4, <1>5, <2>1 DEF SplitSo
  <2> QED
    BY <2>2 DEF View
<1>8. Phases'
  BY <1>4, <1>5, RankAssumption DEF Phases, Early, AllAt
<1>9. TopDataOnTop'
  BY <1>5, RankAssumption DEF TopDataOnTop, View, AllAt
<1> QED
  BY <1>6, <1>7, <1>8, <1>9

LEMMA SendAllKeeps == ASSUME IInv, NEW r \in Rank, SendAll(r) PROVE IInv'
<1> USE DEF IInv
<1> DEFINE m == [from |-> r, to |-> Gatherer(r), tag |-> "divide",
                 data |-> bottom[r]]
<1>1. /\ pc[r] = "divide" /\ pc' = [pc EXCEPT ![r] = "divided"]
      /\ wire' = wire \cup {m}
      /\ bottom' = [bottom EXCEPT ![r] = {}]
      /\ UNCHANGED <<rising, topHome, err, increasing, comm, top, mesh, buf>>
  BY DEF SendAll
<1>2. m.tag = "divide" /\ (bottom[r] \subseteq Particle => m.data \subseteq Particle)
  OBVIOUS
<1> HIDE DEF m
<1>3. Types'
  BY <1>1, <1>2 DEF Types, Early
<1>4. View'
  BY <1>1, ViewKept DEF Types
<1>5. Phases'
  BY <1>1 DEF Phases, Early, Types, InTop
<1>6. TopDataOnTop'
  BY <1>1, <1>2 DEF TopDataOnTop, InTop
<1> QED
  BY <1>3, <1>4, <1>5, <1>6

LEMMA GatherOneKeeps ==
    ASSUME IInv, NEW r \in Rank, GatherOne(r) PROVE IInv'
<1> USE DEF IInv
<1>1. PICK m \in wire : /\ mesh' = [mesh EXCEPT ![r] = @ \cup m.data]
                        /\ wire' = wire \ {m}
  BY DEF GatherOne
<1>2. /\ pc[r] = "divide"
      /\ UNCHANGED <<rising, topHome, err, increasing, comm, bottom, top, buf,
                     pc>>
  BY DEF GatherOne
<1>3. Types'
  BY <1>1, <1>2 DEF Types
<1>4. View'
  BY <1>2, ViewKept
<1>5. Phases'
  BY <1>2 DEF Phases, InTop
<1>6. TopDataOnTop'
  BY <1>1, <1>2 DEF TopDataOnTop, InTop
<1> QED
  BY <1>3, <1>4, <1>5, <1>6

LEMMA EnterBalancingKeeps ==
    ASSUME IInv, NEW r \in Rank, EnterBalancing(r) PROVE IInv'
<1> USE DEF IInv
<1>1. /\ pc[r] = "divide" /\ pc' = [pc EXCEPT ![r] = "balance"]
      /\ UNCHANGED <<rising, topHome, err, increasing, comm, bottom, top, mesh,
                     buf, wire>>
  BY DEF EnterBalancing
<1>2. Types'
  BY <1>1 DEF Types, Early
<1>3. View'
  BY <1>1, ViewKept DEF Types
<1>4. Phases'
  BY <1>1 DEF Phases, Early, Types, InTop
<1>5. TopDataOnTop'
  BY <1>1 DEF TopDataOnTop, InTop
<1> QED
  BY <1>2, <1>3, <1>4, <1>5

(* A partition with parts on the ranks of top only puts top data there.    *)
LEMMA SpreadOnTop ==
    ASSUME Types, TopDataOnTop, NEW m \in [Rank -> SUBSET Particle],
           NEW h \in [Particle -> Rank], \A p \in Particle : InTop(h[p])
    PROVE  /\ Spread(m, h) \in [Rank -> SUBSET Particle]
           /\ \A r \in Rank : ~InTop(r) => Spread(m, h)[r] = {}
BY DEF Types, TopDataOnTop, Spread

LEMMA BalanceTopKeeps == ASSUME IInv, BalanceTop PROVE IInv'
<1> USE DEF IInv
<1>1. /\ topHome' \in [Particle -> {s \in Rank : comm[s] # {}}]
      /\ top' = Spread(mesh, topHome')
      /\ mesh' = [s \in Rank |-> {}]
      /\ pc' = [s \in Rank |-> IF comm[s] # {} THEN "divided" ELSE pc[s]]
      /\ UNCHANGED <<rising, err, increasing, comm, bottom, buf, wire>>
  BY DEF BalanceTop
<1>2. PICK r \in Rank : comm[r] # {} /\ \A s \in comm[r] : pc[s] = "balance"
  BY DEF BalanceTop
<1>3. \A s \in Rank : pc[s] # "split" /\ SplitSo(s)
  BY <1>2 DEF View
<1>4. PICK s \in Rank : pc[s] = "balance"
  BY <1>2, <1>3 DEF SplitSo
<1>5. \A q \in Rank : pc[q] \in Early
  BY <1>4 DEF Phases, Early
<1>6. /\ topHome' \in [Particle -> Rank]
      /\ \A p \in Particle : InTop(topHome'[p])
  BY <1>1, <1>3, TopOfComm
<1>7. /\ top' \in [Rank -> SUBSET Particle]
      /\ \A q \in Rank : ~InTop(q) => top'[q] = {}
  <2>1. mesh \in [Rank -> SUBSET Particle]
    BY DEF Types
  <2> QED
    BY <1>1, <1>6, <2>1, SpreadOnTop
<1>8. Types'
  BY <1>1, <1>5, <1>6, <1>7 DEF Types, Early
<1>9. View'
  BY <1>1, <1>3, <1>4, ViewKept
<1>10. Phases'
  BY <1>1, <1>4, <1>5 DEF Phases, Early
<1>11. TopDataOnTop'
  BY <1>1, <1>7 DEF TopDataOnTop, InTop
<1> QED
  BY <1>8, <1>9, <1>10, <1>11

LEMMA Divide2Keeps == ASSUME IInv, Divide2 PROVE IInv'
<1> USE DEF IInv
<1> DEFINE m == [r \in Rank |-> IF InTop(r) THEN {} ELSE bottom[r]]
<1>1. /\ AllAt("divide")
      /\ topHome' \in [Particle -> {r \in Rank : InTop(r)}]
      /\ top' = Spread(m, topHome')
      /\ bottom' = [r \in Rank |-> AfterDividing(r)]
      /\ pc' = [r \in Rank |-> "ready"]
      /\ UNCHANGED <<rising, err, increasing, comm, mesh, buf, wire>>
  BY DEF Divide2
<1>2. /\ topHome' \in [Particle -> Rank]
      /\ \A p \in Particle : InTop(topHome'[p])
  BY <1>1
<1>3. m \in [Rank -> SUBSET Particle]
  BY DEF Types
<1> HIDE DEF m
<1>4. /\ top' \in [Rank -> SUBSET Particle]
      /\ \A r \in Rank : ~InTop(r) => top'[r] = {}
  BY <1>1, <1>2, <1>3, SpreadOnTop
<1>5. PICK r \in Rank : TRUE
  BY RankAssumption
<1>6. Types'
  BY <1>1, <1>2, <1>4 DEF Types, Later, AfterDividing
<1>7. View'
  BY <1>1, <1>5, ViewKept DEF AllAt
<1>8. Phases'
  BY <1>1, <1>2, <1>5 DEF Phases, Early, InTop, AllAt
<1>9. TopDataOnTop'
  BY <1>1, <1>4 DEF TopDataOnTop, InTop
<1> QED
  BY <1>6, <1>7, <1>8, <1>9

-----------------------------------------------------------------------------
(***************************************************************************)
(* migrate and exchange.                                                   *)
(***************************************************************************)

(* From one stage of migrate to another.                                   *)
LEMMA LaterKept ==
    ASSUME IInv, NEW r \in Rank, pc[r] \in Later,
           pc' \in [Rank -> Early \cup Later],
           \A s \in Rank : pc'[s] = pc[s] \/ pc'[s] \in Later,
           UNCHANGED <<rising, err, increasing, comm>>
    PROVE  /\ View'
           /\ \A s \in Rank : pc'[s] \notin Early
           /\ \A p \in Particle : InTop(topHome[p])
           /\ \A s, d \in Rank : buf[s]["top"][d] # {} => InTop(d)
           /\ \A s \in Rank : InTop(s)' = InTop(s)
<1>1. Early \cap Later = {} /\ "split" \notin Later
  BY DEF Early, Later
<1>2. /\ \A s \in Rank : pc[s] \notin Early
      /\ \A p \in Particle : InTop(topHome[p])
      /\ \A s, d \in Rank : buf[s]["top"][d] # {} => InTop(d)
  BY <1>1 DEF IInv, Phases
<1>3. View'
  BY <1>1, ViewKept DEF IInv
<1>4. \A s \in Rank : pc'[s] \notin Early
  BY <1>1, <1>2
<1> QED
  BY <1>2, <1>3, <1>4 DEF InTop

LEMMA MoveKeeps == ASSUME IInv, NEW r \in Rank, Move(r) PROVE IInv'
<1> DEFINE mine == bottom[r] \cup top[r]
           onTop == {s \in Rank : InTop(s)}
<1>1. /\ pc[r] = "ready" /\ pc' = [pc EXCEPT ![r] = "moved"]
      /\ UNCHANGED <<rising, err, increasing, comm, bottom, top, mesh, buf,
                     wire>>
  BY DEF Move
<1>2. PICK t \in [mine -> onTop] :
          topHome' = [p \in Particle |-> IF p \in DOMAIN t THEN t[p]
                                         ELSE topHome[p]]
  BY DEF Move
<1>3. Types /\ pc[r] \in Later /\ pc' \in [Rank -> Early \cup Later]
  BY <1>1 DEF IInv, Types, Later
<1>4. \A s \in Rank : pc'[s] = pc[s] \/ pc'[s] \in Later
  BY <1>1, <1>3 DEF Types, Later
<1>5. /\ View'
      /\ \A s \in Rank : pc'[s] \notin Early
      /\ \A p \in Particle : InTop(topHome[p])
      /\ \A s, d \in Rank : buf[s]["top"][d] # {} => InTop(d)
  BY <1>1, <1>3, <1>4, LaterKept
<1>6. \A p \in Particle : topHome'[p] \in Rank /\ InTop(topHome'[p])
  BY <1>2, <1>3, <1>5 DEF Types
<1>7. Types'
  BY <1>1, <1>2, <1>3, <1>6 DEF Types
<1>8. Phases'
  BY <1>1, <1>5, <1>6 DEF Phases, InTop
<1>9. TopDataOnTop'
  BY <1>1 DEF IInv, TopDataOnTop, InTop
<1> QED
  BY <1>5, <1>7, <1>8, <1>9 DEF IInv

LEMMA MarkExportsKeeps ==
    ASSUME IInv, NEW r \in Rank, MarkExports(r) PROVE IInv'
<1> DEFINE fromBottom == {p \in bottom[r] : home[p] # r}
           fromTop == {p \in top[r] : InTop(r) /\ LeavesForBottom(r, p)}
           withinTop == {p \in top[r] : InTop(r) /\ LeavesTop(r, p)}
           b == [bottom |-> [d \in Rank |->
                                {p \in fromBottom \cup fromTop : home[p] = d}],
                 top |-> [d \in Rank |-> {p \in withinTop : TopDest(p) = d}]]
<1>1. /\ pc[r] = "moved" /\ pc' = [pc EXCEPT ![r] = "invertBottom"]
      /\ bottom' = [bottom EXCEPT ![r] = @ \ fromBottom]
      /\ top' = [top EXCEPT ![r] = @ \ (fromTop \cup withinTop)]
      /\ buf' = [buf EXCEPT ![r] = b]
      /\ UNCHANGED <<rising, topHome, err, increasing, comm, mesh, wire>>
  BY DEF MarkExports
<1>2. Types /\ pc[r] \in Later /\ pc' \in [Rank -> Early \cup Later]
  BY <1>1 DEF IInv, Types, Later
<1>3. \A s \in Rank : pc'[s] = pc[s] \/ pc'[s] \in Later
  BY <1>1, <1>2 DEF Types, Later
<1>4. /\ View'
      /\ \A s \in Rank : pc'[s] \notin Early
      /\ \A p \in Particle : InTop(topHome[p])
      /\ \A s, d \in Rank : buf[s]["top"][d] # {} => InTop(d)
  BY <1>1, <1>2, <1>3, LaterKept
<1>5. bottom[r] \subseteq Particle /\ top[r] \subseteq Particle
  BY <1>2 DEF Types
<1>6. /\ b \in [Tag -> [Rank -> SUBSET Particle]]
      /\ \A d \in Rank : b["top"][d] # {} => InTop(d)
  <2>1. \A d \in Rank :
            {p \in fromBottom \cup fromTop : home[p] = d} \subseteq Particle
    BY <1>5
  <2>2. \A d \in Rank :
            /\ {p \in withinTop : TopDest(p) = d} \subseteq Particle
            /\ {p \in withinTop : TopDest(p) = d} # {} => InTop(d)
    BY <1>4, <1>5 DEF TopDest
  <2> HIDE DEF fromBottom, fromTop, withinTop
  <2> QED
    BY <2>1, <2>2 DEF Tag
<1> HIDE DEF fromBottom, fromTop, withinTop, b
<1>7. Types'
  BY <1>1, <1>2, <1>5, <1>6 DEF Types
<1>8. Phases'
  <2>1. \A s, d \in Rank : buf'[s]["top"][d] # {} => InTop(d)
    BY <1>1, <1>2, <1>4, <1>6 DEF Types
  <2> QED
    BY <1>1, <1>4, <2>1 DEF Phases, InTop
<1>9. TopDataOnTop'
  BY <1>1, <1>2 DEF IInv, TopDataOnTop, InTop, Types
<1> QED
  BY <1>4, <1>7, <1>8, <1>9 DEF IInv

(* The steps that touch neither vectors nor buffers.                       *)
LEMMA CallKeeps ==
    ASSUME IInv, NEW r \in Rank, pc[r] \in Later,
           pc' \in [Rank -> Early \cup Later],
           \A s \in Rank : pc'[s] = pc[s] \/ pc'[s] \in Later,
           UNCHANGED <<rising, topHome, err, increasing, comm, bottom, top,
                       mesh, buf, wire>>
    PROVE  IInv'
<1>1. /\ View'
      /\ \A s \in Rank : pc'[s] \notin Early
      /\ \A p \in Particle : InTop(topHome[p])
      /\ \A s, d \in Rank : buf[s]["top"][d] # {} => InTop(d)
  BY LaterKept
<1>2. Types'
  BY DEF IInv, Types
<1>3. Phases'
  BY <1>1 DEF Phases, InTop
<1>4. TopDataOnTop'
  BY DEF IInv, TopDataOnTop, InTop
<1> QED
  BY <1>1, <1>2, <1>3, <1>4 DEF IInv

LEMMA CollectivesKeep ==
    ASSUME IInv, InvertBottom \/ InvertTop \/ Exchange PROVE IInv'
<1>1. PICK r \in Rank : TRUE
  BY RankAssumption
<1>2. /\ pc[r] \in Later
      /\ \E next \in Later : pc' = [s \in Rank |-> next]
      /\ UNCHANGED <<rising, topHome, err, increasing, comm, bottom, top,
                     mesh, buf, wire>>
  BY DEF InvertBottom, InvertTop, Exchange, AllAt, Later
<1> QED
  BY <1>2, CallKeeps

LEMMA ReturnKeeps == ASSUME IInv, NEW r \in Rank, Return(r) PROVE IInv'
<1>1. /\ pc[r] \in Later /\ pc' = [pc EXCEPT ![r] = "migrated"]
      /\ UNCHANGED <<rising, topHome, err, increasing, comm, bottom, top,
                     mesh, buf, wire>>
  BY DEF Return, Later
<1>2. /\ pc' \in [Rank -> Early \cup Later]
      /\ \A s \in Rank : pc'[s] = pc[s] \/ pc'[s] \in Later
  BY <1>1 DEF IInv, Types, Later
<1> QED
  BY <1>1, <1>2, CallKeeps

LEMMA MessagesTyped ==
    ASSUME Types, NEW r \in Rank, NEW t \in Tag, NEW m \in Messages(r, t)
    PROVE  /\ m.data \subseteq Particle /\ m.tag = t /\ m.to \in Rank
           /\ buf[r][t][m.to] # {}
BY DEF Types, Messages

LEMMA SendBottomKeeps ==
    ASSUME IInv, NEW r \in Rank, SendBottom(r) PROVE IInv'
<1>1. /\ pc[r] = "sendBottom" /\ pc' = [pc EXCEPT ![r] = "invertTop"]
      /\ wire' = wire \cup Messages(r, "bottom")
      /\ buf' = [buf EXCEPT ![r]["bottom"] = NoBuffers["bottom"]]
      /\ UNCHANGED <<rising, topHome, err, increasing, comm, bottom, top, mesh>>
  BY DEF SendBottom
<1>2. Types /\ pc[r] \in Later /\ pc' \in [Rank -> Early \cup Later]
  BY <1>1 DEF IInv, Types, Later
<1>3. \A s \in Rank : pc'[s] = pc[s] \/ pc'[s] \in Later
  BY <1>1, <1>2 DEF Types, Later
<1>4. /\ View'
      /\ \A s \in Rank : pc'[s] \notin Early
      /\ \A p \in Particle : InTop(topHome[p])
      /\ \A s, d \in Rank : buf[s]["top"][d] # {} => InTop(d)
  BY <1>1, <1>2, <1>3, LaterKept
<1>5. \A m \in Messages(r, "bottom") : m.data \subseteq Particle /\ m.tag # "top"
  BY <1>2, MessagesTyped DEF Tag
<1>6. NoBuffers["bottom"] = [d \in Rank |-> {}]
  BY DEF NoBuffers, Tag
<1>7. Types'
  BY <1>1, <1>2, <1>5, <1>6 DEF Types, Tag
<1>8. \A s \in Rank : buf'[s]["top"] = buf[s]["top"]
  BY <1>1, <1>2 DEF Types, Tag
<1>9. Phases'
  BY <1>1, <1>4, <1>8 DEF Phases, InTop
<1>10. TopDataOnTop'
  BY <1>1, <1>5 DEF IInv, TopDataOnTop, InTop
<1> QED
  BY <1>4, <1>7, <1>9, <1>10 DEF IInv

LEMMA SendTopKeeps == ASSUME IInv, NEW r \in Rank, SendTop(r) PROVE IInv'
<1> DEFINE sent == IF InTop(r) THEN Messages(r, "top") ELSE {}
<1>1. /\ pc[r] = "sendTop" /\ pc' = [pc EXCEPT ![r] = "receive"]
      /\ wire' = wire \cup sent
      /\ buf' = [buf EXCEPT ![r] = NoBuffers]
      /\ UNCHANGED <<rising, topHome, err, increasing, comm, bottom, top, mesh>>
  BY DEF SendTop
<1>2. Types /\ pc[r] \in Later /\ pc' \in [Rank -> Early \cup Later]
  BY <1>1 DEF IInv, Types, Later
<1>3. \A s \in Rank : pc'[s] = pc[s] \/ pc'[s] \in Later
  BY <1>1, <1>2 DEF Types, Later
<1>4. /\ View'
      /\ \A s \in Rank : pc'[s] \notin Early
      /\ \A p \in Particle : InTop(topHome[p])
      /\ \A s, d \in Rank : buf[s]["top"][d] # {} => InTop(d)
  BY <1>1, <1>2, <1>3, LaterKept
<1>5. \A m \in sent : m.data \subseteq Particle /\ InTop(m.to)
  BY <1>2, <1>4, MessagesTyped DEF Tag
<1>6. /\ NoBuffers \in [Tag -> [Rank -> SUBSET Particle]]
      /\ \A d \in Rank : NoBuffers["top"][d] = {}
  BY DEF NoBuffers, Tag
<1> HIDE DEF sent
<1>7. Types'
  BY <1>1, <1>2, <1>5, <1>6 DEF Types
<1>8. \A s, d \in Rank : buf'[s]["top"][d] # {} => InTop(d)
  BY <1>1, <1>2, <1>4, <1>6 DEF Types
<1>9. Phases'
  BY <1>1, <1>4, <1>8 DEF Phases, InTop
<1>10. TopDataOnTop'
  BY <1>1, <1>5 DEF IInv, TopDataOnTop, InTop
<1> QED
  BY <1>4, <1>7, <1>9, <1>10 DEF IInv

LEMMA ReceiveKeeps == ASSUME IInv, NEW r \in Rank, Receive(r) PROVE IInv'
<1>1. PICK m \in wire :
          /\ m.to = r /\ m.tag \in Tag
          /\ bottom' = [bottom EXCEPT ![r] =
                           IF ForBottom(m) THEN @ \cup m.data ELSE @]
          /\ top' = [top EXCEPT ![r] =
                        IF ForBottom(m) THEN @ ELSE @ \cup m.data]
          /\ wire' = wire \ {m}
  BY DEF Receive
<1>2. /\ pc[r] = "receive" /\ pc' = pc
      /\ UNCHANGED <<rising, topHome, err, increasing, comm, mesh, buf>>
  BY DEF Receive
<1>3. Types /\ pc[r] \in Later /\ pc' \in [Rank -> Early \cup Later]
  BY <1>2 DEF IInv, Types, Later
<1>4. /\ View'
      /\ \A s \in Rank : pc'[s] \notin Early
      /\ \A p \in Particle : InTop(topHome[p])
      /\ \A s, d \in Rank : buf[s]["top"][d] # {} => InTop(d)
  BY <1>2, <1>3, LaterKept
<1>5. m.data \subseteq Particle /\ (ForBottom(m) \/ InTop(r))
  BY <1>1 DEF IInv, Types, TopDataOnTop, ForBottom, Tag
<1>6. Types'
  BY <1>1, <1>2, <1>3, <1>5 DEF Types
<1>7. Phases'
  BY <1>2, <1>4 DEF Phases, InTop
<1>8. TopDataOnTop'
  BY <1>1, <1>2, <1>3, <1>5 DEF IInv, TopDataOnTop, InTop, Types
<1> QED
  BY <1>4, <1>6, <1>7, <1>8 DEF IInv

LEMMA StutterKeeps == ASSUME IInv, UNCHANGED vars PROVE IInv'
<1> USE DEF vars
<1>1. Types'
  BY DEF IInv, Types
<1>2. View'
  BY DEF IInv, View, AllAt, SplitSo, Failed
<1>3. Phases' /\ TopDataOnTop'
  BY DEF IInv, Phases, TopDataOnTop, InTop
<1> QED
  BY <1>1, <1>2, <1>3 DEF IInv

-----------------------------------------------------------------------------
LEMMA AlwaysIInv == Spec => []IInv
<1>1. Init => IInv
  BY InitHolds
<1>2. IInv /\ [Next]_vars => IInv'
  <2> SUFFICES ASSUME IInv, [Next]_vars
               PROVE  IInv'
    OBVIOUS
  <2>1. ASSUME NEW r \in Rank, SendAll(r) \/ GatherOne(r) \/ EnterBalancing(r)
        PROVE  IInv'
    BY <2>1, SendAllKeeps, GatherOneKeeps, EnterBalancingKeeps
  <2>2. ASSUME NEW r \in Rank, Move(r) \/ MarkExports(r) \/ SendBottom(r)
        PROVE  IInv'
    BY <2>2, MoveKeeps, MarkExportsKeeps, SendBottomKeeps
  <2>3. ASSUME NEW r \in Rank, SendTop(r) \/ Receive(r) \/ Return(r)
        PROVE  IInv'
    BY <2>3, SendTopKeeps, ReceiveKeeps, ReturnKeeps
  <2>4. CASE Collective
    BY <2>4, GetCommunicatorKeeps, BalanceTopKeeps, Divide2Keeps,
       CollectivesKeep DEF Collective
  <2>5. CASE UNCHANGED vars
    BY <2>5, StutterKeeps
  <2> QED
    BY <2>1, <2>2, <2>3, <2>4, <2>5 DEF Next, RankStep, Finished
<1> QED
  BY <1>1, <1>2, PTL DEF Spec

(* Two communicators, one answer: all ranks know the same increasing ranks *)
(* and the same error, whatever the slopes, and somebody is left on top.   *)
THEOREM OneView == Spec => []SameView
<1>1. IInv => SameView
  BY ViewIsSame DEF IInv
<1> QED
  BY <1>1, AlwaysIInv, PTL

(* No increasing rank ever has, or is sent, top data.                      *)
THEOREM TopStaysOnTop == Spec => []TopDataOnTop
<1>1. IInv => TopDataOnTop
  BY DEF IInv
<1> QED
  BY <1>1, AlwaysIInv, PTL

-----------------------------------------------------------------------------
(***************************************************************************)
(* The invariant of the particles, beside IInv, follows each through the   *)
(* vectors, data_to_migrate and the messages: where it can be depends on   *)
(* what all ranks are past (InStep), where it is bound for on which of the *)
(* three holds it (Sits, Goes), and a rank waits for exactly those who     *)
(* still have something for it (Books; Gathered for                        *)
(* divide_data_into_top_bottom).                                           *)
(***************************************************************************)

(* The stages of migrate between its two calls of Zoltan_Invert_Lists.     *)
Entering == {"ready", "moved", "invertBottom"}
Sending == {"sendBottom", "invertTop"}
Receiving == {"sendTop", "receive", "migrated"}

(* All ranks are before or after the same collective call.                 *)
SameStage ==
    \/ \A r \in Rank : pc[r] \in Early
    \/ \A r \in Rank : pc[r] \in Entering
    \/ \A r \in Rank : pc[r] \in Sending
    \/ \A r \in Rank : pc[r] \in Receiving

(* The call of migrate a rank is in, or computes for.                      *)
Turn(r) == IF pc[r] = "ready" THEN iter[r] + 1 ELSE iter[r]

InStep ==
    /\ iter \in [Rank -> Nat]
    /\ SameStage
    /\ \A r, s \in Rank : Turn(r) = Turn(s)

(* What is still in a rank's data_to_migrate, and what it holds at all.    *)
Buffered(r) == {p \in Particle : \E t \in Tag, d \in Rank : p \in buf[r][t][d]}

Local(r) == bottom[r] \cup top[r] \cup mesh[r] \cup Buffered(r)

(* No particle is in two places, none is nowhere.                          *)
Apart ==
    /\ \A r, s \in Rank : \A p \in Local(r) : p \in Local(s) => r = s
    /\ \A m \in wire : \A r \in Rank : m.data \cap Local(r) = {}
    /\ \A m, n \in wire : m.data \cap n.data # {} => m = n
    /\ \A r \in Rank : \A p \in Local(r) :
           /\ p \in bottom[r] => p \notin top[r] /\ p \notin mesh[r]
           /\ p \in top[r] => p \notin mesh[r]
           /\ p \in Buffered(r) =>
                  p \notin bottom[r] /\ p \notin top[r] /\ p \notin mesh[r]
    /\ \A r, d, e \in Rank : \A t, u \in Tag : \A p \in buf[r][t][d] :
           p \in buf[r][u][e] => t = u /\ d = e

Somewhere ==
    \A p \in Particle : \/ \E r \in Rank : p \in Local(r)
                        \/ \E m \in wire : p \in m.data

(* Top data is over the region of an increasing rank and is addressed by   *)
(* the top partition; everything else is addressed by the bottom partition.*)
ByTop(p, r) == home[p] \in rising /\ topHome[p] = r

Sits ==
    /\ home \in [Particle -> Rank]
    /\ \A r \in Rank : pc[r] # "moved" =>
           /\ \A p \in bottom[r] : home[p] = r
           /\ \A p \in top[r] : home[p] = r \/ ByTop(p, r)

Goes ==
    /\ \A s, d \in Rank : /\ \A p \in buf[s]["bottom"][d] : home[p] = d
                          /\ \A p \in buf[s]["top"][d] : ByTop(p, d)
                          /\ s \in rising => buf[s]["top"][d] = {}
    /\ \A m \in wire : \A p \in m.data :
           /\ m.tag = "bottom" => home[p] = m.to
           /\ m.tag = "top" => ByTop(p, m.to)
           /\ m.tag = "divide" => home[p] \in rising
    /\ \A r \in Rank : \A p \in mesh[r] : home[p] \in rising

(* data_to_migrate is full from MarkExports to the sends; a message of a   *)
(* tag is under way only after its sender's sends.                         *)
Filled(t) == IF t = "bottom" THEN {"invertBottom", "sendBottom"}
             ELSE {"invertBottom", "sendBottom", "invertTop", "sendTop"}

Past(t) == IF t = "bottom" THEN {"invertTop"} \cup Receiving
           ELSE {"receive", "migrated"}

InTime ==
    /\ \A r, d \in Rank : \A t \in Tag : buf[r][t][d] # {} => pc[r] \in Filled(t)
    /\ \A m \in wire :
           \/ /\ m.tag \in Tag /\ m.data # {}
              /\ m.from \in Rank /\ m.to \in Rank /\ pc[m.from] \in Past(m.tag)
           \/ /\ m.tag = "divide"
              /\ m.from \in rising /\ pc[m.from] = "divided"
              /\ m.to = First(Rank \ rising)
    /\ \A m, n \in wire :
           m.from = n.from /\ m.to = n.to /\ m.tag = n.tag => m = n

(* import_from_procs without those received from: who has something for r  *)
(* in a buffer or under way.                                               *)
Told(t) == IF t = "bottom" THEN Sending \cup Receiving ELSE Receiving

UnderWay(s, t, r) == \E m \in wire : m.from = s /\ m.tag = t /\ m.to = r

Books ==
    /\ owed \in [Rank -> [Tag -> SUBSET Rank]]
    /\ \A r, s \in Rank : \A t \in Tag :
           s \in owed[r][t] <=> /\ pc[r] \in Told(t)
                                /\ buf[s][t][r] # {} \/ UnderWay(s, t, r)
    /\ \A r \in Rank : pc[r] = "migrated" => owed[r] = NothingOwed

(* The increasing ranks rank 0 of top has not received the data of.        *)
Waiting == {s \in rising : pc[s] = "divide" \/ \E m \in wire : m.from = s}

(* Rank 0 of top counts them down; top is balanced at once and only then.  *)
Gathered ==
    /\ how \in {"gather", "direct"} /\ toRecv \in [Rank -> Int]
    /\ \A r \in Rank : pc[r] \notin {"split", "failed"} => ~Failed
    /\ (\E r \in Rank : mesh[r] # {} \/ pc[r] \in {"balance", "divided"}) =>
           how = "gather"
    /\ (\E r \in Rank : pc[r] \in Later) => how = "direct"
    /\ \A g \in Rank \ rising : g = First(Rank \ rising) =>
           /\ pc[g] = "divide" => toRecv[g] = Cardinality(Waiting)
           /\ pc[g] \in {"balance", "divided"} => Waiting = {}
    /\ \/ \A r \in Rank \ rising : pc[r] = "divided" /\ \A s \in Rank : mesh[s] = {}
       \/ \A r \in Rank \ rising : pc[r] # "divided" /\ \A s \in Rank : top[s] = {}
       \/ \A r \in Rank : pc[r] \in Later

PInv == InStep /\ Apart /\ Somewhere /\ Sits /\ Goes /\ InTime /\ Books /\ Gathered

-----------------------------------------------------------------------------
(***************************************************************************)
(* There is a rank 0 of every communicator, and all ranks are in one stage.*)
(***************************************************************************)
LEMMA FirstOf ==
    ASSUME NEW c \in SUBSET Rank, c # {}
    PROVE  First(c) \in c
<1>1. c \in SUBSET Nat
  BY RankAssumption
<1>2. \E x \in c : \A y \in c : x <= y
  BY <1>1, LeastOf
<1> QED
  BY <1>2 DEF First

(* One rank past a collective call, and all are.                           *)
LEMMA Stages ==
    ASSUME SameStage, NEW r \in Rank,
           NEW w \in {Early, Entering, Sending, Receiving}, pc[r] \in w
    PROVE  \A s \in Rank : pc[s] \in w
BY DEF SameStage, Early, Entering, Sending, Receiving

(* A step of one rank between two collective calls.                        *)
LEMMA StageKept ==
    ASSUME Types, InStep, NEW r \in Rank,
           NEW w \in {Early, Entering, Sending, Receiving},
           pc[r] \in w, NEW next \in w, pc' = [pc EXCEPT ![r] = next],
           iter' \in [Rank -> Nat],
           \A s \in Rank : s # r => iter'[s] = iter[s],
           Turn(r)' = Turn(r)
    PROVE  InStep'
<1>1. \A s \in Rank : pc'[s] = IF s = r THEN next ELSE pc[s]
  BY DEF Types
<1>2. \A s \in Rank : pc'[s] \in w
  BY <1>1, Stages DEF InStep
<1>3. SameStage'
  BY <1>2 DEF SameStage, Early, Entering, Sending, Receiving
<1>4. \A s \in Rank : Turn(s)' = Turn(s)
  BY <1>1 DEF Turn
<1> QED
  BY <1>3, <1>4 DEF InStep

LEMMA PlacesKept ==
    ASSUME Apart, Somewhere, UNCHANGED <<bottom, top, mesh, buf, wire>>
    PROVE  Apart' /\ Somewhere'
BY DEF Apart, Somewhere, Local, Buffered

LEMMA BoundKept ==
    ASSUME Sits, Goes, \A s \in Rank : pc[s] = "moved" => pc'[s] = "moved",
           UNCHANGED <<rising, home, topHome, bottom, top, mesh, buf, wire>>
    PROVE  Sits' /\ Goes'
BY DEF Sits, Goes, ByTop

(* Before the first call of Zoltan_Invert_Lists nobody waits for anybody.  *)
LEMMA BooksClosed ==
    ASSUME Books, owed' = owed,
           \A r \in Rank : /\ pc[r] \in Early \cup Entering
                           /\ pc'[r] \in Early \cup Entering
    PROVE  Books'
<1>1. \A r \in Rank : \A t \in Tag : pc[r] \notin Told(t) /\ pc'[r] \notin Told(t)
  BY DEF Told, Early, Entering, Sending, Receiving
<1>2. \A r \in Rank : pc'[r] # "migrated"
  BY DEF Early, Entering
<1>3. \A t : Told(t)' = Told(t)
  BY DEF Told, Sending, Receiving
<1> QED
  BY <1>1, <1>2, <1>3 DEF Books

LEMMA WaitingFinite ==
    ASSUME Types PROVE IsFiniteSet(Waiting) /\ Cardinality(Waiting) \in Nat
BY RankAssumption, FS_Subset, FS_CardinalityType DEF Types, Waiting

LEMMA InitPlaced == ASSUME Init PROVE PInv
<1> USE DEF Init
<1>1. InStep
  BY DEF InStep, SameStage, Early, Turn
<1>2. \A r \in Rank : Buffered(r) = {}
  BY DEF Buffered, NoBuffers
<1>3. \A r \in Rank : Local(r) = {p \in Particle : home[p] = r}
  BY <1>2 DEF Local
<1>4. Apart
  BY <1>2, <1>3 DEF Apart, NoBuffers
<1>5. Somewhere
  BY <1>3 DEF Somewhere
<1>6. Sits /\ Goes
  BY DEF Sits, Goes, NoBuffers, Tag
<1>7. InTime
  BY DEF InTime, NoBuffers
<1>8. Books
  BY DEF Books, NothingOwed, Told, Sending, Receiving
<1>9. Gathered
  BY DEF Gathered, Later
<1> QED
  BY <1>1, <1>4, <1>5, <1>6, <1>7, <1>8, <1>9 DEF PInv

-----------------------------------------------------------------------------
(***************************************************************************)
(* get_communicator and the division.                                      *)
(***************************************************************************)
LEMMA GetCommunicatorPlaces ==
    ASSUME IInv, PInv, GetCommunicator, IInv' PROVE PInv'
<1> USE DEF PInv
<1>1. /\ AllAt("split")
      /\ toRecv' = [r \in Rank |-> Cardinality(Rank) - Cardinality(comm'[r])]
      /\ UNCHANGED <<how, rising, home, topHome, bottom, top, mesh, buf, owed,
                     wire, iter>>
  BY DEF GetCommunicator
<1>2. \A r \in Rank : IncreasingSeen(r) = rising
  BY SeenAlike DEF IInv, Types
<1>3. pc' = [r \in Rank |-> IF Failed THEN "failed" ELSE "divide"]
  BY <1>2 DEF GetCommunicator, Failed
<1>4. \A r \in Rank : pc[r] = "split" /\ pc'[r] \in {"failed", "divide"}
  BY <1>1, <1>3 DEF AllAt
<1>5. wire = {} /\ \A r \in Rank : top[r] = {}
  BY <1>4, RankAssumption DEF IInv, View
<1>6. Failed' = Failed
  BY <1>1 DEF Failed
<1>7. InStep'
  BY <1>1, <1>4 DEF InStep, SameStage, Early, Turn
<1>8. Apart' /\ Somewhere'
  BY <1>1, PlacesKept
<1>9. Sits' /\ Goes'
  BY <1>1, <1>4, BoundKept
<1>10. InTime'
  BY <1>1, <1>4, <1>5 DEF InTime, Filled
<1>11. Books'
  BY <1>1, <1>4, BooksClosed DEF Early
<1>12. ASSUME NEW g \in Rank \ rising, pc'[g] = "divide"
       PROVE  toRecv'[g] = Cardinality(Waiting')
  <2>1. ~Failed /\ Waiting' = rising
    BY <1>1, <1>3, <1>12 DEF Waiting, IInv, Types
  <2>2. comm'[g] = Rank \ rising
    BY <1>1, <1>4, <1>6, <1>12, <2>1 DEF IInv, View, AllAt, SplitSo
  <2>3. Rank \cap rising = rising
    BY DEF IInv, Types
  <2>4. Cardinality(Rank \ rising) = Cardinality(Rank) - Cardinality(rising)
    BY <2>3, RankAssumption, FS_Difference
  <2>5. Cardinality(Rank) \in Nat /\ Cardinality(rising) \in Nat
    BY RankAssumption, FS_Subset, FS_CardinalityType DEF IInv, Types
  <2>6. toRecv'[g] = Cardinality(Rank) - Cardinality(Rank \ rising)
    BY <1>1, <2>2
  <2>7. toRecv'[g] = Cardinality(rising)
    BY <2>4, <2>5, <2>6
  <2> QED
    BY <2>1, <2>7
<1>13. toRecv' \in [Rank -> Int]
  <2>1. \A r \in Rank : comm'[r] \subseteq Rank
    BY <1>1, <1>4 DEF IInv, View, AllAt, SplitSo
  <2>2. \A r \in Rank : Cardinality(comm'[r]) \in Nat
    BY <2>1, RankAssumption, FS_Subset, FS_CardinalityType
  <2>3. Cardinality(Rank) \in Nat
    BY RankAssumption, FS_CardinalityType
  <2> QED
    BY <1>1, <2>2, <2>3
<1>14. Gathered'
  BY <1>1, <1>3, <1>4, <1>5, <1>6, <1>12, <1>13 DEF Gathered, Later
<1> QED
  BY <1>7, <1>8, <1>9, <1>10, <1>11, <1>14

(* What the division finds: who is increasing, and nothing of migrate.     *)
LEMMA Dividing ==
    ASSUME IInv, PInv, NEW r \in Rank, pc[r] \in {"divide", "balance"}
    PROVE  /\ ~Failed
           /\ Rank \ rising # {}
           /\ \A s \in Rank : /\ pc[s] \in Early
                              /\ increasing[s] = rising
                              /\ comm[s] = IF s \in rising THEN {}
                                           ELSE Rank \ rising
                              /\ comm[s] # {} <=> s \notin rising
                              /\ InTop(s) <=> s \notin rising
           /\ \A m \in wire : /\ m.tag = "divide" /\ m.from \in rising
                              /\ pc[m.from] = "divided"
                              /\ m.to = First(Rank \ rising)
           /\ \A s, d \in Rank : \A t \in Tag : buf[s][t][d] = {}
<1> USE DEF PInv
<1>1. ~Failed
  BY DEF Gathered
<1>2. Rank \ rising # {}
  BY <1>1, SomebodyLeft DEF IInv, Types
<1>3. \A s \in Rank : pc[s] \in Early
  BY Stages DEF InStep, Early
<1>4. \A s \in Rank : SplitSo(s)
  BY DEF IInv, View, AllAt
<1>5. \A s \in Rank : /\ increasing[s] = rising
                      /\ comm[s] = IF s \in rising THEN {} ELSE Rank \ rising
  BY <1>1, <1>4 DEF SplitSo
<1>6. rising \subseteq Rank
  BY DEF IInv, Types
<1>7. \A m \in wire : /\ m.tag = "divide" /\ m.from \in rising
                      /\ pc[m.from] = "divided"
                      /\ m.to = First(Rank \ rising)
  BY <1>3, <1>6 DEF InTime, Past, Receiving, Early
<1>8. \A s, d \in Rank : \A t \in Tag : buf[s][t][d] = {}
  BY <1>3 DEF InTime, Filled, Early
<1> QED
  BY <1>1, <1>2, <1>3, <1>5, <1>7, <1>8, ZenonT(60) DEF InTop

LEMMA SendAllPlaces ==
    ASSUME IInv, PInv, NEW r \in Rank, SendAll(r), IInv' PROVE PInv'
<1> USE DEF PInv
<1> DEFINE m == [from |-> r, to |-> Gatherer(r), tag |-> "divide",
                 data |-> bottom[r]]
<1>1. /\ how = "gather" /\ comm[r] = {}
      /\ pc[r] = "divide" /\ pc' = [pc EXCEPT ![r] = "divided"]
      /\ wire' = wire \cup {m}
      /\ bottom' = [bottom EXCEPT ![r] = {}]
      /\ UNCHANGED <<how, rising, home, topHome, top, mesh, toRecv, buf, owed,
                     iter>>
  BY DEF SendAll
<1>2. /\ ~Failed /\ Failed' = Failed
      /\ r \in rising /\ increasing[r] = rising
      /\ \A s \in Rank : pc[s] \in Early
      /\ \A n \in wire : n.from # r
  BY <1>1, Dividing DEF Failed
<1>3. /\ m.from = r /\ m.to = First(Rank \ rising) /\ m.tag = "divide"
      /\ m.data = bottom[r]
  BY <1>2 DEF Gatherer
<1> HIDE DEF m
<1>4. \A s \in Rank : pc'[s] = IF s = r THEN "divided" ELSE pc[s]
  BY <1>1 DEF IInv, Types
<1>5. InStep'
  <2>1. Turn(r)' = Turn(r)
    BY <1>1, <1>4 DEF Turn
  <2> QED
    BY <1>1, <2>1, StageKept DEF IInv, InStep, Early
<1>6. \A s \in Rank : bottom'[s] = IF s = r THEN {} ELSE bottom[s]
  BY <1>1 DEF IInv, Types
<1>7. \A s \in Rank : Buffered(s)' = Buffered(s)
  BY <1>1 DEF Buffered
<1>8. \A s \in Rank : \A p :
          p \in Local(s)' <=> p \in Local(s) /\ ~(s = r /\ p \in bottom[r])
  BY <1>1, <1>6, <1>7 DEF Apart, Local
<1>9. \A p \in bottom[r] : p \in Local(r)
  BY DEF Local
<1>10. Apart'
  <2>1. \A s, q \in Rank : \A p \in Local(s)' : p \in Local(q)' => s = q
    BY <1>8 DEF Apart
  <2>2. \A n \in wire' : \A s \in Rank : n.data \cap Local(s)' = {}
    BY <1>1, <1>3, <1>8, <1>9 DEF Apart
  <2>3. \A n, o \in wire' : n.data \cap o.data # {} => n = o
    BY <1>1, <1>3, <1>9 DEF Apart
  <2>4. \A s \in Rank : \A p \in Local(s)' :
            /\ p \in bottom'[s] => p \notin top[s] /\ p \notin mesh[s]
            /\ p \in top[s] => p \notin mesh[s]
            /\ p \in Buffered(s) =>
                   p \notin bottom'[s] /\ p \notin top[s] /\ p \notin mesh[s]
    BY <1>6, <1>8 DEF Apart
  <2> QED
    BY <1>1, <1>7, <2>1, <2>2, <2>3, <2>4 DEF Apart
<1>11. Somewhere'
  BY <1>1, <1>3, <1>8 DEF Somewhere
<1>12. Sits' /\ Goes'
  <2>1. pc[r] # "moved"
    BY <1>1
  <2>2. \A p \in m.data : home[p] \in rising
    BY <1>2, <1>3, <2>1 DEF Sits
  <2> QED
    BY <1>1, <1>3, <1>4, <1>6, <2>2 DEF Sits, Goes, ByTop
<1>13. InTime'
  <2>1. \A n \in wire : pc'[n.from] = pc[n.from] \/ n.from \notin Rank
    BY <1>2, <1>4
  <2>2. rising \subseteq Rank
    BY DEF IInv, Types
  <2>3. \A s \in Rank : \A t \in Tag : pc[s] \in Filled(t) => pc'[s] \in Filled(t)
    BY <1>1, <1>4 DEF Filled
  <2>4. \A t : Filled(t)' = Filled(t) /\ Past(t)' = Past(t)
    BY DEF Filled, Past, Receiving
  <2> QED
    BY <1>1, <1>2, <1>3, <1>4, <2>1, <2>2, <2>3, <2>4, ZenonT(60) DEF InTime
<1>14. Books'
  BY <1>1, <1>2, <1>4, BooksClosed DEF Early
<1>15. Gathered'
  <2>1. Waiting' = Waiting
    BY <1>1, <1>2, <1>3, <1>4 DEF Waiting, IInv, Types
  <2>2. \A s \in Rank : pc'[s] \in Later <=> pc[s] \in Later
    BY <1>1, <1>4 DEF Later
  <2>3. \A s \in Rank \ rising : pc'[s] = pc[s]
    BY <1>2, <1>4
  <2> QED
    BY <1>1, <1>2, <1>4, <2>1, <2>2, <2>3 DEF Gathered
<1> QED
  BY <1>5, <1>10, <1>11, <1>12, <1>13, <1>14, <1>15

LEMMA GatherOnePlaces ==
    ASSUME IInv, PInv, NEW r \in Rank, GatherOne(r), IInv' PROVE PInv'
<1> USE DEF PInv
<1>1. PICK m \in wire : /\ m.to = r /\ m.tag = "divide"
                        /\ mesh' = [mesh EXCEPT ![r] = @ \cup m.data]
                        /\ wire' = wire \ {m}
  BY DEF GatherOne
<1>2. /\ how = "gather" /\ pc[r] = "divide" /\ comm[r] # {}
      /\ r = First(comm[r]) /\ toRecv[r] > 0
      /\ toRecv' = [toRecv EXCEPT ![r] = @ - 1]
      /\ UNCHANGED <<how, rising, home, topHome, bottom, top, buf, owed, pc,
                     iter>>
  BY DEF GatherOne
<1>3. /\ ~Failed /\ Failed' = Failed
      /\ r \notin rising /\ r = First(Rank \ rising)
      /\ \A s \in Rank : pc[s] \in Early
      /\ \A n \in wire : /\ n.tag = "divide" /\ n.from \in rising
                         /\ pc[n.from] = "divided" /\ n.to = r
  <2>1. /\ ~Failed
        /\ comm[r] = IF r \in rising THEN {} ELSE Rank \ rising
        /\ \A s \in Rank : pc[s] \in Early
        /\ \A n \in wire : /\ n.tag = "divide" /\ n.from \in rising
                           /\ pc[n.from] = "divided"
                           /\ n.to = First(Rank \ rising)
    BY <1>2, Dividing
  <2>2. comm[r] = Rank \ rising /\ r \notin rising
    BY <1>2, <2>1
  <2> QED
    BY <1>2, <2>1, <2>2 DEF Failed
<1>4. InStep'
  BY <1>2 DEF InStep, SameStage, Turn
<1>5. \A s \in Rank : mesh'[s] = IF s = r THEN mesh[s] \cup m.data ELSE mesh[s]
  BY <1>1 DEF IInv, Types
<1>6. \A s \in Rank : Buffered(s)' = Buffered(s)
  BY <1>2 DEF Buffered
<1>7. \A s \in Rank : \A p :
          p \in Local(s)' <=> p \in Local(s) \/ (s = r /\ p \in m.data)
  BY <1>2, <1>5, <1>6 DEF Local
<1>8. \A s \in Rank : m.data \cap Local(s) = {}
  BY DEF Apart
<1>9. Apart'
  <2>1. \A s, q \in Rank : \A p \in Local(s)' : p \in Local(q)' => s = q
    BY <1>7, <1>8 DEF Apart
  <2>2. \A n \in wire' : \A s \in Rank : n.data \cap Local(s)' = {}
    BY <1>1, <1>7 DEF Apart
  <2>3. \A n, o \in wire' : n.data \cap o.data # {} => n = o
    BY <1>1 DEF Apart
  <2>4. \A p \in m.data : p \notin bottom[r] /\ p \notin top[r]
                            /\ p \notin Buffered(r) /\ p \notin mesh[r]
    BY <1>8 DEF Local
  <2>5. \A s \in Rank : \A p \in Local(s)' :
            /\ p \in bottom[s] => p \notin top[s] /\ p \notin mesh'[s]
            /\ p \in top[s] => p \notin mesh'[s]
            /\ p \in Buffered(s) =>
                   p \notin bottom[s] /\ p \notin top[s] /\ p \notin mesh'[s]
    <3> SUFFICES ASSUME NEW s \in Rank, NEW p \in Local(s)'
                 PROVE  /\ p \in bottom[s] => p \notin top[s]
                        /\ p \in Buffered(s) =>
                               p \notin bottom[s] /\ p \notin top[s]
                        /\ p \in mesh'[s] => /\ p \notin bottom[s]
                                              /\ p \notin top[s]
                                              /\ p \notin Buffered(s)
      OBVIOUS
    <3>1. CASE s = r /\ p \in m.data
      BY <1>5, <2>4, <3>1
    <3>2. CASE ~(s = r /\ p \in m.data)
      <4>1. p \in Local(s)
        BY <1>7, <3>2
      <4>2. p \in mesh'[s] => p \in mesh[s]
        BY <1>5, <3>2
      <4> QED
        BY <4>1, <4>2 DEF Apart
    <3> QED
      BY <3>1, <3>2
  <2> QED
    BY <1>2, <1>6, <2>1, <2>2, <2>3, <2>5 DEF Apart
<1>10. Somewhere'
  BY <1>1, <1>7 DEF Somewhere
<1>11. Sits' /\ Goes'
  BY <1>1, <1>2, <1>3, <1>5 DEF Sits, Goes, ByTop
<1>12. InTime'
  BY <1>1, <1>2, ZenonT(60) DEF InTime, Filled, Past
<1>13. Books'
  BY <1>2, <1>3, BooksClosed DEF Early
<1>14. Waiting' = Waiting \ {m.from} /\ m.from \in Waiting
  <2>1. pc[m.from] # "divide"
    BY <1>3
  <2>2. \A n \in wire : n.from = m.from => n = m
    BY <1>1, <1>3 DEF InTime
  <2>3. \A s \in rising : (\E n \in wire' : n.from = s) <=>
                          (\E n \in wire : n.from = s) /\ s # m.from
    BY <1>1, <2>2
  <2> QED
    BY <1>2, <1>3, <2>1, <2>3 DEF Waiting
<1>15. \A g \in Rank \ rising :
           g = First(Rank \ rising) => toRecv'[g] = Cardinality(Waiting')
  <2>1. toRecv[r] = Cardinality(Waiting)
    BY <1>2, <1>3 DEF Gathered
  <2>2. /\ IsFiniteSet(Waiting) /\ Cardinality(Waiting) \in Nat
        /\ Cardinality(Waiting \ {m.from}) = Cardinality(Waiting) - 1
    BY <1>14, WaitingFinite, FS_RemoveElement DEF IInv
  <2>3. toRecv'[r] = toRecv[r] - 1
    BY <1>2 DEF Gathered
  <2> QED
    BY <1>3, <1>14, <2>1, <2>2, <2>3
<1>16. Gathered'
  <2>1. toRecv' \in [Rank -> Int]
    BY <1>2 DEF Gathered
  <2> QED
    BY <1>1, <1>2, <1>3, <1>5, <1>15, <2>1 DEF Gathered, Later, Early
<1> QED
  BY <1>4, <1>9, <1>10, <1>11, <1>12, <1>13, <1>16

LEMMA EnterBalancingPlaces ==
    ASSUME IInv, PInv, NEW r \in Rank, EnterBalancing(r), IInv' PROVE PInv'
<1> USE DEF PInv
<1>1. /\ how = "gather" /\ comm[r] # {}
      /\ pc[r] = "divide" /\ pc' = [pc EXCEPT ![r] = "balance"]
      /\ r = First(comm[r]) => toRecv[r] = 0
      /\ UNCHANGED <<how, rising, home, topHome, bottom, top, mesh, toRecv,
                     buf, owed, wire, iter>>
  BY DEF EnterBalancing
<1>2. /\ ~Failed /\ Failed' = Failed
      /\ r \notin rising /\ comm[r] = Rank \ rising
      /\ \A s \in Rank : pc[s] \in Early
      /\ \A n \in wire : n.from \in rising
  <2>1. comm[r] = IF r \in rising THEN {} ELSE Rank \ rising
    BY <1>1, Dividing
  <2> QED
    BY <1>1, <2>1, Dividing DEF Failed
<1>3. \A s \in Rank : pc'[s] = IF s = r THEN "balance" ELSE pc[s]
  BY <1>1 DEF IInv, Types
<1>4. InStep'
  <2>1. Turn(r)' = Turn(r)
    BY <1>1, <1>3 DEF Turn
  <2> QED
    BY <1>1, <2>1, StageKept DEF IInv, InStep, Early
<1>5. Apart' /\ Somewhere'
  BY <1>1, PlacesKept
<1>6. Sits' /\ Goes'
  BY <1>1, <1>3, BoundKept
<1>7. InTime'
  <2>1. rising \subseteq Rank
    BY DEF IInv, Types
  <2>2. \A n \in wire : pc'[n.from] = pc[n.from]
    BY <1>2, <1>3, <2>1
  <2>3. \A s \in Rank : \A t \in Tag : pc[s] \in Filled(t) => pc'[s] \in Filled(t)
    BY <1>1, <1>3 DEF Filled
  <2>4. \A t : Filled(t)' = Filled(t) /\ Past(t)' = Past(t)
    BY DEF Filled, Past, Receiving
  <2> QED
    BY <1>1, <2>2, <2>3, <2>4 DEF InTime
<1>8. Books'
  BY <1>1, <1>2, <1>3, BooksClosed DEF Early
<1>9. Waiting' = Waiting
  BY <1>1, <1>2, <1>3 DEF Waiting, IInv, Types
<1>10. r = First(Rank \ rising) => Waiting = {}
  BY <1>1, <1>2, WaitingFinite, FS_EmptySet DEF Gathered, IInv
<1>11. Gathered'
  <2>1. \A s \in Rank : pc'[s] \in Later <=> pc[s] \in Later
    BY <1>1, <1>3 DEF Later
  <2>2. \A s \in Rank : pc'[s] = "divided" <=> pc[s] = "divided"
    BY <1>1, <1>3
  <2>3. \A g \in Rank \ rising : g = First(Rank \ rising) =>
            /\ pc'[g] = "divide" => toRecv'[g] = Cardinality(Waiting')
            /\ pc'[g] \in {"balance", "divided"} => Waiting' = {}
    BY <1>1, <1>3, <1>9, <1>10 DEF Gathered
  <2> QED
    BY <1>1, <1>2, <1>3, <2>1, <2>2, <2>3 DEF Gathered
<1> QED
  BY <1>4, <1>5, <1>6, <1>7, <1>8, <1>11

LEMMA BalanceTopPlaces ==
    ASSUME IInv, PInv, BalanceTop, IInv' PROVE PInv'
<1> USE DEF PInv
<1> DEFINE OfMesh(p) == \E q \in Rank : p \in mesh[q]
<1>1. /\ topHome' \in [Particle -> {s \in Rank : comm[s] # {}}]
      /\ top' = Spread(mesh, topHome')
      /\ mesh' = [s \in Rank |-> {}]
      /\ pc' = [s \in Rank |-> IF comm[s] # {} THEN "divided" ELSE pc[s]]
      /\ UNCHANGED <<how, rising, home, bottom, toRecv, buf, owed, wire, iter>>
  BY DEF BalanceTop
<1>2. PICK r \in Rank : comm[r] # {} /\ \A s \in comm[r] : pc[s] = "balance"
  BY DEF BalanceTop
<1>3. pc[r] \in {"divide", "balance"}
  <2>1. pc[r] # "split" /\ SplitSo(r)
    BY <1>2 DEF IInv, View, AllAt
  <2> QED
    BY <1>2, <2>1 DEF SplitSo
<1>4. /\ ~Failed /\ Failed' = Failed /\ rising \subseteq Rank
      /\ \A s \in Rank : /\ pc[s] \in Early
                         /\ s \notin rising => pc[s] = "balance"
                         /\ comm[s] # {} <=> s \notin rising
      /\ \A n \in wire : n.tag = "divide" /\ n.from \in rising
      /\ \A s, d \in Rank : \A t \in Tag : buf[s][t][d] = {}
  <2>1. \A s \in Rank : comm[s] # {} <=> s \notin rising
    BY <1>3, Dividing
  <2>2. comm[r] = Rank \ rising
    BY <1>2, <1>3, Dividing
  <2> QED
    BY <1>1, <1>2, <1>3, <2>1, <2>2, Dividing DEF Failed, IInv, Types
<1>5. r \notin rising /\ pc[r] = "balance"
  BY <1>2, <1>4
<1>6. \A s \in Rank : top[s] = {}
  BY <1>4, <1>5 DEF Gathered, Later
<1>7. \A s \in Rank : pc'[s] = IF s \in rising THEN pc[s] ELSE "divided"
  BY <1>1, <1>4
<1>8. InStep'
  <2>1. \A s \in Rank : pc'[s] \in Early /\ pc[s] # "ready" /\ pc'[s] # "ready"
    BY <1>4, <1>7 DEF Early
  <2> QED
    BY <1>1, <2>1 DEF InStep, SameStage, Turn
<1>9. \A s \in Rank : Buffered(s) = {} /\ Buffered(s)' = {}
  BY <1>1, <1>4 DEF Buffered
<1>10. \A s \in Rank : \A p \in Particle :
           p \in top'[s] <=> OfMesh(p) /\ topHome'[p] = s
  BY <1>1, <1>6 DEF Spread
<1>11. \A s \in Rank : top'[s] \subseteq Particle /\ bottom[s] \subseteq Particle
                       /\ mesh[s] \subseteq Particle
  BY DEF IInv, Types
<1> HIDE DEF OfMesh
<1>12. \A p \in Particle : OfMesh(p) =>
           /\ \A s \in Rank : p \notin bottom[s]
           /\ \A n \in wire : p \notin n.data
  BY DEF OfMesh, Apart, Local
<1>13. \A p \in Particle : \A s \in Rank :
           /\ OfMesh(p) => (p \in Local(s)' <=> topHome'[p] = s)
           /\ ~OfMesh(p) => (p \in Local(s)' <=> p \in Local(s))
  BY <1>1, <1>6, <1>9, <1>10, <1>12 DEF Local, OfMesh
<1>14. \A s \in Rank : Local(s)' \subseteq Particle
  BY <1>1, <1>9, <1>11 DEF Local
<1>15. Apart'
  <2>1. \A s, q \in Rank : \A p \in Local(s)' : p \in Local(q)' => s = q
    BY <1>13, <1>14 DEF Apart
  <2>2. \A n \in wire' : \A s \in Rank : n.data \cap Local(s)' = {}
    <3>1. \A n \in wire : \A s \in Rank : \A p \in Local(s)' : p \notin n.data
      BY <1>12, <1>13, <1>14 DEF Apart
    <3> QED
      BY <1>1, <3>1
  <2>3. \A s \in Rank : \A p \in Local(s)' :
            /\ p \in bottom[s] => p \notin top'[s]
            /\ p \notin mesh'[s]
            /\ p \notin Buffered(s)'
    BY <1>1, <1>9, <1>10, <1>11, <1>12
  <2> QED
    BY <1>1, <2>1, <2>2, <2>3 DEF Apart
<1>16. Somewhere'
  <2>1. \A p \in Particle : OfMesh(p) => \E s \in Rank : p \in Local(s)'
    BY <1>1, <1>13
  <2> QED
    BY <1>1, <1>13, <2>1 DEF Somewhere
<1>17. Sits' /\ Goes'
  <2>1. \A p \in Particle : OfMesh(p) => home[p] \in rising
    BY DEF OfMesh, Goes
  <2>2. \A s \in Rank : \A p \in top'[s] : home[p] \in rising /\ topHome'[p] = s
    BY <1>10, <1>11, <2>1
  <2>3. \A s \in Rank : pc[s] # "moved"
    BY <1>4 DEF Early
  <2>4. Sits'
    BY <1>1, <2>2, <2>3 DEF Sits, ByTop
  <2>5. Goes'
    BY <1>1, <1>4 DEF Goes, Tag
  <2> QED
    BY <2>4, <2>5
<1>18. InTime'
  <2>1. \A n \in wire : pc'[n.from] = pc[n.from]
    BY <1>4, <1>7
  <2>2. \A t : Past(t)' = Past(t)
    BY DEF Past, Receiving
  <2> QED
    BY <1>1, <1>4, <2>1, <2>2 DEF InTime
<1>19. Books'
  BY <1>1, <1>4, <1>7, BooksClosed DEF Early
<1>20. Waiting' = Waiting
  BY <1>1, <1>4, <1>7 DEF Waiting
<1>21. Gathered'
  <2>1. how = "gather"
    BY <1>5 DEF Gathered
  <2>2. \A s \in Rank : pc'[s] \notin Later
    BY <1>4, <1>7 DEF Early, Later
  <2>3. \A g \in Rank \ rising : g = First(Rank \ rising) => Waiting = {}
    BY <1>4 DEF Gathered
  <2>4. /\ how' \in {"gather", "direct"} /\ toRecv' \in [Rank -> Int]
        /\ \A s \in Rank \ rising' : pc'[s] = "divided"
        /\ \A s \in Rank : mesh'[s] = {}
    BY <1>1, <1>7 DEF Gathered
  <2> QED
    BY <1>1, <1>4, <1>20, <2>1, <2>2, <2>3, <2>4 DEF Gathered
<1> QED
  BY <1>8, <1>15, <1>16, <1>17, <1>18, <1>19, <1>21

LEMMA Divide2Places == ASSUME IInv, PInv, Divide2, IInv' PROVE PInv'
<1> USE DEF PInv
<1> DEFINE given == [q \in Rank |-> IF InTop(q) THEN {} ELSE bottom[q]]
           Given(p) == \E q \in rising : p \in bottom[q]
<1>1. /\ how = "direct" /\ AllAt("divide")
      /\ topHome' \in [Particle -> {s \in Rank : InTop(s)}]
      /\ top' = Spread(given, topHome')
      /\ bottom' = [s \in Rank |-> AfterDividing(s)]
      /\ pc' = [s \in Rank |-> "ready"]
      /\ UNCHANGED <<how, rising, home, mesh, toRecv, buf, owed, wire, iter>>
  BY DEF Divide2
<1>2. PICK r \in Rank : pc[r] = "divide"
  BY <1>1, RankAssumption DEF AllAt
<1>3. /\ ~Failed /\ Failed' = Failed /\ rising \subseteq Rank
      /\ Rank \ rising # {}
      /\ \A s \in Rank : pc[s] = "divide" /\ (InTop(s) <=> s \notin rising)
      /\ \A s, d \in Rank : \A t \in Tag : buf[s][t][d] = {}
      /\ \A n \in wire : n.from \in Rank /\ pc[n.from] = "divided"
  BY <1>1, <1>2, Dividing DEF AllAt, Failed, IInv, Types
<1>4. /\ wire = {}
      /\ \A s \in Rank : mesh[s] = {} /\ top[s] = {}
  BY <1>1, <1>3 DEF Gathered, Later
<1>5. InStep'
  <2>1. \A s \in Rank : Turn(s)' = iter[s] + 1 /\ Turn(s) = iter[s]
    BY <1>1, <1>3 DEF Turn
  <2> QED
    BY <1>1, <2>1 DEF InStep, SameStage, Entering
<1>6. \A s \in Rank : Buffered(s) = {} /\ Buffered(s)' = {}
  BY <1>1, <1>3 DEF Buffered
<1>7. \A s \in Rank : bottom'[s] = IF s \in rising THEN {} ELSE bottom[s]
  BY <1>1, <1>3 DEF AfterDividing
<1>8. \A s \in Rank : \A p \in Particle :
          p \in top'[s] <=> Given(p) /\ topHome'[p] = s
  <2>1. \A q \in Rank : given[q] = IF q \in rising THEN bottom[q] ELSE {}
    BY <1>3
  <2>2. top' = [s \in Rank |->
                   top[s] \cup {p \in UNION {given[q] : q \in Rank} :
                                   topHome'[p] = s}]
    BY <1>1 DEF Spread
  <2> HIDE DEF given
  <2>3. \A s \in Rank : \A p \in Particle :
            p \in top'[s] <=> (\E q \in Rank : p \in given[q]) /\ topHome'[p] = s
    BY <1>4, <2>2
  <2> QED
    BY <1>3, <2>1, <2>3
<1>9. \A s \in Rank : top'[s] \subseteq Particle /\ bottom[s] \subseteq Particle
  BY DEF IInv, Types
<1> HIDE DEF given, Given
<1>10. \A s \in Rank : /\ Local(s) = bottom[s]
                       /\ Local(s)' = bottom'[s] \cup top'[s]
  BY <1>1, <1>4, <1>6 DEF Local
<1>11. \A p \in Particle : Given(p) => \A s \in Rank : p \notin bottom'[s]
  BY <1>3, <1>7, <1>10 DEF Given, Apart
<1>12. Apart'
  <2>1. \A s, q \in Rank : \A p \in Particle :
            p \in Local(s)' /\ p \in Local(q)' => s = q
    BY <1>7, <1>8, <1>10, <1>11 DEF Apart
  <2>2. \A s \in Rank : \A p \in Particle :
            /\ p \in bottom'[s] => p \notin top'[s]
            /\ p \notin mesh'[s] /\ p \notin Buffered(s)'
    BY <1>1, <1>4, <1>6, <1>8, <1>11
  <2>3. \A s \in Rank : Local(s)' \subseteq Particle
    BY <1>7, <1>9, <1>10
  <2> QED
    BY <1>1, <1>4, <2>1, <2>2, <2>3 DEF Apart
<1>13. Somewhere'
  <2>1. \A p \in Particle : Given(p) => \E s \in Rank : p \in Local(s)'
    BY <1>1, <1>8, <1>10
  <2>2. \A p \in Particle : ~Given(p) => \E s \in Rank : p \in bottom'[s]
    BY <1>4, <1>7, <1>10 DEF Given, Somewhere
  <2> QED
    BY <1>1, <1>10, <2>1, <2>2 DEF Somewhere
<1>14. Sits' /\ Goes'
  <2>1. \A s \in Rank : \A p \in bottom[s] : home[p] = s
    BY <1>3 DEF Sits
  <2>2. \A s \in Rank : \A p \in top'[s] : home[p] \in rising /\ topHome'[p] = s
    BY <1>3, <1>8, <1>9, <2>1 DEF Given
  <2>3. Sits'
    BY <1>1, <1>7, <2>1, <2>2 DEF Sits, ByTop
  <2>4. Goes'
    BY <1>1, <1>3, <1>4 DEF Goes, Tag
  <2> QED
    BY <2>3, <2>4
<1>15. InTime'
  BY <1>1, <1>3, <1>4 DEF InTime
<1>16. Books'
  BY <1>1, <1>3, BooksClosed DEF Early, Entering
<1>17. Gathered'
  BY <1>1, <1>3, <1>4 DEF Gathered, Later
<1> QED
  BY <1>5, <1>12, <1>13, <1>14, <1>15, <1>16, <1>17

-----------------------------------------------------------------------------
(***************************************************************************)
(* migrate.                                                                *)
(***************************************************************************)

(* What is settled once the division is over.                              *)
LEMMA Migrating ==
    ASSUME IInv, PInv, NEW r \in Rank, pc[r] \in Later
    PROVE  /\ ~Failed /\ rising \subseteq Rank /\ how = "direct"
           /\ \A s \in Rank : /\ pc[s] \in Later
                              /\ increasing[s] = rising
                              /\ InTop(s) <=> s \notin rising
                              /\ mesh[s] = {}
           /\ \A m \in wire : /\ m.tag \in Tag /\ m.data # {}
                              /\ m.from \in Rank /\ m.to \in Rank
                              /\ pc[m.from] \in Past(m.tag)
<1> USE DEF PInv
<1>1. \A s \in Rank : pc[s] \in Later
  <2>1. SameStage
    BY DEF InStep
  <2>2. \A w \in {Entering, Sending, Receiving} : w \subseteq Later
    BY DEF Entering, Sending, Receiving, Later
  <2>3. \E w \in {Entering, Sending, Receiving} : pc[r] \in w
    BY DEF Entering, Sending, Receiving, Later
  <2>4. PICK w \in {Entering, Sending, Receiving} : pc[r] \in w
    BY <2>3
  <2>5. \A s \in Rank : pc[s] \in w
    BY <2>1, <2>4, Stages
  <2> QED
    BY <2>2, <2>5
<1>2. ~Failed /\ how = "direct" /\ rising \subseteq Rank
  BY DEF Gathered, Later, IInv, Types
<1>3. \A s \in Rank : increasing[s] = rising
  <2>1. \A s \in Rank : SplitSo(s)
    BY <1>1 DEF IInv, View, AllAt, Later
  <2> QED
    BY <1>2, <2>1 DEF SplitSo
<1>4. \A s \in Rank : mesh[s] = {}
  BY <1>2 DEF Gathered
<1>5. \A m \in wire : /\ m.tag \in Tag /\ m.data # {}
                      /\ m.from \in Rank /\ m.to \in Rank
                      /\ pc[m.from] \in Past(m.tag)
  BY <1>1, <1>2 DEF InTime, Later
<1> QED
  BY <1>1, <1>2, <1>3, <1>4, <1>5 DEF InTop

LEMMA GatheredKept ==
    ASSUME IInv, PInv, NEW r \in Rank, pc[r] \in Later,
           \A s \in Rank : pc'[s] \in Later,
           UNCHANGED <<how, rising, mesh, toRecv>>
    PROVE  Gathered'
<1>1. ~Failed /\ how = "direct" /\ \A s \in Rank : mesh[s] = {}
  BY Migrating
<1>2. Failed' = Failed
  BY DEF Failed
<1> QED
  BY <1>1, <1>2 DEF Gathered, Later, PInv

(* Before the sends of a call there is no message.                         *)
LEMMA QuietEntry ==
    ASSUME IInv, PInv, NEW r \in Rank, pc[r] \in Entering
    PROVE  /\ wire = {}
           /\ \A s \in Rank : pc[s] \in Entering
<1>1. pc[r] \in Later
  BY DEF Entering, Later
<1>2. \A s \in Rank : pc[s] \in Entering
  BY Stages DEF PInv, InStep
<1>3. \A m \in wire : m.from \in Rank /\ pc[m.from] \in Past(m.tag)
  BY <1>1, Migrating
<1> QED
  BY <1>2, <1>3 DEF Past, Entering, Receiving

LEMMA MovePlaces ==
    ASSUME IInv, PInv, NEW r \in Rank, Move(r), IInv' PROVE PInv'
<1> USE DEF PInv
<1> DEFINE mine == bottom[r] \cup top[r]
<1>1. /\ pc[r] = "ready" /\ pc' = [pc EXCEPT ![r] = "moved"]
      /\ iter' = [iter EXCEPT ![r] = @ + 1]
      /\ UNCHANGED <<how, rising, bottom, top, mesh, toRecv, buf, owed, wire>>
  BY DEF Move
<1>2. \A p \in Particle \ mine : home'[p] = home[p] /\ topHome'[p] = topHome[p]
  BY DEF Move
<1>3. pc[r] \in Entering /\ pc[r] \in Later
  BY <1>1 DEF Entering, Later
<1>4. \A s \in Rank : pc'[s] = IF s = r THEN "moved" ELSE pc[s]
  BY <1>1 DEF IInv, Types
<1>5. \A s \in Rank : pc[s] \in Entering /\ pc'[s] \in Entering
  BY <1>3, <1>4, QuietEntry DEF Entering
<1>6. wire = {}
  BY <1>3, QuietEntry
<1>7. InStep'
  <2>1. Turn(r)' = Turn(r)
    BY <1>1, <1>4 DEF Turn, InStep
  <2>2. iter' \in [Rank -> Nat] /\ \A s \in Rank : s # r => iter'[s] = iter[s]
    BY <1>1 DEF InStep
  <2> QED
    BY <1>1, <1>3, <2>1, <2>2, StageKept DEF IInv, Entering
<1>8. Apart' /\ Somewhere'
  BY <1>1, PlacesKept
<1>9. \A s \in Rank \ {r} : \A p \in Local(s) : p \notin mine
  BY DEF Apart, Local
<1>10. \A s \in Rank : bottom[s] \subseteq Particle /\ top[s] \subseteq Particle
  BY DEF IInv, Types
<1>11. Sits'
  <2>1. ASSUME NEW s \in Rank, pc'[s] # "moved"
        PROVE  /\ \A p \in bottom[s] : home'[p] = s
               /\ \A p \in top[s] : \/ home'[p] = s
                                    \/ home'[p] \in rising /\ topHome'[p] = s
    <3>1. s # r /\ pc[s] # "moved"
      BY <1>4, <2>1
    <3>2. \A p \in bottom[s] \cup top[s] : home'[p] = home[p]
                                           /\ topHome'[p] = topHome[p]
      BY <1>2, <1>9, <1>10, <3>1 DEF Local
    <3> QED
      BY <3>1, <3>2 DEF Sits, ByTop
  <2>2. home' \in [Particle -> Rank]
    BY DEF Move, Sits
  <2> QED
    BY <1>1, <2>1, <2>2 DEF Sits, ByTop
<1>12. Goes'
  <2>1. ASSUME NEW s \in Rank, NEW d \in Rank, NEW t \in Tag,
               NEW p \in buf[s][t][d]
        PROVE  home'[p] = home[p] /\ topHome'[p] = topHome[p]
    <3>1. s # r
      BY <1>1, <2>1 DEF InTime, Filled
    <3>2. p \in Particle /\ p \in Local(s)
      BY DEF IInv, Types, Local, Buffered
    <3> QED
      BY <1>2, <1>9, <3>1, <3>2
  <2>2. \A s \in Rank : mesh[s] = {}
    BY <1>3, Migrating
  <2> QED
    BY <1>1, <1>6, <2>1, <2>2 DEF Goes, ByTop, Tag
<1>13. InTime'
  <2>1. \A s \in Rank : \A t \in Tag : pc[s] \in Filled(t) => pc'[s] \in Filled(t)
    BY <1>1, <1>4 DEF Filled
  <2>2. \A t : Filled(t)' = Filled(t)
    BY DEF Filled
  <2> QED
    BY <1>1, <1>6, <2>1, <2>2 DEF InTime
<1>14. Books'
  BY <1>1, <1>5, BooksClosed
<1>15. Gathered'
  BY <1>1, <1>3, <1>5, GatheredKept DEF Entering, Later
<1> QED
  BY <1>7, <1>8, <1>11, <1>12, <1>13, <1>14, <1>15

LEMMA MarkExportsPlaces ==
    ASSUME IInv, PInv, NEW r \in Rank, MarkExports(r), IInv' PROVE PInv'
<1> USE DEF PInv
<1> DEFINE fromBottom == {p \in bottom[r] : home[p] # r}
           fromTop == {p \in top[r] : InTop(r) /\ LeavesForBottom(r, p)}
           withinTop == {p \in top[r] : InTop(r) /\ LeavesTop(r, p)}
           b == [bottom |-> [d \in Rank |->
                                {p \in fromBottom \cup fromTop : home[p] = d}],
                 top |-> [d \in Rank |-> {p \in withinTop : TopDest(p) = d}]]
<1>1. /\ pc[r] = "moved" /\ pc' = [pc EXCEPT ![r] = "invertBottom"]
      /\ bottom' = [bottom EXCEPT ![r] = @ \ fromBottom]
      /\ top' = [top EXCEPT ![r] = @ \ (fromTop \cup withinTop)]
      /\ buf' = [buf EXCEPT ![r] = b]
      /\ UNCHANGED <<how, rising, home, topHome, mesh, toRecv, owed, wire, iter>>
  BY DEF MarkExports
<1>2. pc[r] \in Entering /\ pc[r] \in Later
  BY <1>1 DEF Entering, Later
<1>3. /\ \A s \in Rank : (InTop(s) <=> s \notin rising) /\ mesh[s] = {}
      /\ increasing[r] = rising
  BY <1>2, Migrating
<1>4. top[r] # {} => r \notin rising
  BY <1>3 DEF IInv, TopDataOnTop
<1>5. \A p : /\ p \in fromBottom <=> p \in bottom[r] /\ home[p] # r
             /\ p \in fromTop <=> /\ p \in top[r]
                                  /\ home[p] # r /\ home[p] \notin rising
             /\ p \in withinTop <=> /\ p \in top[r] /\ topHome[p] # r
                                    /\ home[p] # r /\ home[p] \in rising
  BY <1>3, <1>4 DEF LeavesForBottom, LeavesTop
<1>6. \A d \in Rank : \A p :
          /\ p \in b["bottom"][d] <=> /\ p \in fromBottom \/ p \in fromTop
                                      /\ home[p] = d
          /\ p \in b["top"][d] <=> p \in withinTop /\ topHome[p] = d
  BY DEF TopDest
<1> HIDE DEF fromBottom, fromTop, withinTop, b
<1>7. /\ \A s \in Rank : pc'[s] = IF s = r THEN "invertBottom" ELSE pc[s]
      /\ \A s \in Rank : bottom'[s] = IF s = r THEN bottom[r] \ fromBottom
                                      ELSE bottom[s]
      /\ \A s \in Rank : top'[s] = IF s = r
                                   THEN top[r] \ (fromTop \cup withinTop)
                                   ELSE top[s]
      /\ \A s \in Rank : buf'[s] = IF s = r THEN b ELSE buf[s]
  BY <1>1 DEF IInv, Types
<1>8. \A s \in Rank : pc[s] \in Entering /\ pc'[s] \in Entering
  BY <1>2, <1>7, QuietEntry DEF Entering
<1>9. wire = {}
  BY <1>2, QuietEntry
<1>10. InStep'
  <2>1. Turn(r)' = Turn(r)
    BY <1>1, <1>7 DEF Turn
  <2> QED
    BY <1>1, <1>2, <2>1, StageKept DEF IInv, InStep, Entering
<1>11. /\ Buffered(r) = {}
       /\ \A s \in Rank : s # r => Buffered(s)' = Buffered(s)
       /\ \A p : p \in Buffered(r)' <=> \/ p \in fromBottom
                                        \/ p \in fromTop
                                        \/ p \in withinTop
  <2>1. \A t \in Tag, d \in Rank : buf[r][t][d] = {}
    BY <1>1 DEF InTime, Filled
  <2>2. \A s \in Rank : s # r => Buffered(s)' = Buffered(s)
    BY <1>7 DEF Buffered
  <2>3. \A p \in Particle : home[p] \in Rank /\ topHome[p] \in Rank
    BY DEF Sits, IInv, Types
  <2>4. bottom[r] \subseteq Particle /\ top[r] \subseteq Particle
    BY DEF IInv, Types
  <2>5. \A p \in Particle : p \in Buffered(r)' <=> \/ p \in fromBottom
                                                   \/ p \in fromTop
                                                   \/ p \in withinTop
    BY <1>6, <1>7, <2>3 DEF Buffered, Tag
  <2> QED
    BY <1>5, <2>1, <2>2, <2>4, <2>5 DEF Buffered
<1>12. \A s \in Rank : \A p : p \in Local(s)' <=> p \in Local(s)
  BY <1>1, <1>5, <1>7, <1>11 DEF Local
<1>13. Apart'
  <2>1. \A s, q \in Rank : \A p \in Local(s)' : p \in Local(q)' => s = q
    BY <1>12 DEF Apart
  <2>2. \A s \in Rank : \A p \in Local(s)' :
            /\ p \in bottom'[s] => p \notin top'[s] /\ p \notin mesh'[s]
            /\ p \in top'[s] => p \notin mesh'[s]
            /\ p \in Buffered(s)' => /\ p \notin bottom'[s]
                                     /\ p \notin top'[s] /\ p \notin mesh'[s]
    <3> SUFFICES ASSUME NEW s \in Rank, NEW p \in Local(s)
                 PROVE  /\ p \in bottom'[s] => p \notin top'[s]
                        /\ p \in Buffered(s)' => /\ p \notin bottom'[s]
                                                 /\ p \notin top'[s]
      BY <1>1, <1>3, <1>12
    <3>1. CASE s = r
      BY <1>5, <1>7, <1>11, <3>1 DEF Apart
    <3>2. CASE s # r
      BY <1>7, <1>11, <3>2 DEF Apart
    <3> QED
      BY <3>1, <3>2
  <2>3. \A s, d, e \in Rank : \A t, u \in Tag : \A p \in buf'[s][t][d] :
            p \in buf'[s][u][e] => t = u /\ d = e
    <3>1. \A s, d, e \in Rank : \A t, u \in Tag : \A p \in buf[s][t][d] :
              p \in buf[s][u][e] => t = u /\ d = e
      BY DEF Apart
    <3>2. \A p \in bottom[r] : p \notin top[r]
      BY DEF Apart, Local
    <3>3. \A d, e \in Rank : \A t, u \in Tag : \A p \in b[t][d] :
              p \in b[u][e] => t = u /\ d = e
      BY <1>5, <1>6, <3>2 DEF Tag
    <3> QED
      BY <1>7, <3>1, <3>3
  <2> QED
    BY <1>1, <1>9, <2>1, <2>2, <2>3 DEF Apart
<1>14. Somewhere'
  BY <1>1, <1>12 DEF Somewhere
<1>15. Sits'
  <2>1. \A p \in bottom'[r] : home[p] = r
    BY <1>5, <1>7
  <2>2. \A p \in top'[r] : home[p] = r \/ (home[p] \in rising /\ topHome[p] = r)
    BY <1>5, <1>7
  <2> QED
    BY <1>1, <1>7, <2>1, <2>2 DEF Sits, ByTop
<1>16. Goes'
  <2>1. \A d \in Rank : /\ \A p \in b["bottom"][d] : home[p] = d
                        /\ \A p \in b["top"][d] : home[p] \in rising
                                                  /\ topHome[p] = d
                        /\ r \in rising => b["top"][d] = {}
    BY <1>4, <1>5, <1>6
  <2> QED
    BY <1>1, <1>3, <1>7, <1>9, <2>1 DEF Goes, ByTop
<1>17. InTime'
  <2>1. \A t \in Tag : pc'[r] \in Filled(t)
    BY <1>7 DEF Filled
  <2>2. \A t : Filled(t)' = Filled(t)
    BY DEF Filled
  <2> QED
    BY <1>1, <1>7, <1>9, <2>1, <2>2 DEF InTime
<1>18. Books'
  BY <1>1, <1>8, BooksClosed
<1>19. Gathered'
  BY <1>1, <1>2, <1>8, GatheredKept DEF Entering, Later
<1> QED
  BY <1>10, <1>13, <1>14, <1>15, <1>16, <1>17, <1>18, <1>19

LEMMA InvertBottomPlaces ==
    ASSUME IInv, PInv, InvertBottom, IInv' PROVE PInv'
<1> USE DEF PInv
<1>1. /\ owed' = [r \in Rank |-> [owed[r] EXCEPT !["bottom"] =
                     Exporters(r, "bottom")]]
      /\ pc' = [r \in Rank |-> "sendBottom"]
      /\ UNCHANGED <<how, rising, home, topHome, bottom, top, mesh, toRecv,
                     buf, wire, iter>>
  BY DEF InvertBottom
<1>2. PICK r \in Rank : pc[r] = "invertBottom"
  BY RankAssumption DEF InvertBottom, AllAt
<1>3. \A s \in Rank : pc[s] = "invertBottom" /\ pc'[s] = "sendBottom"
  BY <1>1 DEF InvertBottom, AllAt
<1>4. pc[r] \in Entering /\ pc[r] \in Later /\ wire = {}
  BY <1>2, QuietEntry DEF Entering, Later
<1>5. InStep'
  BY <1>1, <1>3 DEF InStep, SameStage, Sending, Turn
<1>6. Apart' /\ Somewhere'
  BY <1>1, PlacesKept
<1>7. Sits' /\ Goes'
  BY <1>1, <1>3, BoundKept
<1>8. InTime'
  BY <1>1, <1>3, <1>4 DEF InTime, Filled, Tag
<1>9. Books'
  <2>1. \A s \in Rank : \A t \in Tag : owed[s][t] = {}
    <3>1. \A s \in Rank : \A t \in Tag : pc[s] \notin Told(t)
      BY <1>3 DEF Told, Sending, Receiving
    <3>2. \A s \in Rank : \A t \in Tag : owed[s][t] \subseteq Rank
      BY DEF Books
    <3> QED
      BY <3>1, <3>2 DEF Books
  <2>2. \A s \in Rank : /\ owed'[s]["bottom"] = Exporters(s, "bottom")
                        /\ owed'[s]["top"] = {}
    BY <1>1, <2>1 DEF Books, Tag
  <2>3. owed' \in [Rank -> [Tag -> SUBSET Rank]]
    BY <1>1 DEF Books, Exporters
  <2>4. \A q, s \in Rank : q \in owed'[s]["bottom"] <=> buf[q]["bottom"][s] # {}
    BY <2>2 DEF Exporters
  <2>5. \A s \in Rank : pc'[s] \in Told("bottom")' /\ pc'[s] \notin Told("top")'
    BY <1>3 DEF Told, Sending, Receiving
  <2>6. \A q, s, t : ~UnderWay(q, t, s)'
    BY <1>1, <1>4 DEF UnderWay
  <2> QED
    BY <1>1, <1>3, <2>2, <2>3, <2>4, <2>5, <2>6 DEF Books, Tag
<1>10. Gathered'
  BY <1>1, <1>3, <1>4, GatheredKept DEF Later
<1> QED
  BY <1>5, <1>6, <1>7, <1>8, <1>9, <1>10

(* What a rank sends under a tag is what its buffers of that tag held.     *)
LEMMA SendPlaces ==
    ASSUME IInv, PInv, IInv', NEW r \in Rank, NEW t \in Tag, pc[r] \in Later,
           \A n \in wire : n.from = r => n.tag # t,
           wire' = wire \cup Messages(r, t),
           \A s, d \in Rank : \A u \in Tag :
               buf'[s][u][d] = IF s = r /\ u = t THEN {} ELSE buf[s][u][d],
           UNCHANGED <<rising, home, topHome, bottom, top, mesh>>
    PROVE  /\ Apart' /\ Somewhere' /\ Goes'
           /\ \A m, n \in wire' : m.from = n.from /\ m.to = n.to
                                  /\ m.tag = n.tag => m = n
           /\ \A s, q \in Rank : \A u \in Tag :
                  buf'[s][u][q] # {} \/ UnderWay(s, u, q)'
                  <=> buf[s][u][q] # {} \/ UnderWay(s, u, q)
<1> USE DEF PInv
<1>1. \A n \in Messages(r, t) : /\ n.from = r /\ n.tag = t /\ n.to \in Rank
                                /\ n.data = buf[r][t][n.to] /\ n.data # {}
  BY DEF Messages
<1>2. \A d \in Rank : buf[r][t][d] # {} =>
          \E n \in Messages(r, t) : n.to = d
  <2> SUFFICES ASSUME NEW d \in Rank, buf[r][t][d] # {}
               PROVE  \E n \in Messages(r, t) : n.to = d
    OBVIOUS
  <2> DEFINE n == [from |-> r, to |-> d, tag |-> t, data |-> buf[r][t][d]]
  <2>1. n \in Messages(r, t) /\ n.to = d
    BY DEF Messages
  <2> QED
    BY <2>1
<1>3. \A m, n \in Messages(r, t) : m.to = n.to => m = n
  BY DEF Messages
<1>4. /\ \A m \in wire' : m \in wire \/ m \in Messages(r, t)
      /\ \A m \in wire : m \in wire'
      /\ \A m \in Messages(r, t) : m \in wire'
  OBVIOUS
<1> HIDE DEF Messages
<1>5. \A s \in Rank : \A p \in Particle :
          p \in Buffered(s)' <=>
              /\ p \in Buffered(s)
              /\ s = r => \A d \in Rank : p \notin buf[r][t][d]
  <2> SUFFICES ASSUME NEW s \in Rank, NEW p \in Particle
               PROVE  p \in Buffered(s)' <=>
                         /\ p \in Buffered(s)
                         /\ s = r => \A d \in Rank : p \notin buf[r][t][d]
    OBVIOUS
  <2>1. p \in Buffered(s)' <=> \E u \in Tag, d \in Rank : p \in buf'[s][u][d]
    BY DEF Buffered
  <2>2. p \in Buffered(s) <=> \E u \in Tag, d \in Rank : p \in buf[s][u][d]
    BY DEF Buffered
  <2>3. \A u, v \in Tag, d, e \in Rank :
            p \in buf[s][u][d] /\ p \in buf[s][v][e] => u = v
    BY DEF Apart
  <2> QED
    BY <2>1, <2>2, <2>3
<1>6. \A s \in Rank : Buffered(s) \subseteq Particle
                      /\ Buffered(s)' \subseteq Particle
  BY DEF Buffered
<1>7. \A d \in Rank : \A p \in buf[r][t][d] : p \in Buffered(r) /\ p \in Local(r)
  BY DEF IInv, Types, Buffered, Local
<1>8. \A s \in Rank : \A p : p \in Local(s)' => p \in Local(s)
  BY <1>5, <1>6 DEF Local
<1>9. \A d \in Rank : \A p \in buf[r][t][d] : \A s \in Rank : p \notin Local(s)'
  <2> SUFFICES ASSUME NEW d \in Rank, NEW p \in buf[r][t][d],
                      NEW s \in Rank, p \in Local(s)'
               PROVE  FALSE
    OBVIOUS
  <2>1. s = r /\ p \in Local(r) /\ p \in Buffered(r)
    BY <1>7, <1>8 DEF Apart
  <2>2. p \notin Buffered(r)'
    BY <1>5, <1>6
  <2>3. p \notin bottom[r] /\ p \notin top[r] /\ p \notin mesh[r]
    BY <2>1 DEF Apart
  <2> QED
    BY <2>1, <2>2, <2>3 DEF Local
<1>10. Apart'
  <2>1. \A s, q \in Rank : \A p \in Local(s)' : p \in Local(q)' => s = q
    BY <1>8 DEF Apart
  <2>2. \A n \in wire' : \A s \in Rank : n.data \cap Local(s)' = {}
    <3>1. \A n \in wire : \A s \in Rank : \A p \in Local(s)' : p \notin n.data
      BY <1>8 DEF Apart
    <3>2. \A n \in Messages(r, t) : \A s \in Rank : \A p \in Local(s)' :
              p \notin n.data
      BY <1>1, <1>9
    <3> QED
      BY <1>4, <3>1, <3>2
  <2>3. \A m, n \in wire' : m.data \cap n.data # {} => m = n
    <3>1. \A m \in wire : \A n \in Messages(r, t) : \A p \in n.data : p \notin m.data
      BY <1>1, <1>7 DEF Apart
    <3>2. \A m, n \in Messages(r, t) : \A p \in n.data : p \in m.data => m = n
      BY <1>1, <1>3 DEF Apart
    <3> QED
      BY <1>4, <3>1, <3>2 DEF Apart
  <2>4. \A s \in Rank : \A p \in Local(s)' :
            /\ p \in bottom[s] => p \notin top[s] /\ p \notin mesh[s]
            /\ p \in top[s] => p \notin mesh[s]
            /\ p \in Buffered(s)' => /\ p \notin bottom[s]
                                     /\ p \notin top[s] /\ p \notin mesh[s]
    BY <1>5, <1>6, <1>8 DEF Apart
  <2>5. \A s, d, e \in Rank : \A u, v \in Tag : \A p \in buf'[s][u][d] :
            p \in buf'[s][v][e] => u = v /\ d = e
    BY DEF Apart
  <2> QED
    BY <2>1, <2>2, <2>3, <2>4, <2>5 DEF Apart
<1>11. Somewhere'
  <2> SUFFICES ASSUME NEW p \in Particle
               PROVE  \/ \E s \in Rank : p \in Local(s)'
                      \/ \E m \in wire' : p \in m.data
    BY DEF Somewhere
  <2>1. CASE \E d \in Rank : p \in buf[r][t][d]
    BY <1>1, <1>2, <1>4, <2>1
  <2>2. CASE \A d \in Rank : p \notin buf[r][t][d]
    <3>1. \A s \in Rank : p \in Local(s) => p \in Local(s)'
      BY <1>5, <2>2 DEF Local
    <3> QED
      BY <1>4, <3>1 DEF Somewhere
  <2> QED
    BY <2>1, <2>2
<1>12. Goes'
  <2>1. \A n \in Messages(r, t) : \A p \in n.data :
            /\ n.tag = "bottom" => home[p] = n.to
            /\ n.tag = "top" => ByTop(p, n.to)
            /\ n.tag # "divide"
    BY <1>1 DEF Goes, Tag
  <2>2. \A p, d : ByTop(p, d)' <=> ByTop(p, d)
    BY DEF ByTop
  <2>3. \A s, d \in Rank : \A u \in Tag : \A p \in buf'[s][u][d] :
            p \in buf[s][u][d]
    OBVIOUS
  <2>4. "bottom" \in Tag /\ "top" \in Tag
    BY DEF Tag
  <2> QED
    BY <1>4, <2>1, <2>2, <2>3, <2>4 DEF Goes
<1>13. \A m, n \in wire' : m.from = n.from /\ m.to = n.to /\ m.tag = n.tag
                           => m = n
  BY <1>1, <1>3, <1>4 DEF InTime
<1>14. \A s, q \in Rank : \A u \in Tag :
           buf'[s][u][q] # {} \/ UnderWay(s, u, q)'
           <=> buf[s][u][q] # {} \/ UnderWay(s, u, q)
  BY <1>1, <1>2, <1>4 DEF UnderWay
<1> QED
  BY <1>10, <1>11, <1>12, <1>13, <1>14

LEMMA SendBottomPlaces ==
    ASSUME IInv, PInv, NEW r \in Rank, SendBottom(r), IInv' PROVE PInv'
<1> USE DEF PInv
<1>1. /\ pc[r] = "sendBottom" /\ pc' = [pc EXCEPT ![r] = "invertTop"]
      /\ wire' = wire \cup Messages(r, "bottom")
      /\ buf' = [buf EXCEPT ![r]["bottom"] = NoBuffers["bottom"]]
      /\ UNCHANGED <<how, rising, home, topHome, bottom, top, mesh, toRecv,
                     owed, iter>>
  BY DEF SendBottom
<1>2. \A s \in Rank : pc'[s] = IF s = r THEN "invertTop" ELSE pc[s]
  BY <1>1 DEF IInv, Types
<1>3. pc[r] \in Later /\ pc[r] \in Sending /\ "bottom" \in Tag
  BY <1>1 DEF Later, Sending, Tag
<1>4. \A s \in Rank : pc[s] \in Sending /\ pc'[s] \in Sending
  BY <1>2, <1>3, Stages DEF InStep, Sending
<1>5. \A s, d \in Rank : \A u \in Tag :
          buf'[s][u][d] = IF s = r /\ u = "bottom" THEN {} ELSE buf[s][u][d]
  BY <1>1 DEF IInv, Types, NoBuffers, Tag
<1>6. \A n \in wire : /\ n.tag \in Tag /\ n.data # {}
                      /\ n.from \in Rank /\ n.to \in Rank
                      /\ pc[n.from] \in Past(n.tag)
  BY <1>3, Migrating
<1>7. \A n \in wire : n.from = r => n.tag # "bottom"
  BY <1>1, <1>6 DEF Past, Receiving
<1>8. /\ Apart' /\ Somewhere' /\ Goes'
      /\ \A m, n \in wire' : m.from = n.from /\ m.to = n.to /\ m.tag = n.tag
                             => m = n
      /\ \A s, q \in Rank : \A u \in Tag :
             buf'[s][u][q] # {} \/ UnderWay(s, u, q)'
             <=> buf[s][u][q] # {} \/ UnderWay(s, u, q)
  BY <1>1, <1>3, <1>5, <1>7, SendPlaces
<1>9. InStep'
  <2>1. Turn(r)' = Turn(r)
    BY <1>1, <1>2 DEF Turn
  <2> QED
    BY <1>1, <1>3, <2>1, StageKept DEF IInv, InStep, Sending
<1>10. Sits'
  BY <1>1, <1>2 DEF Sits, ByTop
<1>11. InTime'
  <2>1. \A s, d \in Rank : \A u \in Tag :
            buf'[s][u][d] # {} => pc'[s] \in Filled(u)
    BY <1>1, <1>2, <1>5 DEF InTime, Filled, Tag
  <2>2. \A n \in Messages(r, "bottom") :
            /\ n.from = r /\ n.tag = "bottom" /\ n.to \in Rank /\ n.data # {}
    BY DEF Messages
  <2>3. \A n \in wire : n.from # r \/ n.tag = "top"
    BY <1>6, <1>7 DEF Tag
  <2>4. \A n \in wire : pc'[n.from] \in Past(n.tag)
    BY <1>1, <1>2, <1>6, <2>3 DEF Past
  <2>5. pc'[r] \in Past("bottom")
    BY <1>2 DEF Past
  <2>6. \A t : Filled(t)' = Filled(t) /\ Past(t)' = Past(t)
    BY DEF Filled, Past, Receiving
  <2> QED
    BY <1>1, <1>3, <1>6, <1>8, <2>1, <2>2, <2>4, <2>5, <2>6 DEF InTime
<1>12. Books'
  <2>1. \A s \in Rank : \A t \in Tag : pc'[s] \in Told(t)' <=> pc[s] \in Told(t)
    BY <1>4 DEF Told, Sending, Receiving
  <2>2. \A s \in Rank : pc'[s] # "migrated"
    BY <1>4 DEF Sending
  <2> QED
    BY <1>1, <1>8, <2>1, <2>2 DEF Books
<1>13. Gathered'
  BY <1>1, <1>3, <1>4, GatheredKept DEF Sending, Later
<1> QED
  BY <1>8, <1>9, <1>10, <1>11, <1>12, <1>13

LEMMA InvertTopPlaces ==
    ASSUME IInv, PInv, InvertTop, IInv' PROVE PInv'
<1> USE DEF PInv
<1>1. /\ owed' = [r \in Rank |-> [owed[r] EXCEPT !["top"] =
                     IF InTop(r) THEN Exporters(r, "top") ELSE {}]]
      /\ pc' = [r \in Rank |-> "sendTop"]
      /\ UNCHANGED <<how, rising, home, topHome, bottom, top, mesh, toRecv,
                     buf, wire, iter>>
  BY DEF InvertTop
<1>2. PICK r \in Rank : pc[r] = "invertTop"
  BY RankAssumption DEF InvertTop, AllAt
<1>3. \A s \in Rank : pc[s] = "invertTop" /\ pc'[s] = "sendTop"
  BY <1>1 DEF InvertTop, AllAt
<1>4. /\ pc[r] \in Later
      /\ \A s \in Rank : InTop(s) <=> s \notin rising
      /\ \A n \in wire : /\ n.tag \in Tag /\ n.data # {}
                         /\ n.from \in Rank /\ n.to \in Rank
                         /\ pc[n.from] \in Past(n.tag)
  <2>1. pc[r] \in Later
    BY <1>2 DEF Later
  <2> QED
    BY <2>1, Migrating
<1>5. \A n \in wire : n.tag = "bottom"
  BY <1>3, <1>4 DEF Past, Tag
<1>6. InStep'
  BY <1>1, <1>3 DEF InStep, SameStage, Receiving, Turn
<1>7. Apart' /\ Somewhere'
  BY <1>1, PlacesKept
<1>8. Sits' /\ Goes'
  BY <1>1, <1>3, BoundKept
<1>9. InTime'
  <2>1. \A s, d \in Rank : \A t \in Tag :
            buf[s][t][d] # {} => pc'[s] \in Filled(t)
    BY <1>3 DEF InTime, Filled
  <2>2. \A n \in wire : pc'[n.from] \in Past(n.tag)
    BY <1>3, <1>4, <1>5 DEF Past, Receiving
  <2>3. \A t : Filled(t)' = Filled(t) /\ Past(t)' = Past(t)
    BY DEF Filled, Past, Receiving
  <2> QED
    BY <1>1, <1>4, <2>1, <2>2, <2>3 DEF InTime
<1>10. Books'
  <2>1. \A s \in Rank :
            /\ owed'[s]["bottom"] = owed[s]["bottom"]
            /\ owed'[s]["top"] = IF InTop(s) THEN Exporters(s, "top") ELSE {}
    BY <1>1 DEF Books, Tag
  <2>2. owed' \in [Rank -> [Tag -> SUBSET Rank]]
    BY <1>1 DEF Books, Exporters
  <2>3. \A q, s \in Rank : buf[q]["top"][s] # {} => InTop(s)
    BY <1>2, <1>3 DEF IInv, Phases, Early
  <2>4. \A q, s \in Rank : q \in owed'[s]["top"] <=> buf[q]["top"][s] # {}
    BY <2>1, <2>3 DEF Exporters
  <2>5. \A s \in Rank : /\ pc[s] \in Told("bottom") /\ pc'[s] \in Told("bottom")'
                        /\ pc'[s] \in Told("top")' /\ pc'[s] # "migrated"
    BY <1>3 DEF Told, Sending, Receiving
  <2>6. \A q, s : /\ ~UnderWay(q, "top", s)'
                  /\ UnderWay(q, "bottom", s)' <=> UnderWay(q, "bottom", s)
    BY <1>1, <1>5 DEF UnderWay
  <2> QED
    BY <1>1, <2>1, <2>2, <2>4, <2>5, <2>6 DEF Books, Tag
<1>11. Gathered'
  BY <1>1, <1>3, <1>4, GatheredKept DEF Later
<1> QED
  BY <1>6, <1>7, <1>8, <1>9, <1>10, <1>11

LEMMA SendTopPlaces ==
    ASSUME IInv, PInv, NEW r \in Rank, SendTop(r), IInv' PROVE PInv'
<1> USE DEF PInv
<1>1. /\ pc[r] = "sendTop" /\ pc' = [pc EXCEPT ![r] = "receive"]
      /\ wire' = wire \cup (IF InTop(r) THEN Messages(r, "top") ELSE {})
      /\ buf' = [buf EXCEPT ![r] = NoBuffers]
      /\ UNCHANGED <<how, rising, home, topHome, bottom, top, mesh, toRecv,
                     owed, iter>>
  BY DEF SendTop
<1>2. \A s \in Rank : pc'[s] = IF s = r THEN "receive" ELSE pc[s]
  BY <1>1 DEF IInv, Types
<1>3. pc[r] \in Later /\ pc[r] \in Receiving /\ "top" \in Tag
  BY <1>1 DEF Later, Receiving, Tag
<1>4. \A s \in Rank : pc[s] \in Receiving /\ pc'[s] \in Receiving
  BY <1>2, <1>3, Stages DEF InStep, Receiving
<1>5. \A d \in Rank : buf[r]["bottom"][d] = {}
  BY <1>1 DEF InTime, Filled, Tag
<1>6. \A s, d \in Rank : \A u \in Tag :
          buf'[s][u][d] = IF s = r /\ u = "top" THEN {} ELSE buf[s][u][d]
  BY <1>1, <1>5 DEF IInv, Types, NoBuffers, Tag
<1>7. /\ InTop(r) <=> r \notin rising
      /\ \A n \in wire : /\ n.tag \in Tag /\ n.data # {}
                         /\ n.from \in Rank /\ n.to \in Rank
                         /\ pc[n.from] \in Past(n.tag)
  BY <1>3, Migrating
<1>8. wire' = wire \cup Messages(r, "top")
  <2>1. ~InTop(r) => \A d \in Rank : buf[r]["top"][d] = {}
    BY <1>7 DEF Goes
  <2>2. ~InTop(r) => Messages(r, "top") = {}
    BY <2>1 DEF Messages
  <2> QED
    BY <1>1, <2>2
<1>9. \A n \in wire : n.from = r => n.tag # "top"
  BY <1>1, <1>7 DEF Past
<1>10. /\ Apart' /\ Somewhere' /\ Goes'
       /\ \A m, n \in wire' : m.from = n.from /\ m.to = n.to /\ m.tag = n.tag
                              => m = n
       /\ \A s, q \in Rank : \A u \in Tag :
              buf'[s][u][q] # {} \/ UnderWay(s, u, q)'
              <=> buf[s][u][q] # {} \/ UnderWay(s, u, q)
  BY <1>1, <1>3, <1>6, <1>8, <1>9, SendPlaces
<1>11. InStep'
  <2>1. Turn(r)' = Turn(r)
    BY <1>1, <1>2 DEF Turn
  <2> QED
    BY <1>1, <1>3, <2>1, StageKept DEF IInv, InStep, Receiving
<1>12. Sits'
  BY <1>1, <1>2 DEF Sits, ByTop
<1>13. InTime'
  <2>1. \A s, d \in Rank : \A u \in Tag :
            buf'[s][u][d] # {} => pc'[s] \in Filled(u)
    BY <1>1, <1>2, <1>5, <1>6 DEF InTime, Filled, Tag
  <2>2. \A n \in Messages(r, "top") :
            /\ n.from = r /\ n.tag = "top" /\ n.to \in Rank /\ n.data # {}
    BY DEF Messages
  <2>3. \A n \in wire : pc'[n.from] \in Past(n.tag)
    BY <1>1, <1>2, <1>7 DEF Past, Receiving
  <2>4. pc'[r] \in Past("top")
    BY <1>2 DEF Past
  <2>5. \A t : Filled(t)' = Filled(t) /\ Past(t)' = Past(t)
    BY DEF Filled, Past, Receiving
  <2> QED
    BY <1>3, <1>7, <1>8, <1>10, <2>1, <2>2, <2>3, <2>4, <2>5 DEF InTime
<1>14. Books'
  <2>1. \A s \in Rank : \A t \in Tag : pc'[s] \in Told(t)' <=> pc[s] \in Told(t)
    BY <1>4 DEF Told, Sending, Receiving
  <2>2. \A s \in Rank : pc'[s] = "migrated" <=> pc[s] = "migrated"
    BY <1>1, <1>2
  <2> QED
    BY <1>1, <1>10, <2>1, <2>2 DEF Books
<1>15. Gathered'
  BY <1>1, <1>3, <1>4, GatheredKept DEF Receiving, Later
<1> QED
  BY <1>10, <1>11, <1>12, <1>13, <1>14, <1>15

LEMMA ReceivePlaces ==
    ASSUME IInv, PInv, NEW r \in Rank, Receive(r), IInv' PROVE PInv'
<1> USE DEF PInv
<1>1. PICK m \in wire :
          /\ m.to = r /\ m.tag \in Tag /\ m.from \in owed[r][m.tag]
          /\ bottom' = [bottom EXCEPT ![r] =
                           IF ForBottom(m) THEN @ \cup m.data ELSE @]
          /\ top' = [top EXCEPT ![r] =
                        IF ForBottom(m) THEN @ ELSE @ \cup m.data]
          /\ wire' = wire \ {m}
          /\ owed' = [owed EXCEPT ![r][m.tag] = @ \ {m.from}]
  BY DEF Receive
<1>2. /\ pc[r] = "receive"
      /\ UNCHANGED <<how, rising, home, topHome, mesh, toRecv, buf, pc, iter>>
  BY DEF Receive
<1>3. /\ pc[r] \in Later
      /\ \A n \in wire : /\ n.tag \in Tag /\ n.data # {}
                         /\ n.from \in Rank /\ n.to \in Rank
                         /\ pc[n.from] \in Past(n.tag)
  <2>1. pc[r] \in Later
    BY <1>2 DEF Later
  <2> QED
    BY <2>1, Migrating
<1>4. InStep'
  BY <1>2 DEF InStep, SameStage, Turn
<1>5. /\ \A s \in Rank : bottom'[s] = IF s = r /\ m.tag = "bottom"
                                      THEN bottom[s] \cup m.data ELSE bottom[s]
      /\ \A s \in Rank : top'[s] = IF s = r /\ m.tag = "top"
                                   THEN top[s] \cup m.data ELSE top[s]
  BY <1>1 DEF IInv, Types, ForBottom, Tag
<1>6. \A s \in Rank : Buffered(s)' = Buffered(s)
  BY <1>2 DEF Buffered
<1>7. \A s \in Rank : \A p :
          p \in Local(s)' <=> p \in Local(s) \/ (s = r /\ p \in m.data)
  BY <1>1, <1>2, <1>5, <1>6 DEF Local, Tag
<1>8. \A s \in Rank : m.data \cap Local(s) = {}
  BY DEF Apart
<1>9. Apart'
  <2>1. \A s, q \in Rank : \A p \in Local(s)' : p \in Local(q)' => s = q
    BY <1>7, <1>8 DEF Apart
  <2>2. \A n \in wire' : \A s \in Rank : n.data \cap Local(s)' = {}
    BY <1>1, <1>7 DEF Apart
  <2>3. \A n, o \in wire' : n.data \cap o.data # {} => n = o
    BY <1>1 DEF Apart
  <2>4. \A p \in m.data : p \notin bottom[r] /\ p \notin top[r]
                            /\ p \notin Buffered(r) /\ p \notin mesh[r]
    BY <1>8 DEF Local
  <2>5. \A s \in Rank : \A p \in Local(s)' :
            /\ p \in bottom'[s] => p \notin top'[s] /\ p \notin mesh[s]
            /\ p \in top'[s] => p \notin mesh[s]
            /\ p \in Buffered(s) => /\ p \notin bottom'[s]
                                    /\ p \notin top'[s] /\ p \notin mesh[s]
    <3> SUFFICES ASSUME NEW s \in Rank, NEW p \in Local(s)'
                 PROVE  /\ p \in bottom'[s] => p \notin top'[s]
                        /\ p \in mesh[s] => /\ p \notin bottom'[s]
                                            /\ p \notin top'[s]
                        /\ p \in Buffered(s) => /\ p \notin bottom'[s]
                                                /\ p \notin top'[s]
                                                /\ p \notin mesh[s]
      OBVIOUS
    <3>1. CASE s = r /\ p \in m.data
      BY <1>5, <2>4, <3>1
    <3>2. CASE ~(s = r /\ p \in m.data)
      <4>1. p \in Local(s)
        BY <1>7, <3>2
      <4>2. /\ p \in bottom'[s] => p \in bottom[s]
            /\ p \in top'[s] => p \in top[s]
        BY <1>5, <3>2
      <4> QED
        BY <4>1, <4>2 DEF Apart
    <3> QED
      BY <3>1, <3>2
  <2> QED
    BY <1>2, <1>6, <2>1, <2>2, <2>3, <2>5 DEF Apart
<1>10. Somewhere'
  BY <1>1, <1>7 DEF Somewhere
<1>11. Sits'
  <2>1. \A p \in m.data : /\ m.tag = "bottom" => home[p] = r
                          /\ m.tag = "top" => ByTop(p, r)
    BY <1>1 DEF Goes
  <2>2. \A s \in Rank : pc'[s] # "moved" =>
            /\ \A p \in bottom'[s] : home[p] = s
            /\ \A p \in top'[s] : home[p] = s \/ ByTop(p, s)
    BY <1>2, <1>5, <2>1 DEF Sits
  <2> QED
    BY <1>2, <2>2 DEF Sits, ByTop
<1>12. Goes'
  BY <1>1, <1>2 DEF Goes, ByTop
<1>13. InTime'
  BY <1>1, <1>2 DEF InTime, Filled, Past
<1>14. Books'
  <2>1. buf[m.from][m.tag][r] = {}
    <3>1. \A t \in Tag : Past(t) \cap Filled(t) = {}
      BY DEF Past, Filled, Receiving, Tag
    <3> QED
      BY <1>1, <1>3, <3>1 DEF InTime
  <2>2. \A n \in wire' : ~(n.from = m.from /\ n.tag = m.tag /\ n.to = r)
    BY <1>1 DEF InTime
  <2>3. \A s, q \in Rank : \A t \in Tag :
            UnderWay(s, t, q)' <=> /\ UnderWay(s, t, q)
                                   /\ ~(s = m.from /\ t = m.tag /\ q = r)
    BY <1>1, <2>2 DEF UnderWay
  <2>4. owed \in [Rank -> [Tag -> SUBSET Rank]]
    BY DEF Books
  <2>5. \A q \in Rank :
            owed'[q] = IF q = r THEN [owed[r] EXCEPT ![m.tag] = @ \ {m.from}]
                       ELSE owed[q]
    BY <1>1, <2>4
  <2>6. owed[r] \in [Tag -> SUBSET Rank]
    BY <2>4
  <2>7. \A t \in Tag : [owed[r] EXCEPT ![m.tag] = @ \ {m.from}][t] =
                           IF t = m.tag THEN owed[r][t] \ {m.from}
                           ELSE owed[r][t]
    BY <1>1, <2>6
  <2>8. /\ owed' \in [Rank -> [Tag -> SUBSET Rank]]
        /\ \A q \in Rank : \A t \in Tag :
               owed'[q][t] = IF q = r /\ t = m.tag THEN owed[q][t] \ {m.from}
                             ELSE owed[q][t]
    <3>1. [owed[r] EXCEPT ![m.tag] = @ \ {m.from}] \in [Tag -> SUBSET Rank]
      BY <1>1, <2>6
    <3>2. owed' \in [Rank -> [Tag -> SUBSET Rank]]
      BY <1>1, <2>4, <3>1
    <3> QED
      BY <2>5, <2>7, <3>2
  <2>9. \A q, s \in Rank : \A t \in Tag :
            s \in owed'[q][t] <=> /\ pc[q] \in Told(t)
                                  /\ buf[s][t][q] # {} \/ UnderWay(s, t, q)'
    <3>1. \A q, s \in Rank : \A t \in Tag :
              s \in owed[q][t] <=> /\ pc[q] \in Told(t)
                                   /\ buf[s][t][q] # {} \/ UnderWay(s, t, q)
      BY DEF Books
    <3> TAKE q \in Rank, s \in Rank
    <3> TAKE t \in Tag
    <3>2. CASE s = m.from /\ t = m.tag /\ q = r
      BY <2>1, <2>3, <2>8, <3>2
    <3>3. CASE ~(s = m.from /\ t = m.tag /\ q = r)
      <4>1. s \in owed'[q][t] <=> s \in owed[q][t]
        BY <2>8, <3>3
      <4>2. UnderWay(s, t, q)' <=> UnderWay(s, t, q)
        BY <2>3, <3>3
      <4> QED
        BY <3>1, <4>1, <4>2
    <3> QED
      BY <3>2, <3>3
  <2>10. \A q \in Rank : pc[q] = "migrated" => owed'[q] = NothingOwed
    BY <1>2, <2>5 DEF Books
  <2>11. \A t : Told(t)' = Told(t)
    BY DEF Told, Sending, Receiving
  <2> QED
    BY <1>2, <2>8, <2>9, <2>10, <2>11 DEF Books, NothingOwed
<1>15. Gathered'
  <2>1. \A s \in Rank : pc'[s] \in Later
    BY <1>2, <1>3, Migrating
  <2> QED
    BY <1>2, <1>3, <2>1, GatheredKept
<1> QED
  BY <1>4, <1>9, <1>10, <1>11, <1>12, <1>13, <1>14, <1>15

LEMMA ReturnPlaces ==
    ASSUME IInv, PInv, NEW r \in Rank, Return(r), IInv' PROVE PInv'
<1> USE DEF PInv
<1>1. /\ pc[r] = "receive" /\ owed[r] = NothingOwed
      /\ pc' = [pc EXCEPT ![r] = "migrated"]
      /\ UNCHANGED <<how, rising, home, topHome, bottom, top, mesh, toRecv,
                     buf, owed, wire, iter>>
  BY DEF Return
<1>2. \A s \in Rank : pc'[s] = IF s = r THEN "migrated" ELSE pc[s]
  BY <1>1 DEF IInv, Types
<1>3. pc[r] \in Later /\ pc[r] \in Receiving
  BY <1>1 DEF Later, Receiving
<1>4. \A s \in Rank : pc[s] \in Receiving /\ pc'[s] \in Receiving
  BY <1>2, <1>3, Stages DEF InStep, Receiving
<1>5. \A n \in wire : /\ n.tag \in Tag /\ n.data # {}
                      /\ n.from \in Rank /\ n.to \in Rank
                      /\ pc[n.from] \in Past(n.tag)
  BY <1>3, Migrating
<1>6. InStep'
  <2>1. Turn(r)' = Turn(r)
    BY <1>1, <1>2 DEF Turn
  <2> QED
    BY <1>1, <1>3, <2>1, StageKept DEF IInv, InStep, Receiving
<1>7. Apart' /\ Somewhere'
  BY <1>1, PlacesKept
<1>8. Sits' /\ Goes'
  BY <1>1, <1>2, BoundKept
<1>9. InTime'
  <2>1. \A s, d \in Rank : \A t \in Tag :
            buf[s][t][d] # {} => pc'[s] \in Filled(t)
    BY <1>1, <1>2 DEF InTime, Filled
  <2>2. \A n \in wire : pc'[n.from] \in Past(n.tag)
    BY <1>1, <1>2, <1>5 DEF Past, Receiving
  <2>3. \A t : Filled(t)' = Filled(t) /\ Past(t)' = Past(t)
    BY DEF Filled, Past, Receiving
  <2> QED
    BY <1>1, <1>5, <2>1, <2>2, <2>3 DEF InTime
<1>10. Books'
  <2>1. \A s \in Rank : \A t \in Tag : pc'[s] \in Told(t)' <=> pc[s] \in Told(t)
    BY <1>4 DEF Told, Sending, Receiving
  <2>2. \A s, q, t : UnderWay(s, t, q)' <=> UnderWay(s, t, q)
    BY <1>1 DEF UnderWay
  <2> QED
    BY <1>1, <1>2, <2>1, <2>2 DEF Books, NothingOwed
<1>11. Gathered'
  BY <1>1, <1>3, <1>4, GatheredKept DEF Receiving, Later
<1> QED
  BY <1>6, <1>7, <1>8, <1>9, <1>10, <1>11

(* When all have returned from migrate nothing is under way.               *)
LEMMA NothingLeft ==
    ASSUME IInv, PInv, AllAt("migrated")
    PROVE  /\ wire = {}
           /\ \A s, d \in Rank : \A t \in Tag : buf[s][t][d] = {}
           /\ \A s \in Rank : \A t \in Tag : owed[s][t] = {}
<1>1. PICK r \in Rank : pc[r] = "migrated"
  BY RankAssumption DEF AllAt
<1>2. \A n \in wire : n.tag \in Tag /\ n.from \in Rank /\ n.to \in Rank
  BY <1>1, Migrating DEF Later
<1>3. \A s \in Rank : \A t \in Tag : pc[s] \in Told(t) /\ owed[s][t] = {}
  BY DEF AllAt, Told, Sending, Receiving, PInv, Books, NothingOwed
<1>4. \A s, q \in Rank : \A t \in Tag :
          s \in owed[q][t] <=> /\ pc[q] \in Told(t)
                               /\ buf[s][t][q] # {} \/ UnderWay(s, t, q)
  BY DEF PInv, Books
<1>5. \A s, d \in Rank : \A t \in Tag : buf[s][t][d] = {} /\ ~UnderWay(s, t, d)
  BY <1>3, <1>4
<1>6. \A n \in wire : FALSE
  BY <1>2, <1>5 DEF UnderWay
<1> QED
  BY <1>3, <1>5, <1>6

LEMMA ExchangePlaces == ASSUME IInv, PInv, Exchange, IInv' PROVE PInv'
<1> USE DEF PInv
<1>1. /\ AllAt("migrated") /\ pc' = [r \in Rank |-> "ready"]
      /\ UNCHANGED <<how, rising, home, topHome, bottom, top, mesh, toRecv,
                     buf, owed, wire, iter>>
  BY DEF Exchange
<1>2. PICK r \in Rank : pc[r] = "migrated"
  BY <1>1, RankAssumption DEF AllAt
<1>3. \A s \in Rank : pc[s] = "migrated" /\ pc'[s] = "ready"
  BY <1>1 DEF AllAt
<1>4. /\ wire = {}
      /\ \A s, d \in Rank : \A t \in Tag : buf[s][t][d] = {}
      /\ \A s \in Rank : \A t \in Tag : owed[s][t] = {}
  BY <1>1, NothingLeft
<1>5. InStep'
  <2>1. \A s \in Rank : Turn(s) = iter[s] /\ Turn(s)' = iter[s] + 1
    BY <1>1, <1>3 DEF Turn
  <2> QED
    BY <1>1, <1>3, <2>1 DEF InStep, SameStage, Entering
<1>6. Apart' /\ Somewhere'
  BY <1>1, PlacesKept
<1>7. Sits' /\ Goes'
  BY <1>1, <1>3, BoundKept
<1>8. InTime'
  BY <1>1, <1>4 DEF InTime
<1>9. Books'
  <2>1. \A s \in Rank : \A t \in Tag : pc'[s] \notin Told(t)'
    BY <1>3 DEF Told, Sending, Receiving
  <2> QED
    BY <1>1, <1>3, <1>4, <2>1 DEF Books
<1>10. Gathered'
  BY <1>1, <1>2, <1>3, GatheredKept DEF Later
<1> QED
  BY <1>5, <1>6, <1>7, <1>8, <1>9, <1>10

LEMMA StutterPlaces == ASSUME PInv, UNCHANGED vars PROVE PInv'
<1> USE DEF PInv, vars
<1>1. InStep'
  BY DEF InStep, SameStage, Turn
<1>2. Apart' /\ Somewhere'
  BY PlacesKept
<1>3. Sits' /\ Goes'
  BY BoundKept
<1>4. InTime'
  BY DEF InTime, Filled, Past
<1>5. Books'
  BY DEF Books, Told, UnderWay
<1>6. Gathered'
  BY DEF Gathered, Failed, Waiting
<1> QED
  BY <1>1, <1>2, <1>3, <1>4, <1>5, <1>6

-----------------------------------------------------------------------------
LEMMA AlwaysPInv == Spec => [](IInv /\ PInv)
<1>1. Init => PInv
  BY InitPlaced
<1>2. IInv /\ PInv /\ IInv' /\ [Next]_vars => PInv'
  <2> SUFFICES ASSUME IInv, PInv, IInv', [Next]_vars
               PROVE  PInv'
    OBVIOUS
  <2>1. ASSUME NEW r \in Rank, SendAll(r) \/ GatherOne(r) \/ EnterBalancing(r)
        PROVE  PInv'
    BY <2>1, SendAllPlaces, GatherOnePlaces, EnterBalancingPlaces
  <2>2. ASSUME NEW r \in Rank, Move(r) \/ MarkExports(r) \/ SendBottom(r)
        PROVE  PInv'
    BY <2>2, MovePlaces, MarkExportsPlaces, SendBottomPlaces
  <2>3. ASSUME NEW r \in Rank, SendTop(r) \/ Receive(r) \/ Return(r)
        PROVE  PInv'
    BY <2>3, SendTopPlaces, ReceivePlaces, ReturnPlaces
  <2>4. CASE Collective
    BY <2>4, GetCommunicatorPlaces, BalanceTopPlaces, Divide2Places,
       InvertBottomPlaces, InvertTopPlaces, ExchangePlaces DEF Collective
  <2>5. CASE UNCHANGED vars
    BY <2>5, StutterPlaces
  <2> QED
    BY <2>1, <2>2, <2>3, <2>4, <2>5 DEF Next, RankStep, Finished
<1> QED
  BY <1>1, <1>2, AlwaysIInv, PTL DEF Spec

-----------------------------------------------------------------------------
(***************************************************************************)
(* What follows from it.                                                   *)
(***************************************************************************)
LEMMA AtMostOnePlace ==
    ASSUME Types, Apart, NEW p \in Particle,
           NEW x \in Places(p), NEW y \in Places(p)
    PROVE  x = y
<1> DEFINE InVector(z, r) == \/ z = <<"bottom", r>> /\ p \in bottom[r]
                             \/ z = <<"top", r>> /\ p \in top[r]
                             \/ z = <<"mesh", r>> /\ p \in mesh[r]
           InBuffer(z, r) == \E t \in Tag, d \in Rank :
                                 z = <<r, t, d>> /\ p \in buf[r][t][d]
           InMessage(z) == z \in wire /\ p \in z.data
<1>1. \A z \in Places(p) : \/ \E r \in Rank : InVector(z, r) \/ InBuffer(z, r)
                           \/ InMessage(z)
  BY DEF Places
<1>2. \A z : \A r \in Rank : InVector(z, r) \/ InBuffer(z, r) => p \in Local(r)
  BY DEF Local, Buffered
<1>3. \A z : \A r \in Rank : InBuffer(z, r) => p \in Buffered(r)
  BY DEF Buffered
<1>4. \A z : InMessage(z) => z \in wire /\ p \in z.data
  OBVIOUS
<1>5. \A r \in Rank :
          /\ InVector(x, r) /\ InVector(y, r) => x = y
          /\ InVector(x, r) => p \notin Buffered(r)
          /\ InVector(y, r) => p \notin Buffered(r)
          /\ InBuffer(x, r) /\ InBuffer(y, r) => x = y
  <2> TAKE r \in Rank
  <2>1. InVector(x, r) /\ InVector(y, r) => x = y
    BY <1>2 DEF Apart
  <2>2. /\ InVector(x, r) => p \notin Buffered(r)
        /\ InVector(y, r) => p \notin Buffered(r)
    BY <1>2 DEF Apart
  <2>3. InBuffer(x, r) /\ InBuffer(y, r) => x = y
    BY DEF Apart
  <2> QED
    BY <2>1, <2>2, <2>3
<1> HIDE DEF InVector, InBuffer, InMessage
<1>6. CASE InMessage(x)
  BY <1>1, <1>2, <1>4, <1>6 DEF Apart
<1>7. ASSUME NEW r \in Rank, InVector(x, r) \/ InBuffer(x, r) PROVE x = y
  <2>1. p \in Local(r)
    BY <1>2, <1>7
  <2>2. ~InMessage(y)
    BY <1>4, <2>1 DEF Apart
  <2>3. PICK q \in Rank : InVector(y, q) \/ InBuffer(y, q)
    BY <1>1, <2>2
  <2>4. q = r
    BY <1>2, <2>1, <2>3 DEF Apart
  <2> QED
    BY <1>3, <1>5, <1>7, <2>3, <2>4
<1> QED
  BY <1>1, <1>6, <1>7

LEMMA AtLeastOnePlace ==
    ASSUME Somewhere, NEW p \in Particle PROVE Places(p) # {}
<1>1. CASE \E m \in wire : p \in m.data
  BY <1>1 DEF Places
<1>2. ASSUME NEW r \in Rank, p \in Local(r) PROVE Places(p) # {}
  <2>1. \/ p \in bottom[r] \/ p \in top[r] \/ p \in mesh[r]
        \/ \E t \in Tag, d \in Rank : p \in buf[r][t][d]
    BY <1>2 DEF Local, Buffered
  <2>2. ASSUME NEW t \in Tag, NEW d \in Rank, p \in buf[r][t][d]
        PROVE  <<r, t, d>> \in Places(p)
    BY <2>2 DEF Places
  <2>3. /\ p \in bottom[r] => <<"bottom", r>> \in Places(p)
        /\ p \in top[r] => <<"top", r>> \in Places(p)
        /\ p \in mesh[r] => <<"mesh", r>> \in Places(p)
    BY DEF Places
  <2> QED
    BY <2>1, <2>2, <2>3
<1> QED
  BY <1>1, <1>2 DEF Somewhere

(* Dividing and moving between the two kinds of data neither lose nor      *)
(* double a particle, whatever the slopes and wherever the particles go.   *)
THEOREM NoneLostOrDoubled == Spec => []OnePlace
<1>1. IInv /\ PInv => OnePlace
  <2> SUFFICES ASSUME IInv, PInv, NEW p \in Particle
               PROVE  \E x \in Places(p) : Places(p) = {x}
    BY DEF OnePlace
  <2>1. PICK x \in Places(p) : TRUE
    BY AtLeastOnePlace DEF PInv
  <2>2. \A y \in Places(p) : y = x
    BY AtMostOnePlace DEF IInv, PInv
  <2> QED
    BY <2>1, <2>2
<1> QED
  BY <1>1, AlwaysPInv, PTL

(* A particle in a vector of a rank that has not moved it belongs there.   *)
LEMMA AtItsDest ==
    ASSUME IInv, PInv, NEW r \in Rank,
           pc[r] \in {"ready", "divided", "migrated"},
           NEW p \in bottom[r] \cup top[r]
    PROVE  dest[p] = r
<1>1. p \in Particle /\ p \in Local(r)
  BY DEF IInv, Types, Local
<1>2. ~Failed /\ pc[r] # "moved"
  BY DEF PInv, Gathered
<1>3. dest[p] = IF IsTopData(p) /\ home[p] \in rising THEN topHome[p]
                ELSE home[p]
  BY <1>1 DEF dest
<1>4. CASE p \in bottom[r]
  <2>1. home[p] = r
    BY <1>2, <1>4 DEF PInv, Sits
  <2>2. ~IsTopData(p)
    <3>1. \A s \in Rank : p \notin top[s]
      BY <1>1, <1>4 DEF PInv, Apart, Local
    <3>2. \A s, d \in Rank : p \notin buf[s]["top"][d]
      BY <1>1, <1>4 DEF PInv, Apart, Local, Buffered, Tag
    <3>3. \A m \in wire : p \notin m.data
      BY <1>1 DEF PInv, Apart
    <3> QED
      BY <3>1, <3>2, <3>3 DEF IsTopData
  <2> QED
    BY <1>3, <2>1, <2>2
<1>5. CASE p \in top[r]
  <2>1. IsTopData(p)
    BY <1>5 DEF IsTopData
  <2>2. home[p] = r \/ (home[p] \in rising /\ topHome[p] = r)
    BY <1>2, <1>5 DEF PInv, Sits, ByTop
  <2>3. r \notin rising
    <3>1. InTop(r)
      BY <1>5 DEF IInv, TopDataOnTop
    <3>2. increasing[r] = rising
      BY <1>2 DEF IInv, View, AllAt, SplitSo
    <3> QED
      BY <3>1, <3>2 DEF InTop
  <2> QED
    BY <1>3, <2>1, <2>2, <2>3
<1> QED
  BY <1>4, <1>5

(* Outside the calls, and after the division, all is in the vectors.       *)
LEMMA AllInVectors ==
    ASSUME IInv, PInv, \A r \in Rank : pc[r] \in {"ready", "divided"}
    PROVE  /\ wire = {}
           /\ \A p \in Particle : \E r \in Rank : p \in bottom[r] \cup top[r]
<1> USE DEF PInv
<1>1. \A s, d \in Rank : \A t \in Tag : buf[s][t][d] = {}
  BY DEF InTime, Filled
<1>2. \A s \in Rank : Buffered(s) = {}
  BY <1>1 DEF Buffered
<1>3. PICK r \in Rank : TRUE
  BY RankAssumption
<1>4. CASE pc[r] = "ready"
  <2>1. wire = {} /\ \A s \in Rank : mesh[s] = {}
    BY <1>4, QuietEntry, Migrating DEF Entering, Later
  <2> QED
    BY <1>2, <2>1 DEF Somewhere, Local
<1>5. CASE pc[r] = "divided"
  <2>1. \A s \in Rank : pc[s] = "divided"
    <3>1. \A s \in Rank : pc[s] \in Early
      BY <1>5, Stages DEF InStep, Early
    <3> QED
      BY <3>1 DEF Early
  <2>2. ~Failed /\ rising \subseteq Rank
    BY <1>5 DEF Gathered, IInv, Types
  <2>3. Rank \ rising # {}
    BY <2>2, SomebodyLeft
  <2>4. PICK g \in Rank \ rising : g = First(Rank \ rising)
    BY <2>3, FirstOf
  <2>5. Waiting = {}
    BY <2>1, <2>4 DEF Gathered
  <2>6. \A m \in wire : FALSE
    BY <2>1, <2>5 DEF InTime, Past, Receiving, Waiting
  <2>7. \A s \in Rank : mesh[s] = {}
    BY <2>1, <2>4 DEF Gathered, Later
  <2> QED
    BY <1>2, <2>6, <2>7 DEF Somewhere, Local
<1> QED
  BY <1>4, <1>5

(* When no rank is inside a call, each holds exactly the particles that    *)
(* belong to it under the partition that counts for their kind of data.    *)
THEOREM PlacedRight == Spec => []Placed
<1>1. IInv /\ PInv => Placed
  <2> SUFFICES ASSUME IInv, PInv,
                      \A r \in Rank : pc[r] \in {"ready", "divided"},
                      NEW r \in Rank
               PROVE  /\ bottom[r] \cup top[r] = {p \in Particle : dest[p] = r}
                      /\ wire = {}
    BY DEF Placed
  <2>1. \A s \in Rank : \A p \in bottom[s] \cup top[s] : dest[p] = s
    BY AtItsDest
  <2>2. \A s \in Rank : bottom[s] \cup top[s] \subseteq Particle
    BY DEF IInv, Types
  <2>3. /\ wire = {}
        /\ \A p \in Particle : \E s \in Rank : p \in bottom[s] \cup top[s]
    BY AllInVectors
  <2>4. \A p \in Particle : dest[p] = r => p \in bottom[r] \cup top[r]
    BY <2>1, <2>3
  <2> QED
    BY <2>1, <2>2, <2>3, <2>4
<1> QED
  BY <1>1, AlwaysPInv, PTL

-----------------------------------------------------------------------------
(***************************************************************************)
(* Once divided, every step is a step of Redistribution or invisible: the  *)
(* caller's computing is Move, taking out what leaves is Enter, receiving  *)
(* is Take, returning from migrate is Leave.                               *)
(***************************************************************************)
Own == [r \in Rank |-> bottom[r] \cup top[r]]

Between == {p \in Particle : \A r \in Rank : p \notin bottom[r] \cup top[r]}

StageOf(r) == IF pc[r] \in Outside THEN "ready"
              ELSE IF pc[r] = "moved" THEN "moved" ELSE "inside"

LEMMA DestType ==
    ASSUME IInv, PInv
    PROVE  \A p \in Particle :
               /\ dest[p] = IF IsTopData(p) /\ home[p] \in rising
                            THEN topHome[p] ELSE home[p]
               /\ dest[p] \in Rank
<1>1. \A p \in Particle : home[p] \in Rank /\ topHome[p] \in Rank
  BY DEF IInv, Types, PInv, Sits
<1> QED
  BY <1>1 DEF dest

LEMMA DestKept ==
    ASSUME UNCHANGED <<home, topHome, rising>>,
           \A p \in Particle :
               home[p] \in rising => (IsTopData(p)' <=> IsTopData(p))
    PROVE  dest' = dest
BY DEF dest

LEMMA TopDataKept ==
    ASSUME UNCHANGED <<top, buf, wire>>
    PROVE  \A p : IsTopData(p)' <=> IsTopData(p)
BY DEF IsTopData

LEMMA Unseen ==
    ASSUME UNCHANGED <<bottom, top, iter>>, dest' = dest,
           \A r \in Rank : StageOf(r)' = StageOf(r)
    PROVE  UNCHANGED R!vars
BY DEF R!vars, StageOf

LEMMA MoveRefines ==
    ASSUME IInv, PInv, NEW r \in Rank, Move(r), PInv', IInv' PROVE R!Move(r)
<1>1. /\ pc[r] = "ready" /\ iter[r] < MaxIter
      /\ pc' = [pc EXCEPT ![r] = "moved"]
      /\ iter' = [iter EXCEPT ![r] = @ + 1]
      /\ UNCHANGED <<rising, bottom, top, buf, wire>>
      /\ \A p \in Particle : p \notin Own[r] =>
             home'[p] = home[p] /\ topHome'[p] = topHome[p]
  BY DEF Move, Own
<1>2. \A s \in Rank : pc'[s] = IF s = r THEN "moved" ELSE pc[s]
  BY <1>1 DEF IInv, Types
<1>3. /\ StageOf(r) = "ready" /\ StageOf(r)' = "moved"
      /\ \A s \in Rank : s # r => StageOf(s)' = StageOf(s)
  BY <1>1, <1>2 DEF StageOf, Outside
<1>4. \A s \in Rank : StageOf(s) = "inside" => iter[s] > iter[r]
  <2> SUFFICES ASSUME NEW s \in Rank, StageOf(s) = "inside"
               PROVE  iter[s] > iter[r]
    OBVIOUS
  <2>1. pc[s] \in Entering
    BY <1>1, QuietEntry DEF Entering
  <2>2. pc[s] # "ready"
    BY <2>1 DEF StageOf, Outside
  <2>3. Turn(s) = iter[s] /\ Turn(r) = iter[r] + 1
    BY <1>1, <2>2 DEF Turn
  <2>4. Turn(s) = Turn(r) /\ iter[s] \in Nat /\ iter[r] \in Nat
    BY DEF PInv, InStep
  <2> QED
    BY <2>3, <2>4
<1>5. \E h \in [Own[r] -> Rank] :
          dest' = [p \in Particle |-> IF p \in Own[r] THEN h[p] ELSE dest[p]]
  <2> DEFINE h == [p \in Own[r] |-> dest'[p]]
  <2>1. \A p \in Particle : dest'[p] \in Rank
    <3>1. \A p \in Particle : home'[p] \in Rank /\ topHome'[p] \in Rank
      BY DEF IInv, Types, PInv, Sits
    <3> QED
      BY <3>1 DEF dest
  <2>2. Own[r] \subseteq Particle
    BY DEF IInv, Types, Own
  <2>3. \A p \in Particle : p \notin Own[r] => dest'[p] = dest[p]
    BY <1>1, TopDataKept DEF dest
  <2>4. dest' = [p \in Particle |-> dest'[p]]
    BY DEF dest
  <2>5. h \in [Own[r] -> Rank]
    BY <2>1, <2>2
  <2>6. dest' = [p \in Particle |-> IF p \in Own[r] THEN h[p] ELSE dest[p]]
    BY <2>3, <2>4
  <2> QED
    BY <2>5, <2>6
<1>6. Own' = Own /\ Between' = Between
  BY <1>1 DEF Own, Between
<1> QED
  BY <1>1, <1>3, <1>4, <1>5, <1>6, ZenonT(60) DEF R!Move, Own, Between, StageOf

LEMMA MarkExportsRefines ==
    ASSUME IInv, PInv, NEW r \in Rank, MarkExports(r)
    PROVE  \E found \in SUBSET R!Left(r) : R!Enter(r, found)
<1> DEFINE fromBottom == {p \in bottom[r] : home[p] # r}
           fromTop == {p \in top[r] : InTop(r) /\ LeavesForBottom(r, p)}
           withinTop == {p \in top[r] : InTop(r) /\ LeavesTop(r, p)}
           b == [bottom |-> [d \in Rank |->
                                {p \in fromBottom \cup fromTop : home[p] = d}],
                 top |-> [d \in Rank |-> {p \in withinTop : TopDest(p) = d}]]
<1>1. /\ pc[r] = "moved" /\ pc' = [pc EXCEPT ![r] = "invertBottom"]
      /\ bottom' = [bottom EXCEPT ![r] = @ \ fromBottom]
      /\ top' = [top EXCEPT ![r] = @ \ (fromTop \cup withinTop)]
      /\ buf' = [buf EXCEPT ![r] = b]
      /\ UNCHANGED <<rising, home, topHome, wire, iter>>
  BY DEF MarkExports
<1>2. pc[r] \in Later /\ Types
  BY <1>1 DEF Later, IInv
<1>3. increasing[r] = rising /\ (InTop(r) <=> r \notin rising)
  BY <1>2, Migrating
<1>4. top[r] # {} => r \notin rising
  BY <1>3 DEF IInv, TopDataOnTop
<1>5. \A p : /\ p \in fromBottom <=> p \in bottom[r] /\ home[p] # r
             /\ p \in fromTop <=> /\ p \in top[r]
                                  /\ home[p] # r /\ home[p] \notin rising
             /\ p \in withinTop <=> /\ p \in top[r] /\ topHome[p] # r
                                    /\ home[p] # r /\ home[p] \in rising
  BY <1>3, <1>4 DEF LeavesForBottom, LeavesTop
<1>6. \A d \in Rank : \A p :
          p \in b["top"][d] <=> p \in withinTop /\ topHome[p] = d
  BY DEF TopDest
<1> HIDE DEF fromBottom, fromTop, withinTop, b
<1>7. /\ \A s \in Rank : pc'[s] = IF s = r THEN "invertBottom" ELSE pc[s]
      /\ \A s \in Rank : bottom'[s] = IF s = r THEN bottom[r] \ fromBottom
                                      ELSE bottom[s]
      /\ \A s \in Rank : top'[s] = IF s = r
                                   THEN top[r] \ (fromTop \cup withinTop)
                                   ELSE top[s]
      /\ \A s \in Rank : buf'[s] = IF s = r THEN b ELSE buf[s]
  BY <1>1, <1>2 DEF Types
<1>8. /\ StageOf(r) = "moved" /\ StageOf(r)' = "inside"
      /\ \A s \in Rank : s # r => StageOf(s)' = StageOf(s)
  BY <1>1, <1>7 DEF StageOf, Outside
<1>9. \A d \in Rank : buf[r]["top"][d] = {}
  BY <1>1 DEF PInv, InTime, Filled, Tag
<1>10. bottom[r] \subseteq Particle /\ top[r] \subseteq Particle
  BY <1>2 DEF Types
<1>11. dest' = dest
  <2> SUFFICES ASSUME NEW p \in Particle, home[p] \in rising
               PROVE  IsTopData(p)' <=> IsTopData(p)
    BY <1>1, DestKept
  <2>1. topHome[p] \in Rank
    BY <1>2 DEF Types
  <2>2. p \in top[r] <=> p \in top'[r] \/ \E d \in Rank : p \in buf'[r]["top"][d]
    BY <1>4, <1>5, <1>6, <1>7, <2>1
  <2>3. \A s \in Rank : s # r => top'[s] = top[s] /\ buf'[s] = buf[s]
    BY <1>7
  <2>4. (\E s \in Rank : \/ p \in top'[s]
                         \/ \E d \in Rank : p \in buf'[s]["top"][d])
        <=> \E s \in Rank : \/ p \in top[s]
                            \/ \E d \in Rank : p \in buf[s]["top"][d]
    BY <1>9, <2>2, <2>3
  <2> QED
    BY <1>1, <2>4 DEF IsTopData
<1>12. \A p \in Own[r] : dest[p] = r <=> p \in bottom'[r] \cup top'[r]
  <2> SUFFICES ASSUME NEW p \in Own[r]
               PROVE  dest[p] = r <=> p \in bottom'[r] \cup top'[r]
    OBVIOUS
  <2>1. /\ p \in Particle /\ p \in bottom[r] \cup top[r]
        /\ p \in Local(r)
    BY <1>10 DEF Own, Local
  <2>2. dest[p] = IF IsTopData(p) /\ home[p] \in rising THEN topHome[p]
                  ELSE home[p]
    BY <2>1, DestType
  <2>3. CASE p \in bottom[r]
    <3>1. \A s \in Rank : p \notin top[s]
      BY <2>1, <2>3 DEF PInv, Apart, Local
    <3>2. \A s, d \in Rank : p \notin buf[s]["top"][d]
      BY <2>1, <2>3 DEF PInv, Apart, Local, Buffered, Tag
    <3>3. \A m \in wire : p \notin m.data
      BY <2>1 DEF PInv, Apart
    <3>4. dest[p] = home[p]
      BY <2>2, <3>1, <3>2, <3>3 DEF IsTopData
    <3> QED
      BY <1>5, <1>7, <2>3, <3>1, <3>4
  <2>4. CASE p \in top[r]
    <3>1. IsTopData(p) /\ r \notin rising
      BY <1>4, <2>4 DEF IsTopData
    <3>2. p \notin bottom[r]
      BY <2>1, <2>4 DEF PInv, Apart
    <3> QED
      BY <1>5, <1>7, <2>2, <2>4, <3>1, <3>2
  <2> QED
    BY <2>1, <2>3, <2>4
<1>13. /\ \A p \in bottom'[r] \cup top'[r] : p \in Own[r]
       /\ Own[r] \subseteq Particle
  BY <1>7, <1>10 DEF Own
<1>14. Own' = [Own EXCEPT ![r] = {p \in Own[r] : dest[p] = r}]
  <2>1. Own'[r] = {p \in Own[r] : dest[p] = r}
    BY <1>12, <1>13 DEF Own
  <2>2. \A s \in Rank : s # r => Own'[s] = Own[s]
    BY <1>7 DEF Own
  <2> QED
    BY <2>1, <2>2 DEF Own
<1>15. Between' = Between \cup {p \in Own[r] : dest[p] # r}
  <2> SUFFICES ASSUME NEW p \in Particle
               PROVE  p \in Between' <=>
                          p \in Between \/ (p \in Own[r] /\ dest[p] # r)
    BY <1>13 DEF Between
  <2>1. p \in Own[r] => \A s \in Rank : s # r => p \notin bottom[s] \cup top[s]
    BY DEF PInv, Apart, Local, Own
  <2>2. \A s \in Rank : s # r => bottom'[s] = bottom[s] /\ top'[s] = top[s]
    BY <1>7
  <2>3. p \in bottom'[r] \cup top'[r] <=> p \in Own[r] /\ dest[p] = r
    BY <1>12, <1>13
  <2> QED
    BY <2>1, <2>2, <2>3 DEF Between, Own
<1>16. PICK gone : gone = {p \in Own[r] : dest[p] # r}
  OBVIOUS
<1>17. R!Left(r) = gone
  BY <1>16 DEF R!Left, Own
<1>18. Own' = [Own EXCEPT ![r] = Own[r] \ gone]
  <2>1. Own[r] \ gone = {p \in Own[r] : dest[p] = r}
    BY <1>16
  <2> QED
    BY <1>14, <2>1
<1>19. gone \ gone = {} /\ Between' = Between \cup gone
  BY <1>15, <1>16
<1>20. R!Enter(r, gone)
  BY <1>1, <1>8, <1>11, <1>17, <1>18, <1>19
     DEF R!Enter, Own, Between, StageOf
<1> QED
  BY <1>17, <1>20

(* Zoltan_Invert_Lists, the sends and exchange.                            *)
LEMMA CollectivesUnseen ==
    ASSUME InvertBottom \/ InvertTop \/ Exchange PROVE UNCHANGED R!vars
<1>1. /\ UNCHANGED <<rising, home, topHome, bottom, top, buf, wire, iter>>
      /\ \A r \in Rank : StageOf(r)' = StageOf(r)
  BY DEF InvertBottom, InvertTop, Exchange, AllAt, StageOf, Outside
<1>2. dest' = dest
  BY <1>1, TopDataKept, DestKept
<1> QED
  BY <1>1, <1>2, Unseen

LEMMA SendBottomUnseen ==
    ASSUME IInv, NEW r \in Rank, SendBottom(r) PROVE UNCHANGED R!vars
<1>1. /\ pc[r] = "sendBottom" /\ pc' = [pc EXCEPT ![r] = "invertTop"]
      /\ wire' = wire \cup Messages(r, "bottom")
      /\ buf' = [buf EXCEPT ![r]["bottom"] = NoBuffers["bottom"]]
      /\ UNCHANGED <<rising, home, topHome, bottom, top, iter>>
  BY DEF SendBottom
<1>2. \A s \in Rank : StageOf(s)' = StageOf(s)
  BY <1>1 DEF IInv, Types, StageOf, Outside
<1>3. \A s \in Rank : buf'[s]["top"] = buf[s]["top"]
  BY <1>1 DEF IInv, Types, Tag
<1>4. \A m \in Messages(r, "bottom") : m.tag # "top"
  BY DEF Messages
<1>5. \A p : IsTopData(p)' <=> IsTopData(p)
  BY <1>1, <1>3, <1>4 DEF IsTopData
<1> QED
  BY <1>1, <1>2, <1>5, DestKept, Unseen

LEMMA SendTopUnseen ==
    ASSUME IInv, PInv, NEW r \in Rank, SendTop(r) PROVE UNCHANGED R!vars
<1>1. /\ pc[r] = "sendTop" /\ pc' = [pc EXCEPT ![r] = "receive"]
      /\ wire' = wire \cup (IF InTop(r) THEN Messages(r, "top") ELSE {})
      /\ buf' = [buf EXCEPT ![r] = NoBuffers]
      /\ UNCHANGED <<rising, home, topHome, bottom, top, iter>>
  BY DEF SendTop
<1>2. \A s \in Rank : StageOf(s)' = StageOf(s)
  BY <1>1 DEF IInv, Types, StageOf, Outside
<1>3. \A s \in Rank : buf'[s] = IF s = r THEN NoBuffers ELSE buf[s]
  BY <1>1 DEF IInv, Types
<1>4. \A d \in Rank : NoBuffers["top"][d] = {}
  BY DEF NoBuffers, Tag
<1>5. ~InTop(r) => \A d \in Rank : buf[r]["top"][d] = {}
  <2>1. InTop(r) <=> r \notin rising
    BY <1>1, Migrating DEF Later
  <2> QED
    BY <2>1 DEF PInv, Goes
<1>6. \A p : (\E m \in Messages(r, "top") : m.tag = "top" /\ p \in m.data)
             <=> \E d \in Rank : p \in buf[r]["top"][d]
  <2> TAKE p
  <2>1. ASSUME NEW d \in Rank, p \in buf[r]["top"][d]
        PROVE  \E m \in Messages(r, "top") : m.tag = "top" /\ p \in m.data
    <3> DEFINE m == [from |-> r, to |-> d, tag |-> "top",
                     data |-> buf[r]["top"][d]]
    <3>1. m \in Messages(r, "top") /\ m.tag = "top" /\ p \in m.data
      BY <2>1 DEF Messages
    <3> QED
      BY <3>1
  <2>2. \A m \in Messages(r, "top") : \E d \in Rank : m.data = buf[r]["top"][d]
    BY DEF Messages
  <2> QED
    BY <2>1, <2>2
<1>7. \A p : IsTopData(p)' <=> IsTopData(p)
  <2> TAKE p
  <2>1. (\E m \in wire' : m.tag = "top" /\ p \in m.data)
        <=> \/ \E m \in wire : m.tag = "top" /\ p \in m.data
            \/ \E d \in Rank : p \in buf[r]["top"][d]
    BY <1>1, <1>5, <1>6
  <2>2. (\E s \in Rank : \/ p \in top[s]
                         \/ \E d \in Rank : p \in buf'[s]["top"][d])
        <=> \/ \E s \in Rank : p \in top[s]
            \/ \E s \in Rank : s # r /\ \E d \in Rank : p \in buf[s]["top"][d]
    BY <1>3, <1>4
  <2> QED
    BY <1>1, <2>1, <2>2 DEF IsTopData
<1> QED
  BY <1>1, <1>2, <1>7, DestKept, Unseen

LEMMA ReceiveRefines ==
    ASSUME IInv, PInv, NEW r \in Rank, Receive(r)
    PROVE  \E a \in SUBSET {p \in Between : dest[p] = r} : R!Take(r, a)
<1>1. PICK m \in wire :
          /\ m.to = r /\ m.tag \in Tag
          /\ bottom' = [bottom EXCEPT ![r] =
                           IF ForBottom(m) THEN @ \cup m.data ELSE @]
          /\ top' = [top EXCEPT ![r] =
                        IF ForBottom(m) THEN @ ELSE @ \cup m.data]
          /\ wire' = wire \ {m}
  BY DEF Receive
<1>2. /\ pc[r] = "receive"
      /\ UNCHANGED <<rising, home, topHome, buf, pc, iter>>
  BY DEF Receive
<1>3. m.data # {} /\ m.data \subseteq Particle
  <2>1. pc[r] \in Later
    BY <1>2 DEF Later
  <2> QED
    BY <2>1, Migrating DEF IInv, Types
<1>4. /\ \A s \in Rank : bottom'[s] = IF s = r /\ m.tag = "bottom"
                                      THEN bottom[s] \cup m.data ELSE bottom[s]
      /\ \A s \in Rank : top'[s] = IF s = r /\ m.tag = "top"
                                   THEN top[s] \cup m.data ELSE top[s]
  BY <1>1 DEF IInv, Types, ForBottom, Tag
<1>5. \A p \in m.data : \A s \in Rank : p \notin Local(s)
  BY DEF PInv, Apart
<1>6. \A p \in m.data : p \in Between
  BY <1>3, <1>5 DEF Between, Local
<1>7. \A p \in m.data : dest[p] = r
  <2> SUFFICES ASSUME NEW p \in m.data PROVE dest[p] = r
    OBVIOUS
  <2>1. dest[p] = IF IsTopData(p) /\ home[p] \in rising THEN topHome[p]
                  ELSE home[p]
    BY <1>3, DestType
  <2>2. CASE m.tag = "top"
    BY <1>1, <2>1, <2>2 DEF IsTopData, PInv, Goes, ByTop
  <2>3. CASE m.tag = "bottom"
    <3>1. \A s \in Rank : p \notin top[s]
      BY <1>5 DEF Local
    <3>2. \A s, d \in Rank : p \notin buf[s]["top"][d]
      BY <1>3, <1>5 DEF Local, Buffered, Tag
    <3>3. \A n \in wire : p \in n.data => n = m
      BY DEF PInv, Apart
    <3>4. ~IsTopData(p)
      BY <2>3, <3>1, <3>2, <3>3 DEF IsTopData
    <3> QED
      BY <1>1, <2>1, <2>3, <3>4 DEF PInv, Goes
  <2> QED
    BY <1>1, <2>2, <2>3 DEF Tag
<1>8. dest' = dest
  <2>1. \A p : (\E s \in Rank : p \in top'[s]) <=>
                   \/ \E s \in Rank : p \in top[s]
                   \/ m.tag = "top" /\ p \in m.data
    BY <1>4
  <2>2. \A p : IsTopData(p)' <=> IsTopData(p)
    BY <1>1, <1>2, <2>1 DEF IsTopData
  <2> QED
    BY <1>2, <2>2, DestKept
<1>9. Own' = [Own EXCEPT ![r] = @ \cup m.data]
  <2>1. \A s \in Rank : Own'[s] = IF s = r THEN Own[s] \cup m.data ELSE Own[s]
    BY <1>1, <1>4 DEF Own, Tag
  <2> QED
    BY <2>1 DEF Own
<1>10. Between' = Between \ m.data
  <2>1. \A p : (\E s \in Rank : p \in bottom'[s] \cup top'[s]) <=>
                   \/ \E s \in Rank : p \in bottom[s] \cup top[s]
                   \/ p \in m.data
    BY <1>1, <1>4 DEF Tag
  <2> QED
    BY <2>1 DEF Between
<1>11. StageOf(r) = "inside" /\ \A s \in Rank : StageOf(s)' = StageOf(s)
  BY <1>2 DEF StageOf, Outside
<1>12. m.data \in SUBSET {p \in Between : dest[p] = r}
  BY <1>6, <1>7
<1>13. R!Take(r, m.data)
  BY <1>2, <1>3, <1>8, <1>9, <1>10, <1>11
     DEF R!Take, Own, Between, StageOf
<1> QED
  BY <1>12, <1>13

LEMMA ReturnRefines ==
    ASSUME IInv, PInv, NEW r \in Rank, Return(r) PROVE R!Leave(r)
<1>1. /\ pc[r] = "receive" /\ owed[r] = NothingOwed
      /\ pc' = [pc EXCEPT ![r] = "migrated"]
      /\ UNCHANGED <<rising, home, topHome, bottom, top, buf, wire, iter>>
  BY DEF Return
<1>2. /\ StageOf(r) = "inside" /\ StageOf(r)' = "ready"
      /\ \A s \in Rank : s # r => StageOf(s)' = StageOf(s)
  BY <1>1 DEF IInv, Types, StageOf, Outside
<1>3. \A s \in Rank : pc[s] \in Receiving
  BY <1>1, Stages DEF PInv, InStep, Receiving
<1>4. \A s \in Rank : iter[s] >= iter[r] /\ StageOf(s) # "moved"
  <2>1. \A s \in Rank : Turn(s) = iter[s] /\ pc[s] # "moved"
    BY <1>3 DEF Turn, Receiving
  <2>2. \A s \in Rank : iter[s] = iter[r] /\ iter[s] \in Nat
    BY <2>1 DEF PInv, InStep
  <2> QED
    BY <2>1, <2>2 DEF StageOf
<1>5. \A p \in Between : dest[p] # r
  <2> SUFFICES ASSUME NEW p \in Particle, p \in Between, dest[p] = r
               PROVE  FALSE
    BY DEF Between
  <2>1. /\ \A s \in Rank : mesh[s] = {}
        /\ \A n \in wire : n.tag \in Tag /\ n.from \in Rank /\ n.to \in Rank
    BY <1>1, Migrating DEF Later
  <2>2. \A s \in Rank : \A t \in Tag : buf[s][t][r] = {} /\ ~UnderWay(s, t, r)
    <3>1. \A t \in Tag : pc[r] \in Told(t) /\ owed[r][t] = {}
      BY <1>1, <1>3 DEF Told, NothingOwed
    <3> QED
      BY <3>1 DEF PInv, Books
  <2>3. dest[p] = IF IsTopData(p) /\ home[p] \in rising THEN topHome[p]
                  ELSE home[p]
    BY DestType
  <2>4. CASE \E m \in wire : p \in m.data
    <3>1. PICK m \in wire : p \in m.data
      BY <2>4
    <3>2. m.to # r
      BY <2>1, <2>2 DEF UnderWay
    <3>3. CASE m.tag = "top"
      BY <2>3, <3>1, <3>2, <3>3 DEF IsTopData, PInv, Goes, ByTop
    <3>4. CASE m.tag = "bottom"
      <4>1. \A s, d \in Rank : p \notin buf[s]["top"][d] /\ p \notin top[s]
        BY <3>1 DEF PInv, Apart, Local, Buffered, Tag
      <4>2. \A n \in wire : p \in n.data => n = m
        BY <3>1 DEF PInv, Apart
      <4>3. ~IsTopData(p)
        BY <3>4, <4>1, <4>2 DEF IsTopData
      <4> QED
        BY <2>3, <3>1, <3>2, <3>4, <4>3 DEF PInv, Goes
    <3> QED
      BY <2>1, <3>3, <3>4 DEF Tag
  <2>5. CASE \A m \in wire : p \notin m.data
    <3>1. PICK s \in Rank, t \in Tag, d \in Rank : p \in buf[s][t][d]
      BY <2>1, <2>5 DEF PInv, Somewhere, Local, Buffered, Between
    <3>2. d # r /\ t = "top"
      BY <1>3, <2>2, <3>1 DEF PInv, InTime, Filled, Receiving, Tag
    <3>3. home[p] \in rising /\ topHome[p] = d
      BY <3>1, <3>2 DEF PInv, Goes, ByTop
    <3> QED
      BY <2>3, <3>1, <3>2, <3>3 DEF IsTopData
  <2> QED
    BY <2>4, <2>5
<1>6. dest' = dest
  BY <1>1, TopDataKept, DestKept
<1>7. Own' = Own /\ Between' = Between
  BY <1>1 DEF Own, Between
<1> QED
  BY <1>1, <1>2, <1>4, <1>5, <1>6, <1>7, ZenonT(60)
     DEF R!Leave, R!AllTaken, Own, Between, StageOf

(* From the division on migrate and the steps around it, with two kinds of *)
(* data and two partitions, do what Redistribution promises for one kind.  *)
THEOREM MigrateRefines == Spec => MigratesAsPromised
<1>1. IInv /\ PInv /\ IInv' /\ PInv' /\ [Next]_vars
          => (Divided => [R!Next]_(R!vars))
  <2> SUFFICES ASSUME IInv, PInv, IInv', PInv', [Next]_vars, Divided
               PROVE  R!Next \/ UNCHANGED R!vars
    OBVIOUS
  <2>1. PICK q \in Rank : TRUE
    BY RankAssumption
  <2>2. \A s \in Rank : pc[s] \notin Early
    BY DEF Divided
  <2>3. ASSUME NEW r \in Rank, SendAll(r) \/ GatherOne(r) \/ EnterBalancing(r)
        PROVE  FALSE
    BY <2>2, <2>3 DEF SendAll, GatherOne, EnterBalancing, Early
  <2>4. ASSUME NEW r \in Rank, Move(r) \/ MarkExports(r) \/ Return(r)
        PROVE  R!Next
    BY <2>4, MoveRefines, MarkExportsRefines, ReturnRefines DEF R!Next
  <2>5. ASSUME NEW r \in Rank, SendBottom(r) \/ SendTop(r)
        PROVE  UNCHANGED R!vars
    BY <2>5, SendBottomUnseen, SendTopUnseen
  <2>6. ASSUME NEW r \in Rank, Receive(r) PROVE R!Next
    BY <2>6, ReceiveRefines DEF R!Next, Between
  <2>7. CASE Collective
    <3>1. ~GetCommunicator /\ ~Divide2
      BY <2>1, <2>2 DEF GetCommunicator, Divide2, AllAt, Early
    <3>2. ~BalanceTop
      <4> SUFFICES ASSUME NEW r \in Rank, comm[r] # {},
                          \A s \in comm[r] : pc[s] = "balance"
                   PROVE  FALSE
        BY DEF BalanceTop
      <4>1. SplitSo(r)
        BY <2>2 DEF IInv, View, AllAt, Early
      <4>2. comm[r] \subseteq Rank
        BY <4>1 DEF SplitSo
      <4> QED
        BY <2>2, <4>2 DEF Early
    <3> QED
      BY <2>7, <3>1, <3>2, CollectivesUnseen DEF Collective
  <2>8. CASE UNCHANGED vars
    <3>1. /\ UNCHANGED <<rising, home, topHome, bottom, top, buf, wire, iter>>
          /\ \A r \in Rank : StageOf(r)' = StageOf(r)
      BY <2>8 DEF vars, StageOf
    <3>2. dest' = dest
      BY <3>1, TopDataKept, DestKept
    <3> QED
      BY <3>1, <3>2, Unseen
  <2> QED
    BY <2>3, <2>4, <2>5, <2>6, <2>7, <2>8 DEF Next, RankStep, Finished
<1> QED
  BY <1>1, AlwaysPInv, PTL DEF Spec, MigratesAsPromised

-----------------------------------------------------------------------------
(***************************************************************************)
(* exchange: what the arrays of marks have, and whom the copies reach.     *)
(***************************************************************************)

(* Every rank found is some j-th of those found, counted from the least.   *)
LEMMA EveryoneIsNth ==
    ASSUME NEW found \in SUBSET Rank, NEW s \in found
    PROVE  \E j \in 1..Cardinality(found) : Nth(found, j) = s
<1> DEFINE upTo(x) == {y \in found : y <= x}
           j == Cardinality(upTo(s))
<1>1. IsFiniteSet(found) /\ found \subseteq Nat
  BY FS_Subset, RankAssumption
<1>2. \A x \in found : /\ IsFiniteSet(upTo(x))
                       /\ Cardinality(upTo(x)) \in Nat
                       /\ Cardinality(upTo(x)) <= Cardinality(found)
  <2> TAKE x \in found
  <2>1. upTo(x) \in SUBSET found
    OBVIOUS
  <2> QED
    BY <1>1, <2>1, FS_Subset, FS_CardinalityType
<1>3. j # 0
  <2>1. s \in upTo(s)
    BY <1>1
  <2> QED
    BY <1>2, <2>1, FS_EmptySet
<1>4. ASSUME NEW x \in found, NEW z \in found, x < z
      PROVE  Cardinality(upTo(x)) # Cardinality(upTo(z))
  <2>1. upTo(x) \in SUBSET upTo(z) /\ z \in upTo(z) /\ z \notin upTo(x)
    <3>1. x \in Nat /\ z \in Nat
      BY <1>1
    <3>2. ASSUME NEW y \in upTo(x) PROVE y \in upTo(z)
      BY <1>1, <1>4, <3>1
    <3>3. z <= z /\ ~(z <= x)
      BY <1>4, <3>1
    <3>4. z \in upTo(z) /\ z \notin upTo(x)
      BY <3>3
    <3> HIDE DEF upTo
    <3> QED
      BY <3>2, <3>4
  <2>2. IsFiniteSet(upTo(z))
    BY <1>2
  <2> HIDE DEF upTo
  <2> QED
    BY <2>1, <2>2, FS_Subset
<1>5. \A x \in found : Cardinality(upTo(x)) = j => x = s
  BY <1>1, <1>4
<1>6. Nth(found, j) = s
  BY <1>5 DEF Nth
<1>7. j \in 1..Cardinality(found)
  <2>1. Cardinality(found) \in Nat /\ j \in Nat /\ j <= Cardinality(found)
    BY <1>1, <1>2, FS_CardinalityType
  <2> HIDE DEF j
  <2> QED
    BY <1>3, <2>1
<1> QED
  BY <1>6, <1>7

(* Marking a particle writes all the ranks found to the front of the array.*)
LEMMA AllMarked ==
    ASSUME NEW q, NEW found, NEW k \in Nat \ {0},
           found[q[k]] \in SUBSET Rank
    PROVE  found[q[k]] \subseteq Range(PEs(q, found, k))
<1> DEFINE f == found[q[k]]
<1> SUFFICES ASSUME NEW s \in f PROVE s \in Range(PEs(q, found, k))
  OBVIOUS
<1>1. PICK j \in 1..Cardinality(f) : Nth(f, j) = s
  BY EveryoneIsNth
<1>2. /\ Cardinality(f) \in Nat /\ Cardinality(Rank) \in Nat
      /\ Cardinality(f) <= Cardinality(Rank)
  BY FS_Subset, FS_CardinalityType, RankAssumption
<1>3. j \in 1..Cardinality(Rank)
  BY <1>2
<1> DEFINE written == {i \in 1..k : j <= Cardinality(found[q[i]])}
<1>4. k \in written /\ \A i \in written : i \in Nat /\ k >= i
  BY <1>1, <1>2
<1>5. Max(written) = k
  <2> HIDE DEF written
  <2>1. \A i \in written : (\A y \in written : i >= y) => i = k
    BY <1>4
  <2> QED
    BY <1>4, <2>1 DEF Max
<1>6. PEs(q, found, k)[j] = s
  BY <1>1, <1>3, <1>4, <1>5 DEF PEs
<1>7. j \in DOMAIN PEs(q, found, k)
  BY <1>3 DEF PEs
<1> QED
  BY <1>6, <1>7 DEF Range

(* An order of a finite set is a sequence that has all of it.              *)
LEMMA OrderOfAll ==
    ASSUME NEW S, IsFiniteSet(S), NEW u \in SetToSeqs(S)
    PROVE  /\ u \in Seq(S)
           /\ \A p \in S : \E k \in 1..Len(u) : u[k] = p
<1> DEFINE D == 1..Cardinality(S)
<1>1. Cardinality(S) \in Nat
  BY FS_CardinalityType
<1>2. u \in [D -> S] /\ \A i, j \in D : i # j => u[i] # u[j]
  BY DEF SetToSeqs
<1>3. u \in Seq(S) /\ Len(u) = Cardinality(S)
  BY <1>1, <1>2
<1>4. u \in Injection(D, S)
  BY <1>2 DEF Injection, IsInjective
<1>5. IsFiniteSet(D) /\ Cardinality(D) = Cardinality(S)
  BY <1>1, FS_Interval
<1>6. u \in Surjection(D, S)
  BY <1>4, <1>5, FS_Injection
<1> QED
  BY <1>3, <1>6 DEF Surjection

(* A rank's sequence of marked particles has both its vectors.             *)
LEMMA OrderOfBoth ==
    ASSUME IInv, NEW r \in Rank, NEW q \in Orders(r)
    PROVE  /\ q \in Seq(Particle)
           /\ \A p \in bottom[r] \cup top[r] : \E k \in 1..Len(q) : q[k] = p
<1> DEFINE mine == bottom[r]
           theirs == IF InTop(r) THEN top[r] ELSE {}
<1>1. theirs = top[r]
  BY DEF IInv, TopDataOnTop
<1>2. mine \in SUBSET Particle /\ theirs \in SUBSET Particle
  BY <1>1 DEF IInv, Types
<1>3. IsFiniteSet(mine) /\ IsFiniteSet(theirs)
  BY <1>2, FS_Subset, ParticleAssumption
<1>4. PICK u \in SetToSeqs(mine), v \in SetToSeqs(theirs) : q = u \o v
  BY DEF Orders
<1> HIDE DEF mine, theirs
<1>5. /\ u \in Seq(mine) /\ \A p \in mine : \E k \in 1..Len(u) : u[k] = p
      /\ v \in Seq(theirs) /\ \A p \in theirs : \E k \in 1..Len(v) : v[k] = p
  BY <1>3, <1>4, OrderOfAll
<1>6. u \in Seq(Particle) /\ v \in Seq(Particle)
  BY <1>2, <1>5
<1>7. q \in Seq(Particle)
  BY <1>4, <1>6
<1>8. ASSUME NEW p \in mine PROVE \E k \in 1..Len(q) : q[k] = p
  <2>1. PICK k \in 1..Len(u) : u[k] = p
    BY <1>5
  <2> QED
    BY <1>4, <1>6, <2>1
<1>9. ASSUME NEW p \in theirs PROVE \E k \in 1..Len(q) : q[k] = p
  <2>1. PICK k \in 1..Len(v) : v[k] = p
    BY <1>5
  <2>2. Len(u) + k \in 1..Len(q) /\ q[Len(u) + k] = p
    BY <1>4, <1>6, <2>1
  <2> QED
    BY <2>2
<1> QED
  BY <1>1, <1>7, <1>8, <1>9 DEF mine

(* When all have returned from migrate, every particle is in some vector.  *)
LEMMA AllMigrated ==
    ASSUME IInv, PInv, AllAt("migrated"), NEW p \in Particle
    PROVE  \E r \in Rank : p \in bottom[r] \cup top[r]
<1>1. PICK r \in Rank : pc[r] = "migrated"
  BY RankAssumption DEF AllAt
<1>2. wire = {} /\ \A s, d \in Rank : \A t \in Tag : buf[s][t][d] = {}
  BY NothingLeft
<1>3. \A s \in Rank : mesh[s] = {}
  BY <1>1, Migrating DEF Later
<1>4. \A s \in Rank : Buffered(s) = {}
  BY <1>2 DEF Buffered
<1> QED
  BY <1>2, <1>3, <1>4 DEF PInv, Somewhere, Local

(* Every rank near a particle has it or a copy.                            *)
Reached(p) == \A r \in near[p] : p \in bottom[r] \cup top[r] \cup ghosts[r]

(* Who is near is known only from an exchange to the next move: then the   *)
(* vectors are those the exchange marked.                                  *)
Reach ==
    \/ \A p \in Particle : near[p] = {}
    \/ AllAt("ready") /\ \A p \in Particle : Reached(p)

LEMMA ExchangeReaches ==
    ASSUME IInv, PInv, Exchange PROVE Reach'
<1>1. PICK q \in [Rank -> UNION {Orders(r) : r \in Rank}] :
           /\ \A r \in Rank : q[r] \in Orders(r)
           /\ \E b \in [Particle -> SUBSET Rank],
                 t \in [Particle -> SUBSET {s \in Rank : InTop(s)}] :
                 /\ near' = [p \in Particle |-> b[p] \cup t[p]]
                 /\ ghosts' = [r \in Rank |->
                       {p \in Particle : \E s \in Rank :
                           <<p, r>> \in Exported(s, q[s], b, t)}]
  BY DEF Exchange
<1>2. PICK b \in [Particle -> SUBSET Rank],
           t \in [Particle -> SUBSET {s \in Rank : InTop(s)}] :
           /\ \A r \in Rank : q[r] \in Orders(r)
           /\ near' = [p \in Particle |-> b[p] \cup t[p]]
           /\ ghosts' = [r \in Rank |->
                 {p \in Particle : \E s \in Rank :
                     <<p, r>> \in Exported(s, q[s], b, t)}]
  BY <1>1
<1>3. /\ AllAt("migrated") /\ UNCHANGED <<bottom, top>>
      /\ pc' = [r \in Rank |-> "ready"]
  BY DEF Exchange
<1>4. ASSUME NEW p \in Particle, NEW r \in near'[p],
             p \notin bottom[r] \cup top[r]
      PROVE  p \in ghosts'[r]
  <2>1. r \in Rank /\ (r \in b[p] \/ r \in t[p])
    BY <1>2, <1>4
  <2>2. PICK s \in Rank : p \in bottom[s] \cup top[s]
    BY <1>3, AllMigrated
  <2>3. q[s] \in Orders(s)
    BY <1>2
  <2>4. PICK k \in 1..Len(q[s]) : q[s][k] = p
    BY <2>2, <2>3, OrderOfBoth
  <2>5. q[s] \in Seq(Particle)
    BY <2>3, OrderOfBoth
  <2>6. k \in DOMAIN q[s] /\ k \in Nat \ {0}
    BY <2>5
  <2>7. b[p] \in SUBSET Rank /\ t[p] \in SUBSET Rank
    BY <1>2
  <2>8. /\ b[p] \subseteq Range(PEs(q[s], b, k))
        /\ t[p] \subseteq Range(PEs(q[s], t, k))
    BY <2>4, <2>6, <2>7, AllMarked
  <2>9. r \notin {-1, s}
    <3>1. r \in Nat
      BY <2>1, RankAssumption
    <3>2. r # -1
      BY <3>1
    <3> QED
      BY <1>4, <2>2, <3>2
  <2>10. <<p, r>> \in Exported(s, q[s], b, t)
    <3>1. r \in (Range(PEs(q[s], b, k)) \cup Range(PEs(q[s], t, k)))
                \ {-1, s}
      BY <2>1, <2>8, <2>9
    <3> QED
      BY <2>4, <2>6, <3>1 DEF Exported
  <2> QED
    BY <1>2, <2>1, <2>10
<1>5. \A p \in Particle : Reached(p)'
  BY <1>3, <1>4 DEF Reached
<1>6. AllAt("ready")'
  BY <1>3 DEF AllAt
<1> QED
  BY <1>5, <1>6 DEF Reach

LEMMA MoveForgets == ASSUME NEW r \in Rank, Move(r) PROVE Reach'
BY DEF Move, Reach

(* Nothing else than Move is possible when all are outside.                *)
LEMMA ReachKept ==
    ASSUME Reach, NEW r \in Rank, pc[r] # "ready", UNCHANGED near
    PROVE  Reach'
BY DEF Reach, AllAt

LEMMA AlwaysReach == Spec => []Reach
<1>1. Init => Reach
  BY DEF Init, Reach
<1>2. IInv /\ PInv /\ Reach /\ [Next]_vars => Reach'
  <2> SUFFICES ASSUME IInv, PInv, Reach, [Next]_vars
               PROVE  Reach'
    OBVIOUS
  <2>1. ASSUME NEW r \in Rank, RankStep(r), ~Move(r)
        PROVE  Reach'
    <3>1. CASE SendAll(r) \/ GatherOne(r) \/ EnterBalancing(r)
      <4>1. pc[r] # "ready" /\ UNCHANGED near
        BY <3>1 DEF SendAll, GatherOne, EnterBalancing
      <4> QED
        BY <4>1, ReachKept
    <3>2. CASE MarkExports(r) \/ SendBottom(r) \/ SendTop(r)
      <4>1. pc[r] # "ready" /\ UNCHANGED near
        BY <3>2 DEF MarkExports, SendBottom, SendTop
      <4> QED
        BY <4>1, ReachKept
    <3>3. CASE Receive(r) \/ Return(r)
      <4>1. pc[r] # "ready" /\ UNCHANGED near
        BY <3>3 DEF Receive, Return
      <4> QED
        BY <4>1, ReachKept
    <3> QED
      BY <2>1, <3>1, <3>2, <3>3 DEF RankStep
  <2>2. CASE Collective /\ ~Exchange
    <3>1. PICK r \in Rank : pc[r] # "ready"
      <4>1. CASE \E s \in {"split", "divide", "invertBottom", "invertTop"} :
                     AllAt(s)
        BY <4>1, RankAssumption DEF AllAt
      <4>2. CASE BalanceTop
        <5>1. PICK s \in Rank : /\ comm[s] # {}
                                /\ \A o \in comm[s] : pc[o] = "balance"
          BY <4>2 DEF BalanceTop
        <5>2. comm[s] \subseteq Rank
          BY <5>1 DEF IInv, View, SplitSo
        <5> QED
          BY <5>1, <5>2
      <4> QED
        BY <2>2, <4>1, <4>2
           DEF Collective, GetCommunicator, Divide2, InvertBottom, InvertTop
    <3>2. UNCHANGED near
      BY <2>2 DEF Collective, GetCommunicator, BalanceTop, Divide2,
                  InvertBottom, InvertTop
    <3> QED
      BY <3>1, <3>2, ReachKept
  <2>3. CASE UNCHANGED vars
    BY <2>3 DEF vars, Reach, AllAt, Reached
  <2> QED
    BY <2>1, <2>2, <2>3, MoveForgets, ExchangeReaches DEF Next, Finished
<1> QED
  BY <1>1, <1>2, AlwaysPInv, PTL DEF Spec

(* After an exchange every rank whose region a particle is near, in either *)
(* partition, has the particle or a copy of it, whatever is left in the    *)
(* two arrays of marks from the particles before it: unloading_model.hpp,  *)
(* exchange.                                                               *)
THEOREM CopiesReach == Spec => []GhostsReach
<1>1. IInv /\ Reach => GhostsReach
  BY DEF Reach, Reached, GhostsReach
<1> QED
  BY <1>1, AlwaysReach, AlwaysIInv, PTL
=============================================================================
