------------------------------ MODULE FloorProofs ------------------------------
(***************************************************************************)
(* What goes on on the floor, in parts that share no state: the choice of  *)
(* a robot, the search of a way, manual control, what analytics counts,    *)
(* and what the control center keeps of tasks and of settings.             *)
(***************************************************************************)
EXTENDS DispatchSelect, Planner, Operator, Analytics, Tracks, Settings,
        FiniteSetTheorems, WellFoundedInduction, TLAPS

-----------------------------------------------------------------------------
(* The choice of a robot.                                                  *)

SelectSpec == SelectInit /\ [][SelectNext]_eligible

KeyType == Int \X Int \X Int \X Int \X Int

LEMMA TotalType ==
  ASSUME NEW lengths \in Seq(Nat)
  PROVE  Total(lengths) \in Nat
<1> DEFINE metres(i) == {i} \X (1..lengths[i])
           all == {metres(i) : i \in DOMAIN lengths}
<1>1. DOMAIN lengths = 1..Len(lengths) /\ Len(lengths) \in Nat
  OBVIOUS
<1>2. IsFiniteSet(DOMAIN lengths)
  BY <1>1, FS_Interval
<1>3. IsFiniteSet(all)
  <2>1. [i \in DOMAIN lengths |-> metres(i)] \in Surjection(DOMAIN lengths, all)
    BY DEF Surjection
  <2> QED
    BY <1>2, <2>1, FS_Surjection
<1>4. \A T \in all : IsFiniteSet(T)
  <2>1. ASSUME NEW i \in DOMAIN lengths PROVE IsFiniteSet({i} \X (1..lengths[i]))
    <3>1. lengths[i] \in Nat
      BY <1>1
    <3>2. IsFiniteSet(1..lengths[i])
      BY <3>1, FS_Interval
    <3>3. IsFiniteSet({i})
      BY FS_Singleton
    <3> QED
      BY <3>2, <3>3, FS_Product
  <2> QED
    BY <2>1
<1>5. IsFiniteSet(UNION all)
  BY <1>3, <1>4, FS_UNION
<1> QED
  BY <1>5, FS_CardinalityType DEF Total

LEMMA KeyTypeCorrect ==
  ASSUME NEW c \in Candidate
  PROVE  Key(c) \in KeyType
<1>1. /\ c.busy \in BOOLEAN /\ c.remaining \in Remaining \cup {0} /\ c.queue \in Queue
      /\ c.distance \in Distance /\ c.battery \in Battery
  BY DEF Candidate
<1>2. /\ c.remaining \in Nat /\ c.queue \in Seq(Nat)
      /\ c.distance \in Nat \cup {NoPose} /\ c.battery \in Int
  <2>1. /\ Remaining \cup {0} \subseteq Nat /\ Queue \subseteq Seq(Nat)
        /\ Distance \subseteq Nat \cup {NoPose} /\ Battery \subseteq Int
    BY SelectAssumption
  <2>2. c.remaining \in Nat
    BY <1>1, <2>1, Zenon
  <2>3. c.queue \in Seq(Nat)
    BY <1>1, <2>1, Zenon
  <2>4. c.distance \in Nat \cup {NoPose}
    BY <1>1, <2>1, Zenon
  <2>5. c.battery \in Int
    BY <1>1, <2>1, Zenon
  <2> QED
    BY <2>2, <2>3, <2>4, <2>5, Zenon
<1>3. Total(c.queue) \in Nat /\ Len(c.queue) \in Nat
  BY <1>2, TotalType
<1>4. Eta(c) \in Int
  <2>1. c.remaining * SegmentLength \in Nat
    BY <1>2, SelectAssumption
  <2> QED
    BY <2>1, <1>3 DEF Eta
<1>5. KeyDistance(c) \in Int
  BY <1>2 DEF KeyDistance
<1>6. -c.battery \in Int
  BY <1>2
<1>7. (IF c.busy THEN 1 ELSE 0) \in Int
  OBVIOUS
<1>8. Len(c.queue) \in Int
  BY <1>3
<1>9. PICK x1 : x1 = (IF c.busy THEN 1 ELSE 0)
  OBVIOUS
<1>10. PICK x5 : x5 = -c.battery
  OBVIOUS
<1>11. Key(c) = <<x1, Eta(c), Len(c.queue), KeyDistance(c), x5>>
  BY <1>9, <1>10 DEF Key
<1> HIDE DEF Eta, KeyDistance
<1> QED
  BY <1>4, <1>5, <1>6, <1>7, <1>8, <1>9, <1>10, <1>11 DEF KeyType

(* The order of tuples is a strict order.                                  *)
LEMMA LessUnfolded ==
  ASSUME NEW k \in KeyType, NEW l \in KeyType
  PROVE  Less(k, l) <=>
           \/ k[1] < l[1]
           \/ k[1] = l[1] /\ k[2] < l[2]
           \/ k[1] = l[1] /\ k[2] = l[2] /\ k[3] < l[3]
           \/ k[1] = l[1] /\ k[2] = l[2] /\ k[3] = l[3] /\ k[4] < l[4]
           \/ k[1] = l[1] /\ k[2] = l[2] /\ k[3] = l[3] /\ k[4] = l[4] /\ k[5] < l[5]
<1>1. PICK a, b, c, d, e \in Int : k = <<a, b, c, d, e>>
  BY DEF KeyType
<1>2. Len(k) = 5
  BY <1>1
<1>3. \A i \in 1..5 : (\A j \in 1..(i - 1) : k[j] = l[j]) <=>
        /\ i > 1 => k[1] = l[1]
        /\ i > 2 => k[2] = l[2]
        /\ i > 3 => k[3] = l[3]
        /\ i > 4 => k[4] = l[4]
  OBVIOUS
<1>4. Less(k, l) <=> \E i \in 1..5 : k[i] < l[i] /\ \A j \in 1..(i - 1) : k[j] = l[j]
  BY <1>2 DEF Less
<1>5. 1..5 = {1, 2, 3, 4, 5}
  OBVIOUS
<1> QED
  BY <1>3, <1>4, <1>5

LEMMA LessOrders ==
  ASSUME NEW k \in KeyType, NEW l \in KeyType, NEW m \in KeyType
  PROVE  /\ ~Less(k, k)
         /\ Less(k, l) /\ Less(l, m) => Less(k, m)
         /\ Less(k, m) => Less(k, l) \/ Less(l, m)
<1>1. /\ \A i \in 1..5 : k[i] \in Int
      /\ \A i \in 1..5 : l[i] \in Int
      /\ \A i \in 1..5 : m[i] \in Int
  BY DEF KeyType
<1>2. /\ k[1] \in Int /\ k[2] \in Int /\ k[3] \in Int /\ k[4] \in Int /\ k[5] \in Int
      /\ l[1] \in Int /\ l[2] \in Int /\ l[3] \in Int /\ l[4] \in Int /\ l[5] \in Int
      /\ m[1] \in Int /\ m[2] \in Int /\ m[3] \in Int /\ m[4] \in Int /\ m[5] \in Int
  BY <1>1
<1> QED
  BY <1>2, LessUnfolded

(* What registering robots keeps: there is a first one among the least.    *)
First(list, i) == i \in Least(list) /\ \A j \in Least(list) : i <= j

Chosen ==
  /\ eligible \in Seq(Candidate)
  /\ eligible # <<>> => \E i \in 1..Len(eligible) : First(eligible, i)

LEMMA AppendFirst ==
  ASSUME NEW list \in Seq(Candidate), NEW c \in Candidate,
         list # <<>> => \E i \in 1..Len(list) : First(list, i)
  PROVE  \E i \in 1..Len(Append(list, c)) : First(Append(list, c), i)
<1> DEFINE n == Len(list)
           longer == Append(list, c)
           key(i) == Key(longer[i])
<1>1. /\ n \in Nat /\ Len(longer) = n + 1
      /\ \A i \in 1..n : longer[i] = list[i] /\ list[i] \in Candidate
      /\ longer[n + 1] = c
      /\ 1..(n + 1) = 1..n \cup {n + 1}
  OBVIOUS
<1>2. \A i \in 1..(n + 1) : key(i) \in KeyType
  BY <1>1, KeyTypeCorrect
<1>3. \A i : i \in Least(longer)
                <=> i \in 1..(n + 1) /\ \A j \in 1..(n + 1) : ~Less(key(j), key(i))
  BY <1>1 DEF Least
<1>4. \A i : i \in Least(list)
                <=> i \in 1..n /\ \A j \in 1..n : ~Less(key(j), key(i))
  BY <1>1 DEF Least
<1> HIDE DEF longer, key
<1>5. CASE list = <<>>
  <2>1. n = 0
    BY <1>5
  <2>2. First(longer, 1)
    BY <2>1, <1>1, <1>2, <1>3, LessOrders DEF First
  <2> QED
    BY <2>1, <2>2, <1>1 DEF longer
<1>6. CASE list # <<>>
  <2>1. PICK i \in 1..n : First(list, i)
    BY <1>6
  <2>2. CASE Less(key(n + 1), key(i))
    <3>1. \A j \in 1..(n + 1) : ~Less(key(j), key(n + 1))
      BY <2>1, <2>2, <1>1, <1>2, <1>4, LessOrders DEF First
    <3>2. \A j \in 1..n : j \notin Least(longer)
      BY <2>1, <2>2, <1>1, <1>2, <1>3, <1>4, LessOrders DEF First
    <3>3. First(longer, n + 1)
      BY <3>1, <3>2, <1>1, <1>3 DEF First
    <3> QED
      BY <3>3, <1>1 DEF longer
  <2>3. CASE ~Less(key(n + 1), key(i))
    <3>1. i \in Least(longer)
      BY <2>1, <2>3, <1>1, <1>3, <1>4 DEF First
    <3>2. \A j \in Least(longer) : i <= j
      BY <2>1, <1>1, <1>3, <1>4 DEF First
    <3> QED
      BY <3>1, <3>2, <1>1, <1>3 DEF longer, First
  <2> QED
    BY <2>2, <2>3
<1> QED
  BY <1>5, <1>6

(* However robots register, a robot to select is there                     *)
(* (_registration_callback, _select_robot).                                *)
THEOREM ChoiceKept == SelectSpec => []Chosen
<1>1. SelectInit => Chosen
  BY DEF SelectInit, Chosen
<1>2. Chosen /\ [SelectNext]_eligible => Chosen'
  <2> SUFFICES ASSUME Chosen, [SelectNext]_eligible PROVE Chosen'
    OBVIOUS
  <2>1. CASE eligible' = eligible
    BY <2>1 DEF Chosen, First, Least
  <2>2. ASSUME NEW c \in Candidate, Register(c) PROVE Chosen'
    <3>1. eligible' = Append(eligible, c) /\ eligible \in Seq(Candidate)
      BY <2>2 DEF Register, Chosen
    <3>2. \E i \in 1..Len(eligible') : First(eligible', i)
      BY <3>1, AppendFirst DEF Chosen
    <3>3. eligible' \in Seq(Candidate)
      BY <3>1
    <3> QED
      BY <3>2, <3>3 DEF Chosen, First, Least
  <2> QED
    BY <2>1, <2>2 DEF SelectNext
<1> QED
  BY <1>1, <1>2, PTL DEF SelectSpec

LEMMA SelectedIsLeast ==
  ASSUME NEW list, NEW i, First(list, i)
  PROVE  \E k \in Least(list) : Selected(list) = list[k]
<1> DEFINE k == CHOOSE k \in Least(list) : \A j \in Least(list) : k <= j
<1>1. k \in Least(list)
  BY DEF First
<1> QED
  BY <1>1 DEF Selected

(* The robot selected, the first of the least by _key, is one that the     *)
(* fleet manager's Best allows: idle if any is, and of the idle ones with  *)
(* no longer a queue than another (_select_robot).                         *)
THEOREM BestIsSelected == SelectSpec => []WithinBest
<1>1. Chosen => WithinBest
  <2> SUFFICES ASSUME Chosen, eligible # <<>>, NEW c \in Others, ~c.busy
               PROVE  /\ ~Selected(eligible).busy
                      /\ Len(Selected(eligible).queue) <= Len(c.queue)
    BY DEF WithinBest
  <2>1. PICK k \in Least(eligible) : Selected(eligible) = eligible[k]
    BY SelectedIsLeast DEF Chosen
  <2>2. PICK j \in 1..Len(eligible) : c = eligible[j]
    BY DEF Others
  <2>3. PICK s : s = eligible[k]
    OBVIOUS
  <2>4. c \in Candidate /\ s \in Candidate /\ ~Less(Key(c), Key(s))
    BY <2>1, <2>2, <2>3 DEF Chosen, Least
  <2>5. Key(c) \in KeyType /\ Key(s) \in KeyType
    BY <2>4, KeyTypeCorrect
  <2>6. /\ Key(c)[1] = 0 /\ Key(c)[2] = 0 /\ Key(c)[3] = Len(c.queue)
        /\ Key(s)[1] = IF s.busy THEN 1 ELSE 0
        /\ Key(s)[2] = IF s.busy THEN Eta(s) ELSE 0
        /\ Key(s)[3] = Len(s.queue)
    BY DEF Key, Eta
  <2>7. /\ ~(Key(c)[1] < Key(s)[1])
        /\ Key(c)[1] = Key(s)[1] /\ Key(c)[2] = Key(s)[2] => ~(Key(c)[3] < Key(s)[3])
    BY <2>4, <2>5, LessUnfolded
  <2>8. s.busy \in BOOLEAN /\ Len(s.queue) \in Nat /\ Len(c.queue) \in Nat
    <3>1. s.queue \in Seq(Nat) /\ c.queue \in Seq(Nat) /\ s.busy \in BOOLEAN
      BY <2>4, SelectAssumption DEF Candidate
    <3> QED
      BY <3>1
  <2>9. ~s.busy
    BY <2>6, <2>7, <2>8
  <2>10. Len(s.queue) <= Len(c.queue)
    BY <2>6, <2>7, <2>8, <2>9
  <2> QED
    BY <2>1, <2>3, <2>9, <2>10
<1> QED
  BY <1>1, ChoiceKept, PTL

-----------------------------------------------------------------------------
(* Every set of natural numbers has a least one.                           *)
LEMMA LeastNatural ==
  ASSUME NEW S \in SUBSET Nat, S # {}
  PROVE  \E m \in S : \A n \in S : m <= n
<1> DEFINE R == {ss \in Nat \X Nat : ss[1] < ss[2]}
<1>1. IsWellFoundedOn(OpToRel(<, Nat), Nat)
  BY NatLessThanWellFounded
<1>2. OpToRel(<, Nat) = R
  BY DEF OpToRel
<1>3. IsWellFoundedOn(R, Nat)
  BY <1>1, <1>2
<1> HIDE DEF R
<1>4. PICK m \in S : \A n \in S : ~ (<<n, m>> \in R)
  BY <1>3, WFMin
<1>5. \A n \in S : ~ (n < m)
  <2> SUFFICES ASSUME NEW n \in S, n < m PROVE FALSE
    OBVIOUS
  <2>1. <<n, m>> \in R
    BY DEF R
  <2> QED
    BY <1>4, <2>1
<1>6. m \in Nat /\ S \subseteq Nat
  OBVIOUS
<1> QED
  BY <1>5, <1>6

-----------------------------------------------------------------------------
(* The search of a way.                                                    *)


PlannerSpec == PlannerInit /\ [][PlannerNext]_plannerVars

Answerable == asked # <<>> /\ NoCell \notin {Snap(asked[1]), Snap(asked[2])}

StartReached ==
  /\ Snap(asked[1]) \in DOMAIN g_score
  /\ g_score[Snap(asked[1])] = 0 /\ came_from[Snap(asked[1])] = NoCell

InHeap(c) == \E x \in open_set : <<x[3], x[4]>> = c

(* What the search has reached: the lengths of the ways go with a          *)
(* predecessor, the heap holds cells that are reached, and what is reached *)
(* is still in the heap or has its neighbours reached too, except for the  *)
(* goal, which is not expanded.                                            *)
ReachedInv ==
  /\ inflation \in Nat
  /\ DOMAIN came_from = DOMAIN g_score
  /\ \A c \in DOMAIN g_score : g_score[c] \in Nat /\ Drivable(c)
  /\ \A x \in open_set : <<x[3], x[4]>> \in DOMAIN g_score
  /\ goal \in DOMAIN g_score => InHeap(goal)
  /\ \A c \in DOMAIN g_score : InHeap(c) \/ Neighbours(c) \subseteq DOMAIN g_score
  /\ result = "found" => goal \in DOMAIN came_from
  /\ result = "none" => open_set = {}
  /\ Answerable => StartReached
  /\ WaysAreDrivable

LEMMA DrivableInMap ==
  ASSUME inflation \in Nat, NEW c \in Int \X Int, Drivable(c) PROVE c \in Cells
<1>1. c[1] \in Int /\ c[2] \in Int /\ c = <<c[1], c[2]>>
  OBVIOUS
<1>2. c \in Around(c, inflation)
  BY <1>1 DEF Around
<1> QED
  BY <1>2 DEF Drivable, IsObstacle

(* _nearest_free finds a drivable cell if it returns one.                  *)
LEMMA SnapIsDrivable ==
  ASSUME inflation \in Nat, NEW c \in Int \X Int, Snap(c) # NoCell
  PROVE  Drivable(Snap(c)) /\ Snap(c) \in Cells
<1>1. CASE Drivable(c)
  BY <1>1, DrivableInMap DEF Snap
<1>2. CASE ~Drivable(c)
  <2> DEFINE Ring(r) == {d \in Around(c, r) : Drivable(d)}
             rings == {r \in 1..(Max({Width, Height}) - 1) : Ring(r) # {}}
             IsFirst(ring, d) ==
               \A e \in ring : d[1] < e[1] \/ (d[1] = e[1] /\ d[2] <= e[2])
  <2>1. /\ rings # {}
        /\ Snap(c) = CHOOSE d \in Ring(Min(rings)) : IsFirst(Ring(Min(rings)), d)
    BY <1>2 DEF Snap
  <2>2. Min(rings) \in rings
    <3>1. rings \in SUBSET Nat
      OBVIOUS
    <3> HIDE DEF rings
    <3>2. \E m \in rings : \A n \in rings : m <= n
      BY <2>1, <3>1, LeastNatural
    <3> QED
      BY <3>2 DEF Min
  <2>3. PICK ring : ring = Ring(Min(rings))
    OBVIOUS
  <2>4. ring # {} /\ \A d \in ring : d \in Cells /\ Drivable(d)
    <3>1. \A r \in Nat : \A d \in Around(c, r) : d \in Int \X Int
      BY DEF Around
    <3>2. PICK r \in Nat : r = Min(rings) /\ Ring(r) # {}
      <4>1. PICK r : r = Min(rings)
        OBVIOUS
      <4>2. r \in rings
        BY <2>2, <4>1
      <4>3. r \in Nat /\ Ring(r) # {}
        BY <4>2
      <4> HIDE DEF rings, Ring
      <4> QED
        BY <4>1, <4>3
    <3>3. ring = {d \in Around(c, r) : Drivable(d)} /\ ring # {}
      <4>1. ring = Ring(r)
        BY <2>3, <3>2
      <4> HIDE DEF rings
      <4> QED
        BY <3>2, <4>1
    <3> HIDE DEF rings, Ring
    <3> QED
      BY <3>1, <3>3, DrivableInMap
  <2> HIDE DEF Ring, rings
  <2>5. \E d \in ring : IsFirst(ring, d)
    <3>1. \A d \in ring : d[1] \in Nat /\ d[2] \in Nat
      BY <2>4, PlannerAssumption DEF Cells
    <3>2. PICK i \in {d[1] : d \in ring} : \A j \in {d[1] : d \in ring} : i <= j
      <4>1. {d[1] : d \in ring} \in SUBSET Nat /\ {d[1] : d \in ring} # {}
        BY <2>4, <3>1
      <4> QED
        BY <4>1, LeastNatural
    <3> DEFINE column == {d \in ring : d[1] = i}
    <3>3. column # {} /\ column \subseteq ring
      <4>1. PICK d \in ring : d[1] = i
        BY <3>2
      <4> QED
        BY <4>1
    <3>4. PICK k \in {d[2] : d \in column} : \A j \in {d[2] : d \in column} : k <= j
      <4>1. {d[2] : d \in column} \in SUBSET Nat /\ {d[2] : d \in column} # {}
        BY <3>1, <3>3
      <4> QED
        BY <4>1, LeastNatural
    <3>5. PICK d \in column : d[2] = k
      BY <3>4
    <3>6. d \in ring /\ d[1] = i /\ d[2] = k
      BY <3>5
    <3>7. ASSUME NEW e \in ring PROVE d[1] < e[1] \/ (d[1] = e[1] /\ d[2] <= e[2])
      <4>1. i <= e[1] /\ i \in Nat /\ e[1] \in Nat
        BY <3>1, <3>2, <3>6
      <4>2. e[1] = i => k <= e[2]
        BY <3>4
      <4> QED
        BY <3>6, <4>1, <4>2
    <3> QED
      BY <3>6, <3>7
  <2>6. Snap(c) \in ring
    BY <2>1, <2>3, <2>5
  <2> QED
    BY <2>4, <2>6
<1> QED
  BY <1>1, <1>2

LEMMA StepSymmetric ==
  ASSUME NEW c, NEW d PROVE Step(c, d) = Step(d, c) /\ Step(c, d) \in Nat
BY DEF Step

LEMMA ExpandKeeps ==
  ASSUME ReachedInv, NEW x \in open_set, ExpandCell(x, <<x[3], x[4]>>),
         <<x[3], x[4]>> # goal, result = "searching",
         UNCHANGED <<map, inflation, asked, goal, result>>
  PROVE  ReachedInv'
<1> DEFINE better == Improved(<<x[3], x[4]>>)
           start == Snap(asked[1])
<1>1. PICK c : c = <<x[3], x[4]>>
  OBVIOUS
<1>2. c \in DOMAIN g_score /\ g_score[c] \in Nat
  BY <1>1 DEF ReachedInv
<1>3. /\ better = Improved(c)
      /\ \A d \in better : /\ d \in Neighbours(c) /\ d # c /\ d = <<d[1], d[2]>>
                           /\ d \in DOMAIN g_score => g_score[c] + Step(c, d) < g_score[d]
  BY <1>1 DEF Improved, Neighbours, Around
<1>4. PICK g : g = [d \in better |-> g_score[c] + Step(c, d)]
  OBVIOUS
<1>5. /\ g_score' = [d \in DOMAIN g_score \cup better |->
                       IF d \in better THEN g[d] ELSE g_score[d]]
      /\ came_from' = [d \in DOMAIN came_from \cup better |->
                         IF d \in better THEN c ELSE came_from[d]]
      /\ open_set' = (open_set \ {x})
           \cup {<<g[d] + Heuristic(d), -g[d], d[1], d[2]>> : d \in better}
  BY <1>1, <1>3, <1>4 DEF ExpandCell
<1> HIDE DEF better
<1>6. \A d \in better : g[d] = g_score[c] + Step(c, d) /\ g[d] \in Nat
  BY <1>2, <1>4, StepSymmetric
<1>7. /\ DOMAIN g_score' = DOMAIN g_score \cup better
      /\ \A d \in better : g_score'[d] = g[d] /\ came_from'[d] = c
      /\ \A d \in DOMAIN g_score \ better :
           g_score'[d] = g_score[d] /\ came_from'[d] = came_from[d]
      /\ DOMAIN came_from' = DOMAIN came_from \cup better
  BY <1>5 DEF ReachedInv
<1>8. \A y \in open_set' : <<y[3], y[4]>> \in DOMAIN g_score'
  <2> SUFFICES ASSUME NEW y \in open_set' PROVE <<y[3], y[4]>> \in DOMAIN g_score'
    OBVIOUS
  <2>1. CASE y \in open_set
    BY <1>7, <2>1 DEF ReachedInv
  <2>2. ASSUME NEW d \in better, y = <<g[d] + Heuristic(d), -g[d], d[1], d[2]>>
        PROVE  <<y[3], y[4]>> \in DOMAIN g_score'
    <3>1. y[3] = d[1] /\ y[4] = d[2]
      BY <2>2
    <3> QED
      BY <1>3, <1>7, <3>1
  <2> QED
    BY <1>5, <2>1, <2>2
<1>9. /\ Snap(asked[1])' = start /\ Answerable' = Answerable
      /\ \A d : Neighbours(d)' = Neighbours(d)
  BY DEF Snap, Neighbours, Drivable, IsObstacle, Answerable
<1>10. \A d \in DOMAIN g_score : g_score'[d] \in Nat /\ g_score'[d] <= g_score[d]
  BY <1>2, <1>3, <1>6, <1>7 DEF ReachedInv
<1>11. ASSUME NEW d \in DOMAIN came_from' \ {start}
       PROVE  /\ d \in Neighbours(came_from'[d]) /\ came_from'[d] \in DOMAIN came_from'
              /\ g_score'[d] >= g_score'[came_from'[d]] + Step(d, came_from'[d])
  <2>1. CASE d \in better
    <3>1. c \notin better
      BY <1>3
    <3>2. g_score'[c] = g_score[c]
      BY <1>2, <1>7, <3>1
    <3> QED
      BY <1>2, <1>3, <1>6, <1>7, <2>1, <3>2, StepSymmetric DEF ReachedInv
  <2>2. CASE d \notin better
    <3>1. PICK e : e = came_from[d]
      OBVIOUS
    <3>2. /\ d \in DOMAIN g_score /\ e \in DOMAIN g_score
          /\ d \in Neighbours(e) /\ g_score[d] >= g_score[e] + Step(d, e)
      BY <1>7, <2>2, <3>1 DEF ReachedInv, WaysAreDrivable
    <3>3. came_from'[d] = e /\ g_score'[d] = g_score[d]
      BY <1>7, <2>2, <3>1, <3>2
    <3>4. /\ g_score[d] \in Nat /\ g_score[e] \in Nat /\ Step(d, e) \in Nat
          /\ g_score'[e] \in Nat /\ g_score'[e] <= g_score[e]
      BY <1>10, <3>2, StepSymmetric DEF ReachedInv
    <3>5. g_score'[d] >= g_score'[e] + Step(d, e)
      BY <3>2, <3>3, <3>4
    <3>6. e \in DOMAIN came_from'
      BY <1>7, <3>2 DEF ReachedInv
    <3> QED
      BY <3>2, <3>3, <3>5, <3>6
  <2> QED
    BY <2>1, <2>2
<1>12. WaysAreDrivable'
  BY <1>9, <1>11 DEF WaysAreDrivable, Step
<1>13. \A d \in DOMAIN g_score' : g_score'[d] \in Nat /\ Drivable(d)
  BY <1>3, <1>6, <1>7, <1>10 DEF Neighbours, ReachedInv
<1>16. \A d : Drivable(d)' = Drivable(d)
  BY DEF Drivable, IsObstacle
<1>14. DOMAIN came_from' = DOMAIN g_score'
  BY <1>7 DEF ReachedInv
<1>15. result' \notin {"found", "none"} /\ goal' = goal /\ c # goal
  BY <1>1
<1>17. \A d \in better : InHeap(d)'
  <2> SUFFICES ASSUME NEW d \in better PROVE InHeap(d)'
    OBVIOUS
  <2>1. PICK y : y = <<g[d] + Heuristic(d), -g[d], d[1], d[2]>>
    OBVIOUS
  <2>2. y \in open_set' /\ <<y[3], y[4]>> = <<d[1], d[2]>>
    BY <1>5, <2>1
  <2> QED
    BY <1>3, <2>2 DEF InHeap
<1>18. \A d : InHeap(d) /\ d # c => InHeap(d)'
  BY <1>1, <1>5 DEF InHeap
<1>19. Neighbours(c) \subseteq DOMAIN g_score'
  BY <1>1, <1>3, <1>7 DEF Improved
<1>20. \A d \in DOMAIN g_score' : InHeap(d)' \/ Neighbours(d) \subseteq DOMAIN g_score'
  BY <1>7, <1>17, <1>18, <1>19 DEF ReachedInv
<1>21. goal \in DOMAIN g_score' => InHeap(goal)'
  BY <1>7, <1>15, <1>17, <1>18 DEF ReachedInv
<1>22. Answerable' => StartReached'
  <2> SUFFICES ASSUME Answerable PROVE StartReached'
    BY <1>9
  <2>1. start \in DOMAIN g_score /\ g_score[start] = 0 /\ came_from[start] = NoCell
    BY DEF ReachedInv, StartReached
  <2>2. start \notin better
    <3>1. Step(c, start) \in Nat
      BY StepSymmetric
    <3> QED
      BY <1>2, <1>3, <2>1, <3>1
  <2> QED
    BY <1>7, <1>9, <2>1, <2>2 DEF StartReached
<1> QED
  BY <1>8, <1>9, <1>12, <1>13, <1>14, <1>15, <1>16, <1>20, <1>21, <1>22 DEF ReachedInv

LEMMA StartKeeps ==
  ASSUME ReachedInv, NEW s \in Int \X Int, NEW g, Start(s, g) PROVE ReachedInv'
<1>1. /\ inflation \in Nat /\ asked' = <<s, g>> /\ UNCHANGED <<map, inflation>>
      /\ Snap(asked[1])' = Snap(s) /\ Snap(asked[2])' = Snap(g)
  BY DEF Start, ReachedInv, Snap, Drivable, IsObstacle
<1>2. CASE came_from' = <<>> /\ g_score' = <<>> /\ open_set' = {} /\ result' = "none"
  <2>1. ~Answerable'
    BY <1>1, <1>2 DEF Start, Answerable
  <2> QED
    BY <1>1, <1>2, <2>1 DEF ReachedInv, WaysAreDrivable, InHeap
<1>3. CASE ~(came_from' = <<>> /\ g_score' = <<>> /\ open_set' = {} /\ result' = "none")
  <2>1. /\ Snap(asked[1])' = Snap(s)
        /\ \A d : Drivable(d)' = Drivable(d)
    BY <1>1 DEF Snap, Drivable, IsObstacle
  <2>2. /\ result' = "searching" /\ Snap(s) # NoCell
        /\ open_set' = {<<0, 0, Snap(s)[1], Snap(s)[2]>>}
        /\ came_from' = [c \in {Snap(s)} |-> NoCell]
        /\ g_score' = [c \in {Snap(s)} |-> 0]
    BY <1>3 DEF Start
  <2>3. Drivable(Snap(s)) /\ <<Snap(s)[1], Snap(s)[2]>> = Snap(s)
    BY <1>1, <2>2, SnapIsDrivable DEF Cells
  <2> HIDE DEF Snap
  <2>4. WaysAreDrivable'
    BY <2>1, <2>2 DEF WaysAreDrivable
  <2>5. \A c : c \in DOMAIN g_score' => InHeap(c)'
    <3>1. PICK y : y = <<0, 0, Snap(s)[1], Snap(s)[2]>>
      OBVIOUS
    <3>2. y \in open_set' /\ <<y[3], y[4]>> = Snap(s)
      BY <2>2, <2>3, <3>1
    <3> QED
      BY <2>2, <3>2 DEF InHeap
  <2>6. StartReached'
    BY <1>1, <2>2 DEF StartReached
  <2> QED
    BY <1>1, <2>1, <2>2, <2>3, <2>4, <2>5, <2>6 DEF ReachedInv
<1> QED
  BY <1>2, <1>3

(* Every turn of the loop of _compute_path keeps what it has reached in    *)
(* order, for any map and any start and goal.                              *)
THEOREM PlannerInvariant == PlannerSpec => []ReachedInv
<1>1. PlannerInit => ReachedInv
  BY DEF PlannerInit, ReachedInv, WaysAreDrivable, InHeap, Answerable
<1>2. ReachedInv /\ [PlannerNext]_plannerVars => ReachedInv'
  <2> SUFFICES ASSUME ReachedInv, [PlannerNext]_plannerVars PROVE ReachedInv'
    OBVIOUS
  <2>1. ASSUME NEW s \in Cells \cup {<<Width, 0>>}, NEW g, Start(s, g) PROVE ReachedInv'
    <3>1. s \in Int \X Int
      BY PlannerAssumption DEF Cells
    <3> QED
      BY <2>1, <3>1, StartKeeps
  <2>2. CASE Expand
    <3>1. PICK x \in open_set : <<x[3], x[4]>> # goal /\ ExpandCell(x, <<x[3], x[4]>>)
      BY <2>2 DEF Expand
    <3> QED
      BY <2>2, <3>1, ExpandKeeps DEF Expand
  <2>3. ASSUME UNCHANGED <<map, inflation, asked, goal, open_set, came_from, g_score>>,
               result' = "found" => goal \in DOMAIN came_from,
               result' = "none" => open_set = {}
        PROVE  ReachedInv'
    <3>1. /\ Snap(asked[1])' = Snap(asked[1]) /\ Answerable' = Answerable
          /\ \A d : Neighbours(d)' = Neighbours(d) /\ Drivable(d)' = Drivable(d)
      BY <2>3 DEF Snap, Neighbours, Drivable, IsObstacle, Answerable
    <3> QED
      <4>1. WaysAreDrivable' /\ (Answerable' => StartReached')
        BY <2>3, <3>1 DEF ReachedInv, WaysAreDrivable, StartReached
      <4>2. \A d : InHeap(d)' = InHeap(d)
        BY <2>3 DEF InHeap
      <4> QED
        BY <2>3, <3>1, <4>1, <4>2 DEF ReachedInv
  <2>4. CASE Finish
    BY <2>3, <2>4 DEF Finish, ReachedInv
  <2>5. CASE UNCHANGED plannerVars
    BY <2>3, <2>5 DEF plannerVars, ReachedInv
  <2> QED
    BY <2>1, <2>2, <2>4, <2>5 DEF PlannerNext
<1> QED
  BY <1>1, <1>2, PTL DEF PlannerSpec

(* From every cell that is reached, and so from the goal of a search that  *)
(* found it, _reconstruct_path goes back over neighbouring drivable cells, *)
(* and comes nearer to the start with every step, so that it ends there.   *)
THEOREM WaysPlanned ==
  PlannerSpec => [](/\ WaysAreDrivable /\ (Answerable => StartReached)
                    /\ result = "found" => goal \in DOMAIN came_from)
<1>1. ReachedInv => /\ WaysAreDrivable /\ (Answerable => StartReached)
                    /\ result = "found" => goal \in DOMAIN came_from
  BY DEF ReachedInv
<1> QED
  BY <1>1, PlannerInvariant, PTL

NoWay ==
  /\ Snap(asked[1]) \in DOMAIN g_score /\ goal \notin DOMAIN g_score
  /\ \A c \in DOMAIN g_score : Neighbours(c) \subseteq DOMAIN g_score

(* When _compute_path gives up, no way leads to the goal: among the cells  *)
(* it has reached is the start but not the goal, and every drivable cell   *)
(* next to one of them is one of them.                                     *)
THEOREM NoneIsTrue == PlannerSpec => [](Answerable /\ result = "none" => NoWay)
<1>1. ReachedInv => (Answerable /\ result = "none" => NoWay)
  BY DEF ReachedInv, StartReached, InHeap, NoWay
<1> QED
  BY <1>1, PlannerInvariant, PTL

(* The way that is found is a shortest one.  The heuristic never falls by  *)
(* more than a step, and never exceeds the way that is left.               *)

LEMMA SquareOrder ==
  ASSUME NEW a \in Nat, NEW b \in Nat
  PROVE  (a < b <=> a * a < b * b) /\ (a <= b => a * a <= b * b)
<1>1. ASSUME NEW m \in Nat, NEW n \in Nat, m <= n PROVE m * m <= n * n
  <2>1. PICK k \in Nat : n = m + k
    <3>1. n - m \in Nat /\ n = m + (n - m)
      BY <1>1
    <3> QED
      BY <3>1
  <2>2. n * n = m * m + 2 * (m * k) + k * k
    BY <2>1
  <2>3. m * k \in Nat /\ k * k \in Nat /\ m * m \in Nat
    OBVIOUS
  <2> QED
    BY <2>2, <2>3
<1>2. a < b => a * a < b * b
  <2> SUFFICES ASSUME a < b PROVE a * a < b * b
    OBVIOUS
  <2>1. (a + 1) * (a + 1) <= b * b
    BY <1>1
  <2>2. (a + 1) * (a + 1) = a * a + 2 * a + 1
    OBVIOUS
  <2> QED
    BY <2>1, <2>2
<1> QED
  BY <1>1, <1>2

LEMMA RootExists ==
  ASSUME NEW q \in Nat, NEW b \in Nat, q < (b + 1) * (b + 1)
  PROVE  \E root \in 0..b : root * root <= q /\ q < (root + 1) * (root + 1)
<1> DEFINE S == {n \in Nat : q < (n + 1) * (n + 1)}
<1>1. PICK root \in S : \A n \in S : root <= n
  BY LeastNatural
<1>2. root \in 0..b /\ q < (root + 1) * (root + 1)
  BY <1>1
<1>3. root * root <= q
  <2>1. CASE root = 0
    BY <2>1
  <2>2. CASE root # 0
    <3>1. root - 1 \in Nat /\ root - 1 \notin S
      BY <1>1, <2>2
    <3>2. (root - 1) + 1 = root
      BY <1>1
    <3> QED
      BY <3>1, <3>2
  <2> QED
    BY <2>1, <2>2
<1> QED
  BY <1>2, <1>3

LEMMA DifferenceSquared ==
  ASSUME NEW a \in Nat, NEW b \in Nat, NEW n \in Nat, a < n, b < n
  PROVE  /\ (1000 * (a - b)) * (1000 * (a - b)) \in Nat
         /\ (1000 * (a - b)) * (1000 * (a - b)) <= (1000 * n) * (1000 * n)
<1>1. ASSUME NEW k \in Nat, k <= n
      PROVE (1000 * k) * (1000 * k) \in Nat /\ (1000 * k) * (1000 * k) <= (1000 * n) * (1000 * n)
  <2>1. 1000 * k \in Nat /\ 1000 * n \in Nat /\ 1000 * k <= 1000 * n
    BY <1>1
  <2> QED
    BY <2>1, SquareOrder
<1>2. CASE a <= b
  <2>1. b - a \in Nat /\ b - a <= n
    BY <1>2
  <2>2. (1000 * (a - b)) * (1000 * (a - b)) = (1000 * (b - a)) * (1000 * (b - a))
    OBVIOUS
  <2> QED
    BY <1>1, <2>1, <2>2
<1>3. CASE b <= a
  <2>1. a - b \in Nat /\ a - b <= n
    BY <1>3
  <2> QED
    BY <1>1, <2>1
<1> QED
  BY <1>2, <1>3

LEMMA HeuristicIsRoot ==
  ASSUME goal \in Cells, NEW c \in Cells
  PROVE  /\ Heuristic(c) \in Nat /\ Squared(c) \in Nat
         /\ Heuristic(c) * Heuristic(c) <= Squared(c)
         /\ Squared(c) < (Heuristic(c) + 1) * (Heuristic(c) + 1)
<1>1. PICK w, h \in Nat : w = Width /\ h = Height /\ w > 0 /\ h > 0
  BY PlannerAssumption
<1>2. /\ c[1] \in Nat /\ c[2] \in Nat /\ goal[1] \in Nat /\ goal[2] \in Nat
      /\ c[1] < w /\ c[2] < h /\ goal[1] < w /\ goal[2] < h
  BY <1>1 DEF Cells
<1>3. PICK x, y \in Int : x = 1000 * (c[1] - goal[1]) /\ y = 1000 * (c[2] - goal[2])
  BY <1>2
<1>4. Squared(c) = x * x + y * y
  BY <1>3 DEF Squared
<1>5. x * x \in Nat /\ x * x <= (1000 * w) * (1000 * w)
  BY <1>1, <1>2, <1>3, DifferenceSquared
<1>6. y * y \in Nat /\ y * y <= (1000 * h) * (1000 * h)
  BY <1>1, <1>2, <1>3, DifferenceSquared
<1>7. PICK q \in Nat : q = Squared(c) /\ q <= (1000 * w) * (1000 * w) + (1000 * h) * (1000 * h)
  BY <1>4, <1>5, <1>6
<1>8. PICK b \in Nat : b = 1000 * (w + h)
  OBVIOUS
<1>9. q < (b + 1) * (b + 1)
  <2>1. PICK m, n \in Nat : m = 1000 * w /\ n = 1000 * h
    OBVIOUS
  <2>2. b = m + n
    BY <1>8, <2>1
  <2>3. m * n \in Nat /\ m * m \in Nat /\ n * n \in Nat
    OBVIOUS
  <2>4. (b + 1) * (b + 1) = m * m + n * n + 2 * (m * n) + 2 * b + 1
    BY <2>2
  <2> QED
    BY <1>7, <2>1, <2>3, <2>4
<1>10. PICK root : root = Heuristic(c)
  OBVIOUS
<1>11. root \in 0..b /\ root * root <= q /\ q < (root + 1) * (root + 1)
  <2>1. Heuristic(c) = CHOOSE r \in 0..b : r * r <= q /\ q < (r + 1) * (r + 1)
    BY <1>1, <1>7, <1>8 DEF Heuristic
  <2> QED
    BY <1>9, <1>10, <2>1, RootExists
<1> QED
  BY <1>7, <1>10, <1>11

(* Rounded down, the root of a square that is moved by u and k grows by    *)
(* no more than a step whose square is at least k.                         *)
LEMMA RootStep ==
  ASSUME NEW root \in Nat, NEW above \in Nat, NEW step \in Nat, NEW q \in Nat,
         NEW u \in Int, NEW k \in Nat,
         q < above * above, u * u <= k * q, k <= step * step,
         root * root <= q + 2 * u + k
  PROVE  root < above + step
<1> SUFFICES ASSUME above + step <= root PROVE FALSE
  OBVIOUS
<1>1. (above + step) * (above + step) <= root * root
  BY SquareOrder
<1>2. (above + step) * (above + step) = above * above + 2 * (above * step) + step * step
  OBVIOUS
<1>3. PICK p \in Nat : p = above * step
  OBVIOUS
<1>4. p < u
  <2>1. PICK x, y, z \in Int : x = above * above /\ y = step * step /\ z = root * root
    OBVIOUS
  <2> QED
    BY <1>1, <1>2, <1>3, <2>1
<1>5. u \in Nat
  BY <1>4
<1>6. p * p < u * u
  BY <1>4, <1>5, SquareOrder
<1>7. k * q <= (step * step) * (above * above)
  <2>1. PICK d \in Nat : step * step = k + d
    <3>1. step * step - k \in Nat
      OBVIOUS
    <3> QED
      BY <3>1
  <2>2. PICK e \in Nat : above * above = q + e
    <3>1. above * above - q \in Nat
      OBVIOUS
    <3> QED
      BY <3>1
  <2>3. (k + d) * (q + e) = k * q + k * e + d * q + d * e
    OBVIOUS
  <2>4. k * q \in Nat /\ k * e \in Nat /\ d * q \in Nat /\ d * e \in Nat
    OBVIOUS
  <2> QED
    BY <2>1, <2>2, <2>3, <2>4
<1>8. (step * step) * (above * above) = p * p
  BY <1>3
<1> QED
  BY <1>6, <1>7, <1>8

LEMMA NeighbourSteps ==
  ASSUME NEW c \in Int \X Int, NEW d \in Neighbours(c)
  PROVE  /\ d \in Int \X Int /\ Drivable(d)
         /\ d[1] - c[1] \in -1..1 /\ d[2] - c[2] \in -1..1
         /\ Step(c, d) = IF d[1] - c[1] # 0 /\ d[2] - c[2] # 0 THEN 1415 ELSE 1000
         /\ Drivable(c) => c \in Neighbours(d)
<1>1. c[1] \in Int /\ c[2] \in Int /\ c = <<c[1], c[2]>>
  OBVIOUS
<1>2. d \in ((c[1] - 1)..(c[1] + 1)) \X ((c[2] - 1)..(c[2] + 1)) /\ d # c /\ Drivable(d)
  BY DEF Neighbours, Around
<1>3. /\ d[1] \in Int /\ d[2] \in Int /\ d = <<d[1], d[2]>>
      /\ d[1] - c[1] \in -1..1 /\ d[2] - c[2] \in -1..1
  BY <1>1, <1>2
<1>4. c \in Around(d, 1)
  BY <1>1, <1>3 DEF Around
<1> QED
  BY <1>1, <1>2, <1>3, <1>4 DEF Neighbours, Step

(* _heuristic never falls by more than a step from a cell to its neighbour.*)
LEMMA HeuristicIsConsistent ==
  ASSUME goal \in Cells, NEW c \in Cells, NEW d \in Cells, d \in Neighbours(c)
  PROVE  Heuristic(c) <= Heuristic(d) + Step(c, d)
<1>1. /\ c \in Int \X Int /\ c[1] \in Int /\ c[2] \in Int
      /\ d[1] \in Int /\ d[2] \in Int /\ goal[1] \in Int /\ goal[2] \in Int
  BY PlannerAssumption DEF Cells
<1>2. PICK i, j \in -1..1 : i = d[1] - c[1] /\ j = d[2] - c[2]
  BY <1>1, NeighbourSteps
<1>3. PICK x, y \in Int : x = 1000 * (d[1] - goal[1]) /\ y = 1000 * (d[2] - goal[2])
  BY <1>1
<1>4. PICK m, n \in Int : m = 1000 * i /\ n = 1000 * j
  OBVIOUS
<1>5. PICK h, k \in Nat : h = Heuristic(c) /\ k = Heuristic(d)
  BY HeuristicIsRoot
<1>6. h * h <= (x - m) * (x - m) + (y - n) * (y - n)
  <2>1. x - m = 1000 * (c[1] - goal[1]) /\ y - n = 1000 * (c[2] - goal[2])
    BY <1>1, <1>2, <1>3, <1>4
  <2> QED
    BY <1>5, <2>1, HeuristicIsRoot DEF Squared
<1>7. PICK q \in Nat : q = x * x + y * y /\ q < (k + 1) * (k + 1)
  BY <1>3, <1>5, HeuristicIsRoot DEF Squared
<1>8. PICK u \in Int : u = -(x * m + y * n)
  OBVIOUS
<1>9. PICK s \in Nat : s = m * m + n * n /\ s <= Step(c, d) * Step(c, d)
  <2>1. Step(c, d) = IF i # 0 /\ j # 0 THEN 1415 ELSE 1000
    BY <1>1, <1>2, NeighbourSteps
  <2>2. m * m = (IF i = 0 THEN 0 ELSE 1000 * 1000) /\ n * n = (IF j = 0 THEN 0 ELSE 1000 * 1000)
    <3>1. m \in {-1000, 0, 1000} /\ n \in {-1000, 0, 1000} /\ (m = 0 <=> i = 0) /\ (n = 0 <=> j = 0)
      BY <1>2, <1>4
    <3> QED
      BY <3>1
  <2>3. m * m + n * n \in Nat
    BY <2>2
  <2> QED
    BY <2>1, <2>2, <2>3
<1>10. u * u <= s * q
  <2>1. s * q = u * u + (x * n - y * m) * (x * n - y * m)
    BY <1>7, <1>8, <1>9
  <2>2. (x * n - y * m) * (x * n - y * m) >= 0
    OBVIOUS
  <2> QED
    BY <2>1, <2>2
<1>11. h * h <= q + 2 * u + s
  <2>1. h * h \in Nat
    OBVIOUS
  <2>2. (x - m) * (x - m) + (y - n) * (y - n)
        = (x * x + y * y) - 2 * (x * m + y * n) + (m * m + n * n)
    OBVIOUS
  <2> QED
    BY <1>6, <1>7, <1>8, <1>9, <2>1, <2>2
<1>12. PICK above, step \in Nat : above = k + 1 /\ step = Step(c, d)
  BY StepSymmetric
<1>13. h < above + step
  <2>1. q < above * above /\ s <= step * step
    BY <1>7, <1>9, <1>12
  <2> QED
    BY <1>10, <1>11, <2>1, RootStep
<1> QED
  BY <1>5, <1>12, <1>13

HeuristicIsNatural == goal \in Cells => \A c \in Cells : Heuristic(c) \in Nat

LEMMA HeuristicType == HeuristicIsNatural
BY HeuristicIsRoot DEF HeuristicIsNatural

LEMMA HeuristicOfGoal == goal \in Cells => Heuristic(goal) = 0
<1> SUFFICES ASSUME goal \in Cells PROVE Heuristic(goal) = 0
  OBVIOUS
<1>1. Squared(goal) = 0
  BY PlannerAssumption DEF Cells, Squared
<1>2. PICK h \in Nat : h = Heuristic(goal) /\ h * h <= 0
  BY <1>1, HeuristicIsRoot
<1>3. h = 0
  BY <1>2
<1> QED
  BY <1>2, <1>3

LEMMA LeastOf ==
  ASSUME NEW S \in SUBSET Nat, S # {}
  PROVE  Min(S) \in S /\ \A n \in S : Min(S) <= n
BY LeastNatural DEF Min

LEMMA NeighbourInMap ==
  ASSUME inflation \in Nat, NEW c \in Int \X Int, NEW d \in Neighbours(c)
  PROVE  d \in Cells
BY NeighbourSteps, DrivableInMap

LEMMA RelaxedLengths ==
  ASSUME inflation \in Nat, NEW length \in [Cells -> Nat]
  PROVE  /\ Relaxed(length) \in [Cells -> Nat]
         /\ \A c \in Cells : Relaxed(length)[c] <= length[c]
         /\ \A c \in Cells : Drivable(c) =>
              \A d \in Neighbours(c) : Relaxed(length)[c] <= length[d] + Step(c, d)
         /\ \A c \in Cells :
              \/ Relaxed(length)[c] = length[c]
              \/ Drivable(c) /\ \E d \in Neighbours(c) :
                                   Relaxed(length)[c] = length[d] + Step(c, d)
<1> DEFINE Over(c) == {length[c]} \cup {length[d] + Step(c, d) : d \in Neighbours(c)}
<1>1. Relaxed(length) = [c \in Cells |-> IF ~Drivable(c) THEN length[c] ELSE Min(Over(c))]
  BY DEF Relaxed
<1>2. ASSUME NEW c \in Cells
      PROVE  /\ Min(Over(c)) \in Nat /\ Min(Over(c)) <= length[c]
             /\ \A d \in Neighbours(c) : Min(Over(c)) <= length[d] + Step(c, d)
             /\ \/ Min(Over(c)) = length[c]
                \/ \E d \in Neighbours(c) : Min(Over(c)) = length[d] + Step(c, d)
  <2>1. c \in Int \X Int
    BY PlannerAssumption DEF Cells
  <2>2. \A d \in Neighbours(c) : length[d] + Step(c, d) \in Nat
    BY <2>1, NeighbourInMap, StepSymmetric
  <2>3. Over(c) \in SUBSET Nat /\ Over(c) # {}
    BY <2>2
  <2>4. Min(Over(c)) \in Over(c) /\ \A n \in Over(c) : Min(Over(c)) <= n
    BY <2>3, LeastOf
  <2>5. length[c] \in Over(c) /\ \A d \in Neighbours(c) : length[d] + Step(c, d) \in Over(c)
    OBVIOUS
  <2>6. PICK m : m = Min(Over(c))
    OBVIOUS
  <2> QED
    BY <2>3, <2>4, <2>5, <2>6
<1> HIDE DEF Over
<1> QED
  BY <1>1, <1>2

LEMMA CellsFinite ==
  IsFiniteSet(Cells) /\ Cardinality(Cells) \in Nat \ {0} /\ Cardinality(Cells) = Width * Height
<1>1. ASSUME NEW n \in Nat \ {0}
      PROVE  IsFiniteSet(0..n - 1) /\ Cardinality(0..n - 1) = n
  <2>1. Cardinality(0..n - 1) = IF 0 > n - 1 THEN 0 ELSE (n - 1) - 0 + 1
    BY FS_Interval
  <2> QED
    BY <2>1, FS_Interval
<1>2. IsFiniteSet(Cells) /\ Cardinality(Cells) = Width * Height
  <2>1. Width \in Nat \ {0} /\ Height \in Nat \ {0}
    BY PlannerAssumption
  <2>2. PICK columns, rows : columns = 0..Width - 1 /\ rows = 0..Height - 1
    OBVIOUS
  <2>3. /\ IsFiniteSet(columns) /\ Cardinality(columns) = Width
        /\ IsFiniteSet(rows) /\ Cardinality(rows) = Height
    BY <1>1, <2>1, <2>2
  <2>4. /\ IsFiniteSet(columns \X rows)
        /\ Cardinality(columns \X rows) = Cardinality(columns) * Cardinality(rows)
    BY <2>3, FS_Product
  <2> QED
    BY <2>2, <2>3, <2>4 DEF Cells
<1>3. Width * Height \in Nat \ {0}
  <2>1. PICK w, h \in Nat : w = Width /\ h = Height /\ w > 0 /\ h > 0
    BY PlannerAssumption
  <2>2. w * h > 0 /\ w * h \in Nat
    BY <2>1
  <2> QED
    BY <2>1, <2>2
<1> QED
  BY <1>2, <1>3

Turns == Cardinality(Cells)

Unrelaxed == [c \in Cells |-> IF c = Snap(asked[1]) THEN 0 ELSE Infinite]

(* The recursion of Lengths has a solution.                                *)
LEMMA LengthsDefined ==
  \A n \in 0..Turns : LengthsAfter[n] = IF n = 0 THEN Unrelaxed ELSE Relaxed(LengthsAfter[n - 1])
<1> DEFINE Solves(g, n) ==
             g = [k \in 0..n |-> IF k = 0 THEN Unrelaxed ELSE Relaxed(g[k - 1])]
           Unsolved == {n \in Nat : \A g : ~Solves(g, n)}
<1>1. Turns \in Nat
  BY CellsFinite DEF Turns
<1>2. Unsolved = {}
  <2> SUFFICES ASSUME Unsolved # {} PROVE FALSE
    OBVIOUS
  <2>1. PICK n \in Unsolved : \A m \in Unsolved : n <= m
    BY LeastNatural
  <2>2. n \in Nat /\ \A g : ~Solves(g, n)
    BY <2>1
  <2>3. CASE n = 0
    <3>1. PICK g : g = [k \in 0..n |-> Unrelaxed]
      OBVIOUS
    <3>2. \A k \in 0..n : k = 0
      BY <2>3
    <3>3. Solves(g, n)
      BY <3>1, <3>2
    <3> QED
      BY <2>2, <3>3
  <2>4. CASE n # 0
    <3>1. n - 1 \in Nat /\ n - 1 \notin Unsolved
      <4> HIDE DEF Unsolved
      <4>1. n - 1 \in Nat /\ ~(n <= n - 1)
        BY <2>2, <2>4
      <4> QED
        BY <2>1, <4>1
    <3>2. PICK g : Solves(g, n - 1)
      BY <3>1
    <3>3. PICK h : h = [k \in 0..n |-> IF k = n THEN Relaxed(g[n - 1]) ELSE g[k]]
      OBVIOUS
    <3>4. /\ h[n] = Relaxed(g[n - 1]) /\ \A k \in 0..(n - 1) : h[k] = g[k]
          /\ n - 1 \in 0..(n - 1)
      BY <2>2, <3>1, <3>3
    <3>5. ASSUME NEW k \in 0..n
          PROVE  h[k] = IF k = 0 THEN Unrelaxed ELSE Relaxed(h[k - 1])
      <4>1. CASE k = n
        <5>1. h[k - 1] = g[n - 1]
          BY <3>4, <4>1
        <5> QED
          BY <2>4, <3>4, <4>1, <5>1
      <4>2. CASE k # n /\ k = 0
        BY <2>2, <3>1, <3>2, <3>4, <4>2
      <4>3. CASE k # n /\ k # 0
        <5>1. k \in 0..(n - 1) /\ k - 1 \in 0..(n - 1)
          BY <2>2, <4>3
        <5>2. g[k] = Relaxed(g[k - 1])
          BY <3>2, <4>3, <5>1
        <5> QED
          BY <3>4, <4>3, <5>1, <5>2
      <4> QED
        BY <4>1, <4>2, <4>3
    <3>6. Solves(h, n)
      BY <3>3, <3>5
    <3> QED
      BY <2>2, <3>6
  <2> QED
    BY <2>3, <2>4
<1>3. \E g : Solves(g, Turns)
  BY <1>1, <1>2
<1>4. LengthsAfter = CHOOSE g : Solves(g, Turns)
  BY DEF LengthsAfter, Unrelaxed, Turns
<1>5. Solves(LengthsAfter, Turns)
  BY <1>3, <1>4
<1> QED
  BY <1>5

LEMMA LengthsType ==
  inflation \in Nat => \A n \in 0..Turns : LengthsAfter[n] \in [Cells -> Nat]
<1> SUFFICES ASSUME inflation \in Nat
             PROVE  \A n \in 0..Turns : LengthsAfter[n] \in [Cells -> Nat]
  OBVIOUS
<1> DEFINE Bad == {n \in 0..Turns : LengthsAfter[n] \notin [Cells -> Nat]}
<1> SUFFICES ASSUME Bad # {} PROVE FALSE
  OBVIOUS
<1>1. Turns \in Nat
  BY CellsFinite DEF Turns
<1>2. PICK n \in Bad : \A m \in Bad : n <= m
  <2>1. Bad \in SUBSET Nat
    BY <1>1
  <2> QED
    BY <2>1, LeastNatural
<1>3. n \in 0..Turns /\ LengthsAfter[n] \notin [Cells -> Nat]
  BY <1>2
<1>4. n # 0
  <2>1. Unrelaxed \in [Cells -> Nat]
    BY PlannerAssumption DEF Unrelaxed, Infinite
  <2> QED
    BY <1>1, <1>3, <2>1, LengthsDefined
<1>5. n - 1 \in 0..Turns /\ n - 1 \notin Bad
  BY <1>1, <1>2, <1>3, <1>4
<1>6. LengthsAfter[n - 1] \in [Cells -> Nat] /\ LengthsAfter[n] = Relaxed(LengthsAfter[n - 1])
  BY <1>3, <1>4, <1>5, LengthsDefined
<1> QED
  BY <1>3, <1>6, RelaxedLengths

LEMMA LengthsAtFirst ==
  \A c \in Cells : LengthsAfter[0][c] = IF c = Snap(asked[1]) THEN 0 ELSE Infinite
<1>1. 0 \in 0..Turns
  BY CellsFinite DEF Turns
<1>2. LengthsAfter[0] = Unrelaxed
  BY <1>1, LengthsDefined
<1> QED
  BY <1>2 DEF Unrelaxed

(* What a turn does to the lengths.                                        *)
LEMMA LengthsTurn ==
  ASSUME inflation \in Nat, NEW n \in 1..Turns, NEW c \in Cells
  PROVE  /\ n - 1 \in 0..Turns
         /\ LengthsAfter[n][c] \in Nat /\ LengthsAfter[n - 1][c] \in Nat
         /\ LengthsAfter[n][c] <= LengthsAfter[n - 1][c]
         /\ Drivable(c) =>
              \A d \in Neighbours(c) : LengthsAfter[n][c] <= LengthsAfter[n - 1][d] + Step(c, d)
         /\ \/ LengthsAfter[n][c] = LengthsAfter[n - 1][c]
            \/ Drivable(c) /\ \E d \in Neighbours(c) :
                                LengthsAfter[n][c] = LengthsAfter[n - 1][d] + Step(c, d)
<1>1. Turns \in Nat /\ n # 0 /\ n \in 0..Turns /\ n - 1 \in 0..Turns
  BY CellsFinite DEF Turns
<1>2. PICK length : length = LengthsAfter[n - 1]
  OBVIOUS
<1>3. length \in [Cells -> Nat] /\ LengthsAfter[n] = Relaxed(length)
  BY <1>1, <1>2, LengthsDefined, LengthsType
<1>4. length[c] \in Nat /\ Relaxed(length)[c] \in Nat
  BY <1>3, RelaxedLengths
<1> QED
  BY <1>1, <1>2, <1>3, <1>4, RelaxedLengths

(* Induction over the turns.                                               *)
LEMMA NoTurn ==
  ASSUME NEW bad \in SUBSET (0..Turns), 0 \notin bad,
         \A n \in 1..Turns : n - 1 \notin bad => n \notin bad
  PROVE  bad = {}
<1> SUFFICES ASSUME bad # {} PROVE FALSE
  OBVIOUS
<1>1. Turns \in Nat
  BY CellsFinite DEF Turns
<1>2. PICK n \in bad : \A m \in bad : n <= m
  <2>1. bad \in SUBSET Nat
    BY <1>1
  <2> QED
    BY <2>1, LeastNatural
<1>3. n \in 1..Turns /\ n - 1 \notin bad
  BY <1>1, <1>2
<1> QED
  BY <1>2, <1>3

(* The heap has an entry of the cell that leads as far as its way and the  *)
(* distance, or its neighbours are reached over it at the latest.          *)
Expected(c) ==
  \E x \in open_set : <<x[3], x[4]>> = c /\ x[1] <= g_score[c] + Heuristic(c)
Settled(c) ==
  \A d \in Neighbours(c) : d \in DOMAIN g_score /\ g_score[d] <= g_score[c] + Step(c, d)

FrontierInv ==
  /\ result \in {"searching", "none", "found"}
  /\ goal \in Cells \cup {NoCell}
  /\ asked # <<>> => goal = Snap(asked[2])
  /\ asked # <<>> /\ ~Answerable => result = "none"
  /\ DOMAIN g_score \subseteq Cells
  /\ open_set # {} => goal \in Cells
  /\ \A x \in open_set : /\ x[1] \in Int
                         /\ <<x[3], x[4]>> = goal => g_score[goal] <= x[1]
  /\ \A c \in DOMAIN g_score : Expected(c) \/ Settled(c)
  /\ result = "found" => \E x \in open_set : Popped(x) /\ <<x[3], x[4]>> = goal

LEMMA PoppedIsLeast ==
  ASSUME NEW x \in open_set, NEW y \in open_set, Popped(x), x[1] \in Int, y[1] \in Int
  PROVE  x[1] <= y[1]
<1>1. CASE x = y
  BY <1>1
<1>2. CASE Before(x, y)
  <2>1. PICK i \in 1..4 : x[i] < y[i] /\ \A j \in 1..(i - 1) : x[j] = y[j]
    BY <1>2 DEF Before
  <2>2. i = 1 \/ 1 \in 1..(i - 1)
    OBVIOUS
  <2> QED
    BY <2>1, <2>2
<1> QED
  BY <1>1, <1>2 DEF Popped

(* No way is shorter than the one that is found.                           *)
LEMMA FoundAtMost ==
  ASSUME ReachedInv, FrontierInv, Answerable, result = "found",
         Shortest[goal] < Infinite
  PROVE  g_score[goal] <= Shortest[goal]
<1>1. PICK x \in open_set : Popped(x) /\ <<x[3], x[4]>> = goal
  BY DEF FrontierInv
<1>2. /\ goal \in Cells /\ goal \in DOMAIN g_score /\ inflation \in Nat
      /\ g_score[goal] \in Nat /\ g_score[goal] <= x[1]
  BY <1>1 DEF FrontierInv, ReachedInv
<1>3. \A y \in open_set : y[1] \in Int /\ x[1] <= y[1]
  BY <1>1, PoppedIsLeast DEF FrontierInv
<1>4. PICK far : far = g_score[goal]
  OBVIOUS
<1>5. \A c \in DOMAIN g_score :
        /\ c \in Cells /\ g_score[c] \in Nat /\ Heuristic(c) \in Nat
        /\ far <= g_score[c] + Heuristic(c) \/ Settled(c)
  <2> SUFFICES ASSUME NEW c \in DOMAIN g_score
               PROVE  /\ c \in Cells /\ g_score[c] \in Nat /\ Heuristic(c) \in Nat
                      /\ far <= g_score[c] + Heuristic(c) \/ Settled(c)
    OBVIOUS
  <2>1. c \in Cells /\ g_score[c] \in Nat /\ Heuristic(c) \in Nat
    BY <1>2, HeuristicIsRoot DEF FrontierInv, ReachedInv
  <2>2. CASE Expected(c)
    <3>1. PICK y \in open_set : y[1] <= g_score[c] + Heuristic(c)
      BY <2>2 DEF Expected
    <3> QED
      BY <1>1, <1>2, <1>3, <1>4, <2>1, <3>1
  <2> QED
    BY <2>1, <2>2 DEF FrontierInv
<1> DEFINE Ahead(n, c) ==
             \/ Infinite <= LengthsAfter[n][c]
             \/ far <= LengthsAfter[n][c] + Heuristic(c)
             \/ c \in DOMAIN g_score /\ g_score[c] <= LengthsAfter[n][c]
           bad == {n \in 0..Turns : \E c \in Cells : ~Ahead(n, c)}
<1>6. Turns \in Nat /\ Infinite \in Nat
  BY CellsFinite, PlannerAssumption DEF Turns, Infinite
<1>7. 0 \notin bad
  <2> SUFFICES ASSUME NEW c \in Cells PROVE Ahead(0, c)
    OBVIOUS
  <2>1. LengthsAfter[0][c] = IF c = Snap(asked[1]) THEN 0 ELSE Infinite
    BY LengthsAtFirst
  <2> QED
    BY <1>6, <2>1 DEF ReachedInv, StartReached
<1>8. ASSUME NEW n \in 1..Turns, n - 1 \notin bad PROVE n \notin bad
  <2> SUFFICES ASSUME NEW c \in Cells PROVE Ahead(n, c)
    OBVIOUS
  <2>1. n - 1 \in 0..Turns /\ LengthsAfter[n][c] \in Nat
    BY <1>2, LengthsTurn
  <2>2. CASE LengthsAfter[n][c] = LengthsAfter[n - 1][c]
    BY <1>8, <2>1, <2>2
  <2>3. ASSUME Drivable(c), NEW d \in Neighbours(c),
               LengthsAfter[n][c] = LengthsAfter[n - 1][d] + Step(c, d)
        PROVE  Ahead(n, c)
    <3>1. c \in Int \X Int
      BY PlannerAssumption DEF Cells
    <3>2. /\ d \in Cells /\ c \in Neighbours(d) /\ Step(c, d) = Step(d, c) /\ Step(c, d) \in Nat
          /\ Heuristic(c) \in Nat /\ Heuristic(d) \in Nat
          /\ Heuristic(d) <= Heuristic(c) + Step(c, d)
      BY <1>2, <2>3, <3>1, NeighbourInMap, NeighbourSteps, StepSymmetric,
         HeuristicIsRoot, HeuristicIsConsistent
    <3>3. PICK m \in Nat : m = LengthsAfter[n - 1][d]
      BY <1>2, <3>2, LengthsTurn
    <3>4. Ahead(n - 1, d)
      BY <1>8, <2>1, <3>2
    <3>5. \/ Infinite <= m \/ far <= m + Heuristic(d)
          \/ d \in DOMAIN g_score /\ g_score[d] <= m /\ Settled(d)
      BY <1>2, <1>4, <1>5, <3>2, <3>3, <3>4
    <3>6. d \in DOMAIN g_score /\ g_score[d] <= m /\ Settled(d)
          => c \in DOMAIN g_score /\ g_score[c] <= m + Step(c, d)
      BY <1>5, <3>2, <3>3 DEF Settled
    <3> QED
      BY <1>2, <1>4, <1>6, <2>3, <3>2, <3>3, <3>5, <3>6
  <2> QED
    BY <1>2, <2>2, <2>3, LengthsTurn
<1>9. bad = {}
  <2> HIDE DEF bad
  <2>1. bad \in SUBSET (0..Turns)
    BY DEF bad
  <2> QED
    BY <1>7, <1>8, <2>1, NoTurn
<1>10. Ahead(Turns, goal)
  BY <1>2, <1>6, <1>9
<1>11. LengthsAfter[Turns][goal] \in Nat /\ Shortest[goal] = LengthsAfter[Turns][goal]
  <2>1. Turns \in 0..Turns
    BY <1>6
  <2> QED
    BY <1>2, <2>1, LengthsType DEF Shortest, Turns
<1> QED
  BY <1>2, <1>4, <1>6, <1>10, <1>11, HeuristicOfGoal

(* The lengths of a turn count no way that leaves what is reached.         *)
LEMMA NoneIsInfinite ==
  ASSUME inflation \in Nat, NoWay, goal \in Cells,
         \A c \in DOMAIN g_score : c \in Cells /\ Drivable(c)
  PROVE  Infinite <= Shortest[goal]
<1> DEFINE bad == {n \in 0..Turns : \E c \in Cells \ DOMAIN g_score :
                                      ~(Infinite <= LengthsAfter[n][c])}
<1>1. Turns \in Nat /\ Infinite \in Nat
  BY CellsFinite, PlannerAssumption DEF Turns, Infinite
<1>2. 0 \notin bad
  <2> SUFFICES ASSUME NEW c \in Cells \ DOMAIN g_score PROVE Infinite <= LengthsAfter[0][c]
    OBVIOUS
  <2>1. LengthsAfter[0][c] = IF c = Snap(asked[1]) THEN 0 ELSE Infinite
    BY LengthsAtFirst
  <2> QED
    BY <1>1, <2>1 DEF NoWay
<1>3. ASSUME NEW n \in 1..Turns, n - 1 \notin bad PROVE n \notin bad
  <2> SUFFICES ASSUME NEW c \in Cells \ DOMAIN g_score PROVE Infinite <= LengthsAfter[n][c]
    OBVIOUS
  <2>1. n - 1 \in 0..Turns /\ LengthsAfter[n][c] \in Nat
    BY LengthsTurn
  <2>2. CASE LengthsAfter[n][c] = LengthsAfter[n - 1][c]
    BY <1>3, <2>1, <2>2
  <2>3. ASSUME Drivable(c), NEW d \in Neighbours(c),
               LengthsAfter[n][c] = LengthsAfter[n - 1][d] + Step(c, d)
        PROVE  Infinite <= LengthsAfter[n][c]
    <3>1. c \in Int \X Int
      BY PlannerAssumption DEF Cells
    <3>2. d \in Cells /\ c \in Neighbours(d) /\ Step(c, d) \in Nat
      BY <2>3, <3>1, NeighbourInMap, NeighbourSteps, StepSymmetric
    <3>3. d \notin DOMAIN g_score
      BY <3>2 DEF NoWay
    <3>4. LengthsAfter[n - 1][d] \in Nat /\ Infinite <= LengthsAfter[n - 1][d]
      BY <1>3, <2>1, <3>2, <3>3, LengthsTurn
    <3> QED
      BY <1>1, <2>3, <3>2, <3>4
  <2> QED
    BY <2>2, <2>3, LengthsTurn
<1>4. bad = {}
  <2> HIDE DEF bad
  <2>1. bad \in SUBSET (0..Turns)
    BY DEF bad
  <2> QED
    BY <1>2, <1>3, <2>1, NoTurn
<1> QED
  BY <1>1, <1>4 DEF Shortest, Turns, NoWay

(* The cells that the search has a shorter way to.                         *)
Nearer(c) == {d \in DOMAIN g_score : g_score[d] < g_score[c]}

LEMMA NearerCells ==
  ASSUME ReachedInv, FrontierInv, NEW c \in DOMAIN g_score
  PROVE  /\ Cardinality(Nearer(c)) \in Nat /\ Cardinality(Nearer(c)) < Turns
         /\ \A d \in Nearer(c) : Cardinality(Nearer(d)) < Cardinality(Nearer(c))
<1>1. ASSUME NEW S \in SUBSET Cells, NEW T \in SUBSET S, T # S
      PROVE  /\ Cardinality(S) \in Nat /\ Cardinality(T) \in Nat
             /\ Cardinality(T) < Cardinality(S)
  <2>1. IsFiniteSet(S)
    BY CellsFinite, FS_Subset
  <2>2. IsFiniteSet(T) /\ Cardinality(T) <= Cardinality(S) /\ Cardinality(T) # Cardinality(S)
    BY <1>1, <2>1, FS_Subset
  <2> QED
    BY <2>1, <2>2, FS_CardinalityType
<1>2. \A d \in DOMAIN g_score : d \in Cells /\ g_score[d] \in Nat
  BY DEF ReachedInv, FrontierInv
<1>3. Nearer(c) \in SUBSET Cells /\ c \notin Nearer(c) /\ c \in Cells
  BY <1>2 DEF Nearer
<1>4. ASSUME NEW d \in Nearer(c)
      PROVE  Nearer(d) \in SUBSET Nearer(c) /\ Nearer(d) # Nearer(c)
  BY <1>2 DEF Nearer
<1> QED
  BY <1>1, <1>3, <1>4 DEF Turns

(* As many turns as there are nearer cells find a way as short as the one  *)
(* of the search, which has no more steps.                                 *)
LEMMA ReachedAtLeast ==
  ASSUME ReachedInv, FrontierInv, Answerable, NEW end \in DOMAIN g_score
  PROVE  Shortest[end] <= g_score[end] /\ Shortest[end] < Infinite
<1> DEFINE Found(n, c) == LengthsAfter[n][c] <= g_score[c] /\ LengthsAfter[n][c] <= 1415 * n
           bad == {n \in 0..Turns : \E c \in DOMAIN g_score :
                                      Cardinality(Nearer(c)) <= n /\ ~Found(n, c)}
<1>1. /\ Turns \in Nat /\ inflation \in Nat
      /\ \A c \in DOMAIN g_score : c \in Cells /\ g_score[c] \in Nat /\ Drivable(c)
  BY CellsFinite DEF Turns, ReachedInv, FrontierInv
<1>2. LengthsAfter[0][Snap(asked[1])] = 0 /\ Snap(asked[1]) \in DOMAIN g_score
  BY <1>1, LengthsAtFirst DEF ReachedInv, StartReached
<1>3. ASSUME NEW c \in DOMAIN g_score, c # Snap(asked[1])
      PROVE  \E d \in Nearer(c) : /\ d \in DOMAIN g_score /\ c \in Neighbours(d)
                                  /\ g_score[d] + Step(c, d) <= g_score[c]
  <2>1. PICK d : d = came_from[c]
    OBVIOUS
  <2>2. /\ d \in DOMAIN g_score /\ c \in Neighbours(d)
        /\ g_score[c] >= g_score[d] + Step(c, d)
    BY <1>3, <2>1 DEF ReachedInv, WaysAreDrivable
  <2>3. Step(c, d) \in Nat /\ Step(c, d) > 0
    BY DEF Step
  <2>4. g_score[d] < g_score[c]
    BY <1>1, <2>2, <2>3
  <2> QED
    BY <1>1, <2>2, <2>3, <2>4 DEF Nearer
<1>4. 0 \notin bad
  <2> SUFFICES ASSUME NEW c \in DOMAIN g_score, Cardinality(Nearer(c)) <= 0
               PROVE  Found(0, c)
    OBVIOUS
  <2>1. ~ \E d \in Nearer(c) : d \in DOMAIN g_score
    BY NearerCells
  <2>2. c = Snap(asked[1])
    BY <1>3, <2>1
  <2> QED
    BY <1>1, <1>2, <2>2
<1>5. ASSUME NEW n \in 1..Turns, n - 1 \notin bad PROVE n \notin bad
  <2> SUFFICES ASSUME NEW c \in DOMAIN g_score, Cardinality(Nearer(c)) <= n
               PROVE  Found(n, c)
    OBVIOUS
  <2>1. /\ n \in Nat /\ n - 1 \in 0..Turns
        /\ LengthsAfter[n][c] \in Nat /\ LengthsAfter[n - 1][c] \in Nat
        /\ LengthsAfter[n][c] <= LengthsAfter[n - 1][c]
    BY <1>1, LengthsTurn
  <2>2. ASSUME NEW d \in DOMAIN g_score, Cardinality(Nearer(d)) <= n - 1
        PROVE  Found(n - 1, d)
    BY <1>5, <2>1, <2>2
  <2>3. CASE Cardinality(Nearer(c)) <= n - 1
    BY <1>1, <2>1, <2>2, <2>3
  <2>4. CASE c = Snap(asked[1])
    <3>1. Nearer(c) = {}
      BY <1>1, <2>4 DEF Nearer, ReachedInv, StartReached
    <3>2. Cardinality(Nearer(c)) <= n - 1
      BY <2>1, <3>1, FS_EmptySet
    <3> QED
      BY <2>3, <3>2
  <2>5. CASE c # Snap(asked[1])
    <3>1. PICK d \in Nearer(c) : /\ d \in DOMAIN g_score /\ c \in Neighbours(d)
                                 /\ g_score[d] + Step(c, d) <= g_score[c]
      BY <1>3, <2>5
    <3>2. Cardinality(Nearer(d)) <= n - 1
      BY <2>1, <3>1, NearerCells
    <3>3. Found(n - 1, d)
      BY <2>2, <3>1, <3>2
    <3>4. d \in Int \X Int /\ d \in Cells /\ Drivable(d) /\ Drivable(c)
      BY <1>1, <3>1, PlannerAssumption DEF Cells
    <3>5. d \in Neighbours(c) /\ Step(c, d) \in Nat /\ Step(c, d) <= 1415
      BY <3>1, <3>4, NeighbourSteps DEF Step
    <3>6. LengthsAfter[n][c] <= LengthsAfter[n - 1][d] + Step(c, d)
      BY <1>1, <3>4, <3>5, LengthsTurn
    <3>7. LengthsAfter[n - 1][d] \in Nat
      BY <1>1, <3>4, LengthsTurn
    <3> QED
      BY <1>1, <2>1, <3>1, <3>3, <3>4, <3>5, <3>6, <3>7
  <2> QED
    BY <2>4, <2>5
<1>6. bad = {}
  <2> HIDE DEF bad
  <2>1. bad \in SUBSET (0..Turns)
    BY DEF bad
  <2> QED
    BY <1>4, <1>5, <2>1, NoTurn
<1>7. Found(Turns, end)
  <2>1. Turns \in 0..Turns /\ Cardinality(Nearer(end)) <= Turns
    BY <1>1, NearerCells
  <2> QED
    BY <1>6, <2>1
<1>8. 1415 * Turns < Infinite
  <2>1. Infinite = 2000 * Turns /\ Turns > 0
    BY CellsFinite, PlannerAssumption DEF Turns, Infinite
  <2> QED
    BY <1>1, <2>1
<1>9. LengthsAfter[Turns][end] \in Nat /\ Shortest[end] = LengthsAfter[Turns][end]
  <2>1. Turns \in 0..Turns /\ end \in Cells
    BY <1>1
  <2> QED
    BY <1>1, <2>1, LengthsType DEF Shortest, Turns
<1>10. Infinite \in Nat
  BY PlannerAssumption DEF Infinite
<1> QED
  BY <1>1, <1>7, <1>8, <1>9, <1>10

LEMMA SnapInMap ==
  ASSUME inflation \in Nat, NEW c \in Cells \cup {<<Width, 0>>}
  PROVE  Snap(c) \in Cells \cup {NoCell}
<1>1. c \in Int \X Int
  BY PlannerAssumption DEF Cells
<1> QED
  BY <1>1, SnapIsDrivable

LEMMA ExpandKeepsFrontier ==
  ASSUME ReachedInv, FrontierInv, NEW x \in open_set, ExpandCell(x, <<x[3], x[4]>>),
         result = "searching", UNCHANGED <<map, inflation, asked, goal, result>>
  PROVE  FrontierInv'
<1>1. PICK c : c = <<x[3], x[4]>>
  OBVIOUS
<1>2. PICK better : better = Improved(c)
  OBVIOUS
<1>3. PICK g : g = [d \in better |-> g_score[c] + Step(c, d)]
  OBVIOUS
<1>4. /\ c \in DOMAIN g_score /\ c \in Cells /\ g_score[c] \in Nat /\ goal \in Cells
      /\ inflation \in Nat /\ c \in Int \X Int
  BY <1>1, PlannerAssumption DEF ReachedInv, FrontierInv, Cells
<1>5. \A d \in better :
        /\ d \in Neighbours(c) /\ d # c /\ d \in Cells /\ d = <<d[1], d[2]>>
        /\ g[d] = g_score[c] + Step(c, d) /\ g[d] \in Nat
        /\ d \in DOMAIN g_score => g[d] < g_score[d]
  <2> SUFFICES ASSUME NEW d \in better
               PROVE  /\ d \in Neighbours(c) /\ d # c /\ d \in Cells /\ d = <<d[1], d[2]>>
                      /\ g[d] = g_score[c] + Step(c, d) /\ g[d] \in Nat
                      /\ d \in DOMAIN g_score => g[d] < g_score[d]
    OBVIOUS
  <2>1. /\ d \in Neighbours(c) /\ d # c
        /\ d \in DOMAIN g_score => g_score[c] + Step(c, d) < g_score[d]
    BY <1>2 DEF Improved, Neighbours
  <2>2. d \in Cells /\ d = <<d[1], d[2]>>
    BY <1>4, <2>1, NeighbourInMap DEF Cells
  <2>3. g[d] = g_score[c] + Step(c, d) /\ g[d] \in Nat
    BY <1>3, <1>4, StepSymmetric
  <2> QED
    BY <2>1, <2>2, <2>3
<1>6. /\ g_score' = [d \in DOMAIN g_score \cup better |->
                       IF d \in better THEN g[d] ELSE g_score[d]]
      /\ open_set' = (open_set \ {x})
           \cup {<<g[d] + Heuristic(d), -g[d], d[1], d[2]>> : d \in better}
  BY <1>1, <1>2, <1>3 DEF ExpandCell
<1>7. /\ DOMAIN g_score' = DOMAIN g_score \cup better /\ c \notin better
      /\ \A d \in better : g_score'[d] = g[d]
      /\ \A d \in DOMAIN g_score \ better : g_score'[d] = g_score[d]
      /\ \A d \in DOMAIN g_score : /\ g_score[d] \in Nat /\ g_score'[d] \in Nat
                                   /\ g_score'[d] <= g_score[d]
  BY <1>5, <1>6 DEF ReachedInv
<1>8. ASSUME NEW d \in better
      PROVE  \E y \in open_set' : /\ <<y[3], y[4]>> = d /\ y[1] = g_score'[d] + Heuristic(d)
  <2>1. PICK y : y = <<g[d] + Heuristic(d), -g[d], d[1], d[2]>>
    OBVIOUS
  <2>2. y \in open_set' /\ y[1] = g[d] + Heuristic(d) /\ <<y[3], y[4]>> = <<d[1], d[2]>>
    BY <1>6, <2>1
  <2> QED
    BY <1>5, <1>7, <2>2
<1>9. ASSUME NEW y \in open_set'
      PROVE  \/ y \in open_set \ {x}
             \/ \E d \in better : <<y[3], y[4]>> = d /\ y[1] = g_score'[d] + Heuristic(d)
  <2>1. ASSUME NEW d \in better, y = <<g[d] + Heuristic(d), -g[d], d[1], d[2]>>
        PROVE  <<y[3], y[4]>> = d /\ y[1] = g_score'[d] + Heuristic(d)
    <3>1. y[1] = g[d] + Heuristic(d) /\ <<y[3], y[4]>> = <<d[1], d[2]>>
      BY <2>1
    <3> QED
      BY <1>5, <1>7, <3>1
  <2> QED
    BY <1>6, <2>1
<1>10. \A d : Heuristic(d)' = Heuristic(d) /\ Neighbours(d)' = Neighbours(d)
  BY DEF Heuristic, Squared, Neighbours, Drivable, IsObstacle
<1>11. \A d \in Cells : Heuristic(d) \in Nat
  BY <1>4, HeuristicIsRoot
<1>12. ASSUME NEW y \in open_set'
       PROVE  y[1] \in Int /\ (<<y[3], y[4]>> = goal => g_score'[goal] <= y[1])
  <2>1. CASE y \in open_set
    <3>1. /\ y[1] \in Int /\ <<y[3], y[4]>> \in DOMAIN g_score
          /\ <<y[3], y[4]>> = goal => g_score[goal] <= y[1]
      BY <2>1 DEF FrontierInv, ReachedInv
    <3>2. ASSUME <<y[3], y[4]>> = goal PROVE g_score'[goal] <= y[1]
      <4>1. /\ g_score[goal] \in Nat /\ g_score'[goal] \in Nat
            /\ g_score'[goal] <= g_score[goal]
        BY <1>7, <3>1, <3>2
      <4> QED
        BY <3>1, <3>2, <4>1
    <3> QED
      BY <3>1, <3>2
  <2>2. ASSUME NEW d \in better, <<y[3], y[4]>> = d, y[1] = g_score'[d] + Heuristic(d)
        PROVE  y[1] \in Int /\ (<<y[3], y[4]>> = goal => g_score'[goal] <= y[1])
    BY <1>5, <1>7, <1>11, <2>2
  <2> QED
    BY <1>9, <2>1, <2>2
<1>13. ASSUME NEW d \in DOMAIN g_score' PROVE Expected(d)' \/ Settled(d)'
  <2>1. CASE d \in better
    <3>1. PICK y \in open_set' : <<y[3], y[4]>> = d /\ y[1] = g_score'[d] + Heuristic(d)
      BY <1>8, <2>1
    <3>2. y[1] <= g_score'[d] + Heuristic(d)
      BY <1>5, <1>7, <1>11, <2>1, <3>1
    <3> QED
      BY <1>10, <3>1, <3>2 DEF Expected
  <2>2. CASE d = c
    <3> SUFFICES ASSUME NEW e \in Neighbours(c)
                 PROVE  e \in DOMAIN g_score' /\ g_score'[e] <= g_score'[c] + Step(c, e)
      BY <1>10, <2>2 DEF Settled, Step
    <3>1. g_score'[c] = g_score[c]
      BY <1>4, <1>7
    <3>2. CASE e \in better
      BY <1>5, <1>7, <3>1, <3>2
    <3>3. CASE e \notin better
      <4>1. e \in DOMAIN g_score /\ ~(g_score[c] + Step(c, e) < g_score[e])
        BY <1>2, <3>3 DEF Improved
      <4> QED
        BY <1>4, <1>7, <3>1, <3>3, <4>1, StepSymmetric
    <3> QED
      BY <3>2, <3>3
  <2>3. CASE d # c /\ d \notin better
    <3>1. d \in DOMAIN g_score /\ g_score'[d] = g_score[d]
      BY <1>7, <2>3
    <3>2. CASE Expected(d)
      <4>1. PICK y \in open_set : <<y[3], y[4]>> = d /\ y[1] <= g_score[d] + Heuristic(d)
        BY <3>2 DEF Expected
      <4>2. y \in open_set'
        BY <1>1, <1>6, <2>3, <4>1
      <4> QED
        BY <1>10, <3>1, <4>1, <4>2 DEF Expected
    <3>3. CASE Settled(d)
      <4> SUFFICES ASSUME NEW e \in Neighbours(d)
                   PROVE  e \in DOMAIN g_score' /\ g_score'[e] <= g_score'[d] + Step(d, e)
        BY <1>10 DEF Settled, Step
      <4>1. e \in DOMAIN g_score /\ g_score[e] <= g_score[d] + Step(d, e)
        BY <3>3 DEF Settled
      <4> QED
        BY <1>7, <3>1, <4>1, StepSymmetric
    <3> QED
      BY <3>1, <3>2, <3>3 DEF FrontierInv
  <2> QED
    BY <1>7, <2>1, <2>2, <2>3
<1>14. DOMAIN g_score' \subseteq Cells
  BY <1>5, <1>7 DEF FrontierInv
<1>15. Snap(asked[2])' = Snap(asked[2]) /\ Answerable' = Answerable
  BY DEF Snap, Drivable, IsObstacle, Answerable
<1> QED
  BY <1>4, <1>12, <1>13, <1>14, <1>15 DEF FrontierInv

LEMMA StartKeepsFrontier ==
  ASSUME inflation \in Nat, NEW s \in Cells \cup {<<Width, 0>>},
         NEW g \in Cells \cup {<<Width, 0>>}, Start(s, g)
  PROVE  FrontierInv'
<1>1. /\ asked' = <<s, g>> /\ goal' = Snap(g) /\ UNCHANGED <<map, inflation>>
      /\ Snap(asked[1])' = Snap(s) /\ Snap(asked[2])' = Snap(g)
      /\ \A c : Snap(c)' = Snap(c)
  BY DEF Start, Snap, Drivable, IsObstacle
<1>2. Snap(s) \in Cells \cup {NoCell} /\ Snap(g) \in Cells \cup {NoCell}
  BY SnapInMap
<1>3. Answerable' <=> NoCell \notin {Snap(s), Snap(g)}
  BY <1>1 DEF Answerable
<1>4. CASE NoCell \in {Snap(s), Snap(g)}
  <2>1. result' = "none" /\ open_set' = {} /\ g_score' = <<>>
    BY <1>4 DEF Start
  <2> HIDE DEF Snap
  <2> QED
    BY <1>1, <1>2, <2>1 DEF FrontierInv
<1>5. CASE NoCell \notin {Snap(s), Snap(g)}
  <2>1. PICK start \in Cells : start = Snap(s)
    BY <1>2, <1>5
  <2>2. PICK first : first = <<0, 0, start[1], start[2]>>
    OBVIOUS
  <2>3. /\ result' = "searching" /\ open_set' = {first}
        /\ g_score' = [c \in {start} |-> 0]
    BY <1>5, <2>1, <2>2 DEF Start
  <2>4. /\ first[1] = 0 /\ <<first[3], first[4]>> = start
        /\ DOMAIN g_score' = {start} /\ g_score'[start] = 0
    BY <2>1, <2>2, <2>3 DEF Cells
  <2>5. goal' \in Cells
    BY <1>1, <1>2, <1>5
  <2>6. Expected(start)'
    <3>1. \A c \in Cells : Heuristic(c)' \in Nat
      <4>1. HeuristicIsNatural'
        BY HeuristicType, PTL
      <4> QED
        BY <2>5, <4>1 DEF HeuristicIsNatural, Cells
    <3> QED
      BY <2>1, <2>3, <2>4, <3>1 DEF Expected
  <2> HIDE DEF Snap
  <2> QED
    BY <1>1, <1>3, <1>5, <2>1, <2>3, <2>4, <2>5, <2>6 DEF FrontierInv
<1> QED
  BY <1>4, <1>5

(* While _compute_path searches, the heap holds what the cells reached so  *)
(* far still lead to: each has its entry, that leads no further than its   *)
(* way and its distance to the goal, or has led to its neighbours.         *)
THEOREM PlannerFrontier == PlannerSpec => []FrontierInv
<1>1. PlannerInit => FrontierInv
  BY DEF PlannerInit, FrontierInv
<1>2. ReachedInv /\ FrontierInv /\ [PlannerNext]_plannerVars => FrontierInv'
  <2> SUFFICES ASSUME ReachedInv, FrontierInv, [PlannerNext]_plannerVars PROVE FrontierInv'
    OBVIOUS
  <2>1. ASSUME NEW s \in Cells \cup {<<Width, 0>>}, NEW g \in Cells \cup {<<Width, 0>>},
               Start(s, g)
        PROVE  FrontierInv'
    BY <2>1, StartKeepsFrontier DEF ReachedInv
  <2>2. CASE Expand
    <3>1. PICK x \in open_set : ExpandCell(x, <<x[3], x[4]>>)
      BY <2>2 DEF Expand
    <3> QED
      BY <2>2, <3>1, ExpandKeepsFrontier DEF Expand
  <2>3. ASSUME UNCHANGED <<map, inflation, asked, goal, open_set, came_from, g_score>>,
               result' \in {"searching", "none", "found"},
               asked # <<>> /\ ~Answerable => result' = "none",
               result' = "found" => \E x \in open_set : Popped(x) /\ <<x[3], x[4]>> = goal
        PROVE  FrontierInv'
    <3>1. /\ Snap(asked[2])' = Snap(asked[2]) /\ Answerable' = Answerable
          /\ \A c : Expected(c)' = Expected(c) /\ Settled(c)' = Settled(c)
          /\ \A x : Popped(x)' = Popped(x)
      BY <2>3 DEF Snap, Answerable, Expected, Settled, Heuristic, Squared, Neighbours,
                  Drivable, IsObstacle, Popped, Step
    <3> QED
      BY <2>3, <3>1 DEF FrontierInv
  <2>4. CASE Finish
    BY <2>3, <2>4 DEF Finish, FrontierInv
  <2>5. CASE UNCHANGED plannerVars
    BY <2>3, <2>5 DEF plannerVars, FrontierInv
  <2> QED
    BY <2>1, <2>2, <2>4, <2>5 DEF PlannerNext
<1> QED
  BY <1>1, <1>2, PlannerInvariant, PTL DEF PlannerSpec

(* The way that _compute_path returns is a shortest one, and it returns    *)
(* one whenever there is one, for any map and any start and goal.          *)
THEOREM ShortestPath == PlannerSpec => []PathIsShortest
<1>1. ReachedInv /\ FrontierInv => PathIsShortest
  <2> SUFFICES ASSUME ReachedInv, FrontierInv, asked # <<>>, result # "searching", Answerable
               PROVE  IF Shortest[goal] >= Infinite THEN result = "none"
                      ELSE result = "found" /\ g_score[goal] = Shortest[goal] /\ WaysAreDrivable
    BY DEF PathIsShortest, Answerable, FrontierInv
  <2>1. /\ goal \in Cells /\ inflation \in Nat /\ WaysAreDrivable
        /\ \A c \in DOMAIN g_score : c \in Cells /\ Drivable(c) /\ g_score[c] \in Nat
    BY DEF Answerable, FrontierInv, ReachedInv
  <2>2. Shortest[goal] \in Nat /\ Infinite \in Nat
    <3>1. Turns \in 0..Turns
      BY CellsFinite DEF Turns
    <3> QED
      BY <2>1, <3>1, LengthsType, PlannerAssumption DEF Shortest, Turns, Infinite
  <2>3. CASE result = "none"
    <3>1. NoWay
      BY <2>3 DEF ReachedInv, StartReached, InHeap, NoWay
    <3> QED
      BY <2>1, <2>2, <2>3, <3>1, NoneIsInfinite
  <2>4. CASE result = "found"
    <3>1. goal \in DOMAIN g_score
      BY <2>4 DEF ReachedInv
    <3>2. Shortest[goal] <= g_score[goal] /\ Shortest[goal] < Infinite
      BY <3>1, ReachedAtLeast
    <3>3. g_score[goal] <= Shortest[goal]
      BY <2>4, <3>2, FoundAtMost
    <3> QED
      BY <2>1, <2>2, <2>4, <3>1, <3>2, <3>3
  <2> QED
    BY <2>3, <2>4 DEF FrontierInv
<1> QED
  BY <1>1, PlannerInvariant, PlannerFrontier, PTL

-----------------------------------------------------------------------------
(* Manual control.                                                         *)
OperatorSpec == OperatorInit /\ [][OperatorNext]_operatorVars

Publishing == {h \in Thread : handler[h].todo = "publish"}

OperatorInv ==
  /\ handler \in [Thread -> [todo : {"nothing", "publish", "finish"},
                             command : Command \cup {"none"}]]
  /\ manual \in {"none", "drive", "over"}
  /\ NoRunaway

LEMMA OperatorInitial == OperatorInit => OperatorInv
BY DEF OperatorInit, OperatorInv, NoRunaway, Idle, Command

LEMMA OperatorStep == OperatorInv /\ [OperatorNext]_operatorVars => OperatorInv'
<1> SUFFICES ASSUME OperatorInv, [OperatorNext]_operatorVars
             PROVE  OperatorInv'
  OBVIOUS
<1>1. ASSUME NEW h \in Thread, NEW c \in Command, Begin(h, c)
      PROVE  OperatorInv'
  <2>1. CASE c = "move"
    BY <1>1, <2>1 DEF Begin, OperatorInv, NoRunaway
  <2>2. CASE c = "enable"
    BY <1>1, <2>2 DEF Begin, OperatorInv, NoRunaway
  <2>3. CASE c \notin {"move", "enable"}
    <3>1. /\ handler' = [handler EXCEPT ![h] = [todo |-> "publish", command |-> c]]
          /\ manual' = "none"
      BY <1>1, <2>3 DEF Begin
    <3>2. handler'[h].todo = "publish"
      BY <3>1 DEF OperatorInv
    <3> QED
      BY <3>1, <3>2 DEF OperatorInv, NoRunaway
  <2> QED
    BY <2>1, <2>2, <2>3
<1>2. ASSUME NEW h \in Thread, Publish(h)
      PROVE  OperatorInv'
  <2>1. handler' \in [Thread -> [todo : {"nothing", "publish", "finish"},
                                 command : Command \cup {"none"}]]
    BY <1>2 DEF Publish, OperatorInv, Idle
  <2> QED
    BY <1>2, <2>1 DEF Publish, OperatorInv, NoRunaway
<1>3. ASSUME NEW h \in Thread, FinishCommand(h)
      PROVE  OperatorInv'
  <2>1. /\ handler' = [handler EXCEPT ![h] = Idle]
        /\ UNCHANGED <<manual, cmd_vel>> /\ handler[h].todo = "finish"
    BY <1>3 DEF FinishCommand
  <2>2. \A k \in Publishing : handler'[k].todo = "publish"
    BY <2>1 DEF Publishing, OperatorInv
  <2> QED
    BY <2>1, <2>2 DEF Publishing, OperatorInv, NoRunaway, Idle
<1>4. CASE DriveTick
  BY <1>4 DEF DriveTick, OperatorInv, NoRunaway
<1>5. CASE TimePasses
  BY <1>5 DEF TimePasses, OperatorInv, NoRunaway
<1>6. CASE MonitorForwards
  BY <1>6 DEF MonitorForwards, OperatorInv, NoRunaway
<1>7. CASE ReachGoal
  BY <1>7 DEF ReachGoal, OperatorInv, NoRunaway
<1>8. CASE UNCHANGED operatorVars
  BY <1>8 DEF operatorVars, OperatorInv, NoRunaway
<1> QED
  BY <1>1, <1>2, <1>3, <1>4, <1>5, <1>6, <1>7, <1>8 DEF OperatorNext

(* A robot does not drive on by hand when its drive has ended or another   *)
(* command has stopped it (handle_command, _manual_drive_tick), whatever   *)
(* threads run between the lock and what is published after it.            *)
THEOREM NeverRunsAway == OperatorSpec => []NoRunaway
<1>1. OperatorInv => NoRunaway
  BY DEF OperatorInv
<1> QED
  BY <1>1, OperatorInitial, OperatorStep, PTL DEF OperatorSpec

-----------------------------------------------------------------------------
(* What analytics counts.                                                  *)
AnalyticsSpec == AnalyticsInit /\ [][AnalyticsNext]_analyticsVars

(* The streak is what was published.  The entry is marked busy for a task  *)
(* that the beacon named, or for one that it may not have heard of yet;    *)
(* and it is not marked when the streak is over.                           *)
AnalyticsInv ==
  /\ robot \in Entries /\ given \subseteq Job
  /\ ended \in Nat /\ cleared \in Nat /\ completed \in Nat /\ published \in 0..2
  /\ streak = published /\ (robot.mode # "busy" => streak = 0)
  /\ robot.mode = "busy" => robot.named # NoJob \/ robot.reserved # NoJob
  /\ CountedTasksEnded

LEMMA AnalyticsInitial == AnalyticsInit => AnalyticsInv
BY AnalyticsAssumption
   DEF AnalyticsInit, AnalyticsInv, CountedTasksEnded, Entries, Mode, NoSegment

(* What a status does: it is counted if it ends two or more that showed    *)
(* the entry marked.                                                       *)
LEMMA Published ==
  ASSUME AnalyticsInv, NEW mode \in Mode, PublishEntry(mode)
  PROVE  /\ published' \in 0..2 /\ streak' = published'
         /\ mode # "busy" => streak' = 0
         /\ completed' = IF published = 2 /\ mode = "idle" THEN completed + 1 ELSE completed
<1>1. streak' = IF mode = "busy" THEN More(streak) ELSE 0
  BY DEF PublishEntry, FleetCallback
<1>2. published' = IF mode = "busy" THEN More(published) ELSE 0
  BY DEF PublishEntry
<1>3. completed' = IF published = 2 /\ mode = "idle" THEN completed + 1 ELSE completed
  BY DEF PublishEntry, FleetCallback, AnalyticsInv
<1> QED
  BY <1>1, <1>2, <1>3 DEF AnalyticsInv, More

LEMMA AnalyticsStep == AnalyticsInv /\ [AnalyticsNext]_analyticsVars => AnalyticsInv'
<1> SUFFICES ASSUME AnalyticsInv, [AnalyticsNext]_analyticsVars
             PROVE  AnalyticsInv'
  OBVIOUS
<1> DEFINE Free == Mode \ {"busy"}
<1>0. "busy" \in Mode
  BY DEF Mode
<1>1. ASSUME NEW job \in Job, Dispatch(job) PROVE AnalyticsInv'
  <2>1. PICK length \in Lengths :
          robot' = [mode |-> "busy", reserved |-> job, activated |-> FALSE,
                    length |-> length, top |-> 0, named |-> robot.named]
    BY <1>1 DEF Dispatch
  <2>2. length \in Nat
    BY AnalyticsAssumption
  <2>3. robot' \in Entries /\ robot'.mode = "busy" /\ robot'.reserved # NoJob
    BY <1>0, <2>1, <2>2, AnalyticsAssumption DEF AnalyticsInv, Entries
  <2> QED
    BY <1>1, <2>3 DEF Dispatch, history, counts, AnalyticsInv, CountedTasksEnded
<1>2. ASSUME NEW job \in Job, RegisterTask(job) PROVE AnalyticsInv'
  <2>1. robot' = [robot EXCEPT !.mode = "busy", !.named = job,
                               !.activated = robot.activated \/ robot.reserved = job]
    BY <1>2 DEF RegisterTask
  <2>2. robot' \in Entries /\ robot'.mode = "busy" /\ robot'.named # NoJob
    BY <1>0, <2>1, AnalyticsAssumption DEF AnalyticsInv, Entries
  <2>3. PublishEntry("busy") /\ "busy" \in Mode
    BY <1>2 DEF RegisterTask, Mode
  <2>4. /\ ended' = ended \/ ended' = ended + 1
        /\ cleared' = cleared
    BY <1>2 DEF RegisterTask
  <2>5. published' \in 0..2 /\ streak' = published' /\ completed' = completed
    BY <2>3, Published
  <2>6. ended \in Nat /\ cleared \in Nat /\ completed \in Nat /\ completed <= ended + cleared
    BY DEF AnalyticsInv, CountedTasksEnded
  <2>7. ended' \in Nat /\ cleared' \in Nat /\ completed' \in Nat
        /\ completed' <= ended' + cleared'
    <3>1. completed' = completed
      BY <2>5
    <3> QED
      BY <2>4, <2>6, <3>1
  <2>8. given' \subseteq Job
    BY <1>2 DEF RegisterTask, AnalyticsInv
  <2>9. CountedTasksEnded'
    BY <2>7 DEF CountedTasksEnded
  <2> QED
    BY <2>2, <2>5, <2>7, <2>8, <2>9, Zenon DEF AnalyticsInv
<1>3. ASSUME NEW mode \in Free, RegisterNone(mode) PROVE AnalyticsInv'
  <2>1. robot' \in Entries /\ robot'.mode = mode /\ given' \subseteq given
    BY <1>3 DEF RegisterNone, AnalyticsInv, Entries
  <2>2. PublishEntry(mode)
    BY <1>3 DEF RegisterNone
  <2>3. CASE robot.named # NoJob
    <3>1. ended' = ended + 1 /\ cleared' = cleared
      BY <1>3, <2>3 DEF RegisterNone
    <3> QED
      BY <2>1, <2>2, <3>1, Published DEF AnalyticsInv, CountedTasksEnded
  <2>4. CASE robot.named = NoJob /\ robot.reserved # NoJob
    <3>1. /\ ended' = ended
          /\ cleared' = IF published = 2 /\ mode = "idle" THEN cleared + 1 ELSE cleared
      BY <1>3, <2>4 DEF RegisterNone, ClearMark
    <3> QED
      BY <2>1, <2>2, <3>1, Published DEF AnalyticsInv, CountedTasksEnded
  <2>5. CASE robot.named = NoJob /\ robot.reserved = NoJob
    <3>1. ended' = ended /\ cleared' = cleared /\ published = 0
      BY <1>3, <2>5 DEF RegisterNone, AnalyticsInv
    <3> QED
      BY <2>1, <2>2, <3>1, Published DEF AnalyticsInv, CountedTasksEnded
  <2> QED
    BY <2>3, <2>4, <2>5
<1>4. CASE ReserveSegment
  BY <1>4 DEF ReserveSegment, history, counts, AnalyticsInv, CountedTasksEnded, Entries
<1>5. CASE Heartbeat
  <2>1. PICK mode \in {"idle", "charging"} :
          robot' = [robot EXCEPT !.mode = mode] /\ PublishEntry(mode)
    BY <1>5 DEF Heartbeat
  <2>2. robot' \in Entries /\ robot'.mode = mode /\ mode \in Mode
    BY <2>1 DEF AnalyticsInv, Entries, Mode
  <2>3. given' = given /\ ended' = ended /\ cleared' = cleared /\ published = 0
    BY <1>5 DEF Heartbeat, AnalyticsInv
  <2> QED
    BY <2>1, <2>2, <2>3, Published DEF AnalyticsInv, CountedTasksEnded
<1>6. ASSUME NEW mode \in Free, TakeBack(mode) PROVE AnalyticsInv'
  <2>1. robot' \in Entries /\ robot'.mode = mode
    BY <1>6 DEF TakeBack, AnalyticsInv, Entries
  <2>2. /\ PublishEntry(mode) /\ given' = given /\ ended' = ended
        /\ cleared' = IF published = 2 /\ mode = "idle" THEN cleared + 1 ELSE cleared
    BY <1>6 DEF TakeBack, ClearMark
  <2> QED
    BY <2>1, <2>2, Published DEF AnalyticsInv, CountedTasksEnded
<1>7. CASE PublishFleetStatus
  <2>1. PublishEntry(robot.mode) /\ robot.mode \in Mode
    BY <1>7 DEF PublishFleetStatus, AnalyticsInv, Entries
  <2>2. robot' = robot /\ given' = given /\ ended' = ended /\ cleared' = cleared
    BY <1>7 DEF PublishFleetStatus
  <2> QED
    BY <2>1, <2>2, Published DEF AnalyticsInv, CountedTasksEnded
<1>8. CASE ReservationCallback
  BY <1>8 DEF ReservationCallback, history, AnalyticsInv, CountedTasksEnded
<1>9. CASE PublishAnalytics
  BY <1>9 DEF PublishAnalytics, history, AnalyticsInv, CountedTasksEnded
<1>10. CASE UNCHANGED analyticsVars
  BY <1>10 DEF analyticsVars, history, counts, AnalyticsInv, CountedTasksEnded
<1>11. ASSUME Recover PROVE \E mode \in Free : TakeBack(mode)
  BY <1>11 DEF Recover, Mode
<1>12. ASSUME ReleaseToCharge PROVE \E mode \in Free : TakeBack(mode)
  BY <1>12 DEF ReleaseToCharge
<1> QED
  BY <1>1, <1>2, <1>3, <1>4, <1>5, <1>6, <1>7, <1>8, <1>9, <1>10, <1>11, <1>12
     DEF AnalyticsNext

(* Whatever the robot's registrations say and however late they are,       *)
(* analytics counts no task twice and none before it is over, but for      *)
(* marks that were cleared after two statuses (_fleet_callback).           *)
THEOREM CountsEnded == AnalyticsSpec => []CountedTasksEnded
<1>1. AnalyticsInv => CountedTasksEnded
  BY DEF AnalyticsInv
<1> QED
  BY <1>1, AnalyticsInitial, AnalyticsStep, PTL DEF AnalyticsSpec

(***************************************************************************)
(* Tasks as the control center shows them                                  *)
(***************************************************************************)

TrackRecord == [status: STRING, robot: Holder \cup {NoHolder}, seen: BOOLEAN]

TracksInv ==
  /\ listed \in [Holder -> {"absent", "OPEN", "COMPLETED"}]
  /\ current \in Holder \cup {NoHolder}
  /\ phase \in {"unknown", "queued", "committed", "assigned"}
  /\ phase \in {"unknown", "queued"} <=> current = NoHolder
  /\ topic.status \in [Holder -> {"absent", "OPEN", "COMPLETED", Unset}]
  /\ topic = [fleet |-> topic.fleet, assignment |-> topic.assignment, status |-> topic.status]
  /\ commands \in Nat

(* The task is over and shown as COMPLETED, and nothing that says          *)
(* otherwise is under way: no assignment, no entry of a robot, no list     *)
(* from before the completion, and no command that has still to write.     *)
ShownCompleted ==
  /\ Done /\ operator = Unset
  /\ track \in TrackRecord /\ track.status = "COMPLETED"
  /\ topic.assignment = <<>>
  /\ topic.fleet = Unset \/ topic.fleet.robot = NoHolder
  /\ \A r \in Holder : topic.status[r] # "OPEN"

LEMMA TopicSent ==
  ASSUME TracksInv, NEW name \in {"fleet", "assignment"}, NEW message, Sent(name, message)
  PROVE  /\ topic'.status = topic.status
         /\ topic'.fleet = IF name = "fleet" THEN message ELSE topic.fleet
         /\ topic'.assignment = IF name = "assignment" THEN message ELSE topic.assignment
         /\ topic' = [fleet |-> topic'.fleet, assignment |-> topic'.assignment,
                      status |-> topic'.status]
<1>1. PICK f, a, s : topic = [fleet |-> f, assignment |-> a, status |-> s]
  BY DEF TracksInv
<1>2. topic' = [topic EXCEPT ![name] = message]
  BY DEF Sent
<1>3. CASE name = "fleet"
  <2>1. topic' = [fleet |-> message, assignment |-> a, status |-> s]
    BY <1>1, <1>2, <1>3
  <2> QED
    BY <1>1, <1>3, <2>1
<1>4. CASE name = "assignment"
  <2>1. topic' = [fleet |-> f, assignment |-> message, status |-> s]
    BY <1>1, <1>2, <1>4
  <2> QED
    BY <1>1, <1>4, <2>1
<1> QED
  BY <1>3, <1>4

LEMMA StatusSent ==
  ASSUME TracksInv, NEW r \in Holder, NEW message \in {"absent", "OPEN", "COMPLETED", Unset},
         topic' = [topic EXCEPT !.status[r] = message]
  PROVE  /\ topic'.fleet = topic.fleet /\ topic'.assignment = topic.assignment
         /\ topic'.status = [topic.status EXCEPT ![r] = message]
         /\ topic'.status \in [Holder -> {"absent", "OPEN", "COMPLETED", Unset}]
         /\ topic' = [fleet |-> topic'.fleet, assignment |-> topic'.assignment,
                      status |-> topic'.status]
<1>1. PICK f, a, s : topic = [fleet |-> f, assignment |-> a, status |-> s]
  BY DEF TracksInv
<1>2. topic' = [fleet |-> f, assignment |-> a, status |-> [s EXCEPT ![r] = message]]
  BY <1>1
<1>3. s \in [Holder -> {"absent", "OPEN", "COMPLETED", Unset}]
  BY <1>1 DEF TracksInv
<1> QED
  BY <1>1, <1>2, <1>3

LEMMA CancelledType ==
  ASSUME TracksInv, NEW holders
  PROVE  Cancelled(holders) \in [Holder -> {"absent", "OPEN", "COMPLETED"}]
BY DEF Cancelled, TracksInv

LEMMA TracksNextInv ==
  ASSUME TracksInv, [TracksNext]_tracksVars
  PROVE  TracksInv'
<1>0. commands' \in Nat
  BY DEF TracksInv, TracksNext, FleetStep, Callback, OperatorCommand, AssignTask, Leave,
         PublishFleet, Commit, CompleteTask, PublishStatus, OnGiven, OnFleetEntry, OnTaskStatus,
         CreateTask, SetPriority, CancelTask, AssignRobot, Write, BeginCommand, tracksVars
<1>1. CASE UNCHANGED topic /\ UNCHANGED <<listed, current>>
           /\ (phase' = phase \/ (phase = "unknown" /\ phase' = "queued"))
  BY <1>0, <1>1 DEF TracksInv
<1>2. ASSUME NEW name \in {"fleet", "assignment"}, NEW message, Sent(name, message),
             /\ listed' \in [Holder -> {"absent", "OPEN", "COMPLETED"}]
             /\ current' \in Holder \cup {NoHolder}
             /\ phase' \in {"unknown", "queued", "committed", "assigned"}
             /\ phase' \in {"unknown", "queued"} <=> current' = NoHolder
      PROVE  TracksInv'
  BY <1>0, <1>2, TopicSent DEF TracksInv
<1>3. CASE FleetStep
  <2>1. CASE AssignTask
    <3>1. current \in Holder
      BY <1>0, <2>1 DEF AssignTask, TracksInv
    <3> QED
      BY <1>0, <1>2, <2>1, <3>1 DEF AssignTask, Given, TracksInv
  <2>2. CASE Leave
    BY <1>0, <2>2 DEF Leave, TracksInv
  <2>3. CASE PublishFleet
    BY <1>0, <1>2, <2>3 DEF PublishFleet, TracksInv, fleetVars
  <2>4. ASSUME NEW r \in Holder, Commit(r) PROVE TracksInv'
    BY <1>0, <1>2, <2>4, TracksAssumption DEF Commit, Given, TracksInv
  <2>5. ASSUME NEW r \in Holder, CompleteTask(r) PROVE TracksInv'
    BY <1>0, <2>5 DEF CompleteTask, TracksInv
  <2>6. ASSUME NEW r \in Holder, PublishStatus(r) PROVE TracksInv'
    <3>1. listed[r] \in {"absent", "OPEN", "COMPLETED", Unset}
      BY <1>0 DEF TracksInv
    <3> QED
      BY <1>0, <2>6, <3>1, StatusSent DEF PublishStatus, TracksInv, fleetVars
  <2> QED
    BY <1>3, <2>1, <2>2, <2>3, <2>4, <2>5, <2>6 DEF FleetStep
<1>4. CASE Callback
  <2>1. CASE OnGiven \/ OnFleetEntry
    BY <1>0, <1>2, <2>1 DEF OnGiven, OnFleetEntry, TracksInv, fleetVars
  <2>2. ASSUME NEW r \in Holder, OnTaskStatus(r) PROVE TracksInv'
    BY <1>0, <2>2, StatusSent DEF OnTaskStatus, TracksInv, fleetVars
  <2> QED
    BY <1>4, <2>1, <2>2 DEF Callback
<1>5. CASE OperatorCommand
  <2>1. CASE CreateTask \/ Write
    BY <1>1, <2>1 DEF CreateTask, Write, Added
  <2>2. CASE SetPriority \/ CancelTask
    <3>1. listed' \in [Holder -> {"absent", "OPEN", "COMPLETED"}]
      BY <2>2, CancelledType DEF SetPriority, CancelTask
    <3> QED
      BY <1>0, <2>2, <3>1 DEF SetPriority, CancelTask, TracksInv
  <2>3. ASSUME NEW r \in Holder, AssignRobot(r) PROVE TracksInv'
    <3>1. listed' \in [Holder -> {"absent", "OPEN", "COMPLETED"}]
      BY <2>3, CancelledType DEF AssignRobot
    <3> QED
      BY <1>0, <1>2, <2>3, <3>1 DEF AssignRobot, Given, TracksInv
  <2> QED
    BY <1>5, <2>1, <2>2, <2>3 DEF OperatorCommand
<1> QED
  BY <1>1, <1>3, <1>4, <1>5 DEF TracksNext, tracksVars, fleetVars

LEMMA TracksInvariant == TracksInit /\ [][TracksNext]_tracksVars => []TracksInv
<1>1. TracksInit => TracksInv
  BY DEF TracksInit, TracksInv
<1> QED
  BY <1>1, TracksNextInv, PTL

(* A message of the control center's about a task that is over.            *)
LEMMA StaysCompleted ==
  ASSUME NEW r \in Holder, track \in TrackRecord, track.status = "COMPLETED"
  PROVE  /\ Missed(r) \in TrackRecord /\ Missed(r).status = "COMPLETED"
         /\ LET e == [Updated("COMPLETED", r) EXCEPT !.seen = TRUE]
            IN  e \in TrackRecord /\ e.status = "COMPLETED"
<1>1. [track EXCEPT !.seen = TRUE] \in TrackRecord
      /\ [track EXCEPT !.seen = TRUE].status = track.status
  BY DEF TrackRecord
<1>2. Missed(r) \in TrackRecord /\ Missed(r).status = "COMPLETED"
  BY <1>1 DEF Missed
<1>3. Updated("COMPLETED", r) \in TrackRecord /\ Updated("COMPLETED", r).status = "COMPLETED"
  <2>1. /\ [track EXCEPT !.status = "COMPLETED", !.robot = r] \in TrackRecord
        /\ [track EXCEPT !.status = "COMPLETED", !.robot = r].status = "COMPLETED"
    BY DEF TrackRecord
  <2>2. /\ TrackEntry("COMPLETED", r) \in TrackRecord
        /\ TrackEntry("COMPLETED", r).status = "COMPLETED"
    BY DEF TrackRecord, TrackEntry
  <2> QED
    BY <2>1, <2>2 DEF Updated
<1>4. PICK u : u = Updated("COMPLETED", r)
  OBVIOUS
<1>5. [u EXCEPT !.seen = TRUE] \in TrackRecord /\ [u EXCEPT !.seen = TRUE].status = "COMPLETED"
  BY <1>3, <1>4 DEF TrackRecord
<1> QED
  BY <1>2, <1>4, <1>5

LEMMA NextStaysCompleted ==
  ASSUME TracksInv, TracksInv', ShownCompleted, [TracksNext]_tracksVars, commands' = commands
  PROVE  ShownCompleted'
<1>1. /\ phase = "unknown" /\ current = NoHolder /\ operator = Unset
      /\ \A r \in Holder : listed[r] \in {"absent", "COMPLETED"}
  BY DEF ShownCompleted, Done, TracksInv
<1>2. CASE UNCHANGED tracksVars
  BY <1>2 DEF tracksVars, fleetVars, ShownCompleted, Done
<1>3. CASE PublishFleet
  <2>1. PICK running \in BOOLEAN : Sent("fleet", [robot |-> current, running |-> running])
    BY <1>3 DEF PublishFleet
  <2>2. topic'.fleet.robot = NoHolder /\ topic'.assignment = topic.assignment
        /\ topic'.status = topic.status
    BY <1>1, <2>1, TopicSent
  <2> QED
    BY <1>3, <2>2 DEF PublishFleet, ShownCompleted, Done, fleetVars
<1>4. ASSUME NEW r \in Holder, PublishStatus(r) PROVE ShownCompleted'
  <2>1. listed[r] \in {"absent", "COMPLETED"}
    BY <1>1
  <2>2. /\ topic'.fleet = topic.fleet /\ topic'.assignment = topic.assignment
        /\ topic'.status = [topic.status EXCEPT ![r] = listed[r]]
    BY <1>4, <2>1, StatusSent DEF PublishStatus
  <2>3. \A s \in Holder : topic'.status[s] # "OPEN"
    BY <2>1, <2>2 DEF ShownCompleted, TracksInv
  <2> QED
    BY <1>4, <2>2, <2>3 DEF PublishStatus, ShownCompleted, Done, fleetVars
<1>5. CASE OnFleetEntry
  <2>1. topic.fleet.robot = NoHolder
    BY <1>5 DEF OnFleetEntry, ShownCompleted
  <2>2. track' = track
    BY <1>5, <2>1 DEF OnFleetEntry
  <2>3. topic'.fleet = Unset /\ topic'.assignment = topic.assignment
        /\ topic'.status = topic.status
    BY <1>5, TopicSent DEF OnFleetEntry
  <2> QED
    BY <1>5, <2>2, <2>3 DEF OnFleetEntry, ShownCompleted, Done, fleetVars
<1>6. ASSUME NEW r \in Holder, OnTaskStatus(r) PROVE ShownCompleted'
  <2>1. /\ topic'.fleet = topic.fleet /\ topic'.assignment = topic.assignment
        /\ topic'.status = [topic.status EXCEPT ![r] = Unset]
    BY <1>6, StatusSent DEF OnTaskStatus
  <2>2. topic.status[r] \in {"absent", "COMPLETED"}
    BY <1>6 DEF OnTaskStatus, ShownCompleted, TracksInv
  <2>3. track' \in TrackRecord /\ track'.status = "COMPLETED"
    BY <1>6, <2>2, StaysCompleted DEF OnTaskStatus, ShownCompleted
  <2>4. \A s \in Holder : topic'.status[s] # "OPEN"
    BY <2>1, TracksAssumption DEF ShownCompleted, TracksInv
  <2> QED
    BY <1>6, <2>1, <2>3, <2>4 DEF OnTaskStatus, ShownCompleted, Done, fleetVars
<1>7. /\ ~AssignTask /\ ~Leave /\ ~OnGiven /\ ~Write
      /\ \A r \in Holder : ~Commit(r) /\ ~CompleteTask(r)
  BY <1>1 DEF AssignTask, Leave, OnGiven, Write, Commit, CompleteTask, ShownCompleted
<1>8. /\ ~CreateTask /\ ~SetPriority /\ ~CancelTask
      /\ \A r \in Holder : ~AssignRobot(r)
  BY DEF CreateTask, SetPriority, CancelTask, AssignRobot, BeginCommand, TracksInv
<1> QED
  BY <1>2, <1>3, <1>4, <1>5, <1>6, <1>7, <1>8
     DEF TracksNext, FleetStep, Callback, OperatorCommand

(* A task that is over and shown as COMPLETED is shown so until the        *)
(* operator's next command, whatever the four topics still bring, once     *)
(* they hold nothing from before it was over.                              *)
THEOREM CompletedIsKept ==
  TracksInit /\ [][TracksNext]_tracksVars
    => [][ShownCompleted /\ commands' = commands => ShownCompleted']_tracksVars
<1>1. TracksInv /\ TracksInv' /\ [TracksNext]_tracksVars
        => [ShownCompleted /\ commands' = commands => ShownCompleted']_tracksVars
  BY NextStaysCompleted
<1> QED
  BY <1>1, TracksInvariant, PTL

(***************************************************************************)
(* Settings as the control center shows them                               *)
(***************************************************************************)

(* The view and the node agree, and no call is under way that changes it.  *)
Agreed(n) ==
  /\ n \in up /\ shown[n] = param[n]
  /\ setting[n] = "none" /\ getting[n] \in {"none", "asked", param[n]}

SettingsInv ==
  /\ {shown, param, setting, getting} \subseteq [Server -> Value \cup {"none", "asked"}]
  /\ edits \in Nat

LEMMA SettingsNextInv ==
  ASSUME SettingsInv, [SettingsNext]_settingsVars
  PROVE  SettingsInv'
<1> DEFINE Word == Value \cup {"none", "asked"}
<1>1. shown \in [Server -> Word] /\ param \in [Server -> Word]
      /\ setting \in [Server -> Word] /\ getting \in [Server -> Word]
  BY DEF SettingsInv
<1>2. "0.5" \in Word /\ "none" \in Word /\ "asked" \in Word
  BY DEF Value
<1> HIDE DEF Word
<1>3. SettingsInv' <=> /\ shown' \in [Server -> Word] /\ param' \in [Server -> Word]
                       /\ setting' \in [Server -> Word] /\ getting' \in [Server -> Word]
                       /\ edits' \in Nat
  BY DEF SettingsInv, Word
<1>4. edits' \in Nat
  BY DEF SettingsInv, SettingsNext, Refresh, Apply, ServeSet, ServeGet, TakeAnswer, StopNode,
         StartNode, settingsVars
<1>5. CASE Refresh
  BY <1>1, <1>2, <1>3, <1>4, <1>5 DEF Refresh
<1>6. ASSUME NEW n \in Server, NEW value \in Value, Apply(n, value) PROVE SettingsInv'
  BY <1>1, <1>2, <1>3, <1>4, <1>6 DEF Apply, Word
<1>7. ASSUME NEW n \in Server,
             ServeSet(n) \/ ServeGet(n) \/ TakeAnswer(n) \/ StopNode(n) \/ StartNode(n)
      PROVE  SettingsInv'
  <2>1. {setting[n], param[n], getting[n]} \subseteq Word
    BY <1>1
  <2>2. CASE ServeSet(n)
    BY <1>1, <1>2, <1>3, <1>4, <2>1, <2>2 DEF ServeSet
  <2>3. CASE ServeGet(n)
    BY <1>1, <1>2, <1>3, <1>4, <2>1, <2>3 DEF ServeGet
  <2>4. CASE TakeAnswer(n)
    BY <1>1, <1>2, <1>3, <1>4, <2>1, <2>4 DEF TakeAnswer
  <2>5. CASE StopNode(n) \/ StartNode(n)
    BY <1>1, <1>2, <1>3, <1>4, <2>5 DEF StopNode, StartNode
  <2> QED
    BY <1>7, <2>2, <2>3, <2>4, <2>5
<1>8. CASE UNCHANGED settingsVars
  BY <1>8 DEF settingsVars, SettingsInv
<1> QED
  BY <1>5, <1>6, <1>7, <1>8 DEF SettingsNext

LEMMA NextAgreed ==
  ASSUME SettingsInv, [SettingsNext]_settingsVars, NEW n \in Server, Agreed(n), edits' = edits
  PROVE  Agreed(n)'
<1>1. /\ {shown, param, setting, getting} \subseteq [Server -> Value \cup {"none", "asked"}]
      /\ edits \in Nat
  BY DEF SettingsInv
<1>2. CASE UNCHANGED settingsVars
  BY <1>2 DEF settingsVars, Agreed
<1>3. CASE Refresh
  BY <1>3 DEF Refresh, Agreed
<1>4. ASSUME NEW m \in Server, ServeSet(m) PROVE Agreed(n)'
  <2>1. m # n
    BY <1>4 DEF ServeSet, Agreed
  <2> QED
    BY <1>1, <1>4, <2>1 DEF ServeSet, Agreed
<1>5. ASSUME NEW m \in Server, ServeGet(m) PROVE Agreed(n)'
  BY <1>1, <1>5 DEF ServeGet, Agreed
<1>6. ASSUME NEW m \in Server, TakeAnswer(m) PROVE Agreed(n)'
  <2>1. m = n => getting[n] = param[n]
    BY <1>6 DEF TakeAnswer, Answered, Agreed
  <2>2. shown'[n] = param[n]
    BY <1>1, <1>6, <2>1 DEF TakeAnswer, Agreed
  <2>3. getting'[n] \in {getting[n], "none"}
    BY <1>1, <1>6, <2>1 DEF TakeAnswer
  <2> QED
    BY <1>6, <2>2, <2>3 DEF TakeAnswer, Agreed
<1>7. ASSUME NEW m \in Server, StartNode(m) PROVE Agreed(n)'
  BY <1>1, <1>7 DEF StartNode, Agreed
<1>8. \A m \in Server : ~StopNode(m) /\ \A value \in Value : ~Apply(m, value)
  BY <1>1 DEF StopNode, Apply
<1> QED
  BY <1>2, <1>3, <1>4, <1>5, <1>6, <1>7, <1>8 DEF SettingsNext

(* What the operator sees of a node and what the node works with agree,    *)
(* once they do and no older call is under way, until the operator applies *)
(* another value or a node is stopped.                                     *)
THEOREM AgreementIsKept ==
  SettingsInit /\ [][SettingsNext]_settingsVars
    => [][\A n \in Server : Agreed(n) /\ edits' = edits => Agreed(n)']_settingsVars
<1>1. SettingsInit => SettingsInv
  BY DEF SettingsInit, SettingsInv, Value, IsDouble
<1>2. SettingsInv /\ [SettingsNext]_settingsVars => SettingsInv'
  BY SettingsNextInv
<1>3. SettingsInv /\ [SettingsNext]_settingsVars
        => [\A n \in Server : Agreed(n) /\ edits' = edits => Agreed(n)']_settingsVars
  BY NextAgreed
<1> QED
  BY <1>1, <1>2, <1>3, PTL

=============================================================================
