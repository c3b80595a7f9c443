-------------------------------- MODULE Planner --------------------------------
(***************************************************************************)
(* The search of planner_node.py: A* over the cells of a map, with eight   *)
(* neighbours, a clearance around obstacles, and a start and a goal that   *)
(* are moved to a drivable cell.  One step is one turn of the search loop. *)
(*                                                                         *)
(* Lengths are in thousandths of a cell.  A step is rounded up and the     *)
(* heuristic down, so that it falls by no more than a step, as in the code.*)
(***************************************************************************)
EXTENDS Integers, Sequences, FiniteSets, FiniteSetsExt, SequencesExt

CONSTANTS
  Width, Height,  \* the size of the map
  Sites,          \* cells that have an obstacle on some map
  NoCell          \* no predecessor, or no drivable cell

ASSUME PlannerAssumption ==
  /\ {Width, Height} \subseteq Nat \ {0}
  /\ NoCell \notin Int \X Int

VARIABLES
  map,        \* the obstacles of the map
  inflation,  \* inflation_radius_cells
  asked,      \* the start and the goal asked for
  goal,       \* the goal after _compute_path moved it
  open_set,   \* the heap, as the set of its entries
  came_from,  \* the predecessors
  g_score,    \* the lengths of the ways found
  result      \* "searching", "none", or "found"

plannerVars == <<map, inflation, asked, goal, open_set, came_from, g_score, result>>

Cells == (0..Width - 1) \X (0..Height - 1)

-----------------------------------------------------------------------------
(* Cells within r of a cell in both coordinates, in the map or not.        *)
Around(c, r) == ((c[1] - r)..(c[1] + r)) \X ((c[2] - r)..(c[2] + r))

IsObstacle(c) == c \notin Cells \/ c \in map

(* _in_bounds, _is_obstacle and _near_obstacle of a cell.                  *)
Drivable(c) == \A near \in Around(c, inflation) : ~IsObstacle(near)

(* _nearest_free takes the drivable cell of the first ring that has one,   *)
(* and of that ring the first column and then the first row.               *)
Snap(c) ==
  IF Drivable(c) THEN c ELSE
  LET Ring(r) == {d \in Around(c, r) : Drivable(d)}
      rings == {r \in 1..(Max({Width, Height}) - 1) : Ring(r) # {}}
  IN  IF rings = {} THEN NoCell
      ELSE CHOOSE d \in Ring(Min(rings)) : \A e \in Ring(Min(rings)) :
             d[1] < e[1] \/ (d[1] = e[1] /\ d[2] <= e[2])

Neighbours(c) == {d \in Around(c, 1) \ {c} : Drivable(d)}
Step(c, d) == IF c[1] # d[1] /\ c[2] # d[2] THEN 1415 ELSE 1000

(* The square of the distance to the goal, and _heuristic, its root.       *)
Squared(c) ==
  LET x == 1000 * (c[1] - goal[1])
      y == 1000 * (c[2] - goal[2])
  IN  x * x + y * y

Heuristic(c) ==
  CHOOSE root \in 0..(1000 * (Width + Height)) :
    root * root <= Squared(c) /\ Squared(c) < (root + 1) * (root + 1)

-----------------------------------------------------------------------------
(* heapq.heappop: the least entry <<f, -g, i, j>>.                         *)
Before(x, y) ==
  \E i \in 1..4 : x[i] < y[i] /\ \A j \in 1..(i - 1) : x[j] = y[j]
Popped(x) == \A y \in open_set : x = y \/ Before(x, y)

Start(s, g) ==
  /\ asked' = <<s, g>> /\ goal' = Snap(g)
  /\ IF NoCell \in {Snap(s), Snap(g)}
     THEN /\ result' = "none" /\ open_set' = {}
          /\ came_from' = <<>> /\ g_score' = <<>>
     ELSE /\ result' = "searching"
          /\ open_set' = {<<0, 0, Snap(s)[1], Snap(s)[2]>>}
          /\ came_from' = [c \in {Snap(s)} |-> NoCell]
          /\ g_score' = [c \in {Snap(s)} |-> 0]
  /\ UNCHANGED <<map, inflation>>

(* Mutant: a cell is never reached a second time.                          *)
ImprovedOnce(c) == {d \in Neighbours(c) : d \notin DOMAIN g_score}

(* The neighbours that a way over c is shorter to.                         *)
Improved(c) ==
  {d \in Neighbours(c) :
     d \in DOMAIN g_score => g_score[c] + Step(c, d) < g_score[d]}

(* A turn in which the entry x of the cell c is popped: one that leaves    *)
(* the goal ahead, or the last one.                                        *)
ExpandCell(x, c) ==
  LET better == Improved(c)
      g == [d \in better |-> g_score[c] + Step(c, d)]
  IN  /\ g_score' = [d \in DOMAIN g_score \cup better |->
                       IF d \in better THEN g[d] ELSE g_score[d]]
      /\ came_from' = [d \in DOMAIN came_from \cup better |->
                         IF d \in better THEN c ELSE came_from[d]]
      /\ open_set' = (open_set \ {x})
           \cup {<<g[d] + Heuristic(d), -g[d], d[1], d[2]>> : d \in better}

Expand ==
  /\ result = "searching"
  /\ \E x \in open_set :
       /\ Popped(x) /\ <<x[3], x[4]>> # goal
       /\ ExpandCell(x, <<x[3], x[4]>>)
  /\ UNCHANGED <<map, inflation, asked, goal, result>>

Finish ==
  /\ result = "searching"
  /\ \/ open_set = {} /\ result' = "none"
     \/ (\E x \in open_set : Popped(x) /\ <<x[3], x[4]>> = goal) /\ result' = "found"
  /\ UNCHANGED <<map, inflation, asked, goal, open_set, came_from, g_score>>

-----------------------------------------------------------------------------
(* No plan has been asked for.                                             *)
PlannerInit ==
  /\ map \in SUBSET Sites
  /\ inflation \in {0, 1} /\ asked = <<>> /\ goal = NoCell /\ result = "none"
  /\ open_set = {} /\ came_from = <<>> /\ g_score = <<>>

PlannerNext ==
  \/ asked = <<>> /\ \E s, g \in Cells \cup {<<Width, 0>>} : Start(s, g)
  \/ Expand \/ Finish

-----------------------------------------------------------------------------
(* Reference: the lengths of the shortest ways from the start, by relaxing *)
(* every cell as often as a way can have steps.  (The comparison only has  *)
(* TLC evaluate the lengths of one turn before those of the next.)         *)
Infinite == 2000 * Width * Height

Relaxed(length) ==
  LET turn == [c \in Cells |-> IF ~Drivable(c) THEN length[c] ELSE
                 Min({length[c]} \cup {length[d] + Step(c, d) : d \in Neighbours(c)})]
  IN  IF turn = length THEN length ELSE turn

LengthsAfter[n \in 0..Cardinality(Cells)] ==
  IF n = 0 THEN [c \in Cells |-> IF c = Snap(asked[1]) THEN 0 ELSE Infinite]
  ELSE Relaxed(LengthsAfter[n - 1])

Shortest == LengthsAfter[Cardinality(Cells)]

(* _reconstruct_path follows came_from from a cell: each step is between   *)
(* neighbouring drivable cells and comes nearer to the start.              *)
WaysAreDrivable ==
  \A c \in DOMAIN came_from \ {Snap(asked[1])} :
    /\ c \in Neighbours(came_from[c]) /\ came_from[c] \in DOMAIN came_from
    /\ g_score[c] >= g_score[came_from[c]] + Step(c, came_from[c])

(* A way that the search returns leads from the start over neighbouring    *)
(* drivable cells to the goal and is as short as any; and when there is    *)
(* one, one is found (_compute_path, _reconstruct_path).                   *)
PathIsShortest ==
  asked # <<>> /\ result # "searching" =>
    IF NoCell \in {Snap(asked[1]), Snap(asked[2])} THEN result = "none"
    ELSE IF Shortest[goal] >= Infinite THEN result = "none"
    ELSE result = "found" /\ g_score[goal] = Shortest[goal] /\ WaysAreDrivable
=============================================================================
