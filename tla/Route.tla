--------------------------------- MODULE Route ---------------------------------
(***************************************************************************)
(* The cells of a task's route and the place of a robot on it:             *)
(* _route_cells_ordered, _partition_segments and _current_segment_index of *)
(* fleet_manager_node.py.  FleetManager takes the segments as given; this  *)
(* module says what they are, while a robot drives along the route.        *)
(*                                                                         *)
(* Coordinates are in the unit that divides a cell into CellSize parts.    *)
(***************************************************************************)
EXTENDS Integers, Sequences, FiniteSets, FiniteSetsExt, SequencesExt

CONSTANTS
  CellSize,     \* cell_size
  SegmentSize,  \* segment_size
  Coordinate,   \* coordinates of the pickups and dropoffs that are tried
  Origin        \* pickups that are tried

ASSUME RouteAssumption ==
  /\ CellSize \in Nat \ {0} /\ SegmentSize \in Nat \ {0}
  /\ Coordinate \subseteq Int /\ Origin \subseteq Int \X Int

VARIABLES
  way,            \* the pickup and the dropoff
  steps,          \* steps of _route_cells_ordered
  sampled,        \* the number of points of the way sampled so far
  route,          \* the cells they are in: route_ordered
  at,             \* the sampled point of the way at which the robot is
  segment_index   \* segment_index of the reservation, counted from 1

routeVars == <<way, steps, sampled, route, at, segment_index>>

-----------------------------------------------------------------------------
Square(n) == n * n

Distance2 == Square(way[2][1] - way[1][1]) + Square(way[2][2] - way[1][2])

(* max(1, math.ceil(dist / (cell / 2))) is the one such n.                 *)
IsSteps(n) ==
  /\ Square(n * CellSize) >= 4 * Distance2
  /\ n > 1 => Square((n - 1) * CellSize) < 4 * Distance2

(* The i-th sampled point of the way, steps times as large.                *)
Point(i) ==
  <<way[1][1] * steps + (way[2][1] - way[1][1]) * i,
    way[1][2] * steps + (way[2][2] - way[1][2]) * i>>

(* math.floor(x / cell) of a point, the cell it is in, and int(x / cell),  *)
(* which rounds towards 0.                                                 *)
Floored(n) == n \div (CellSize * steps)
Truncated(n) == IF n >= 0 THEN Floored(n) ELSE -Floored(-n)

Floor(p) == <<Floored(p[1]), Floored(p[2])>>

(* One turn of the loop of _route_cells_ordered: the cells of the sampled  *)
(* points in their order, but not a cell twice in a row.                   *)
Extended(cells, cell) ==
  IF cells # <<>> /\ Last(cells) = cell THEN cells ELSE Append(cells, cell)

(* Mutant: every fourth sample only.                                       *)
SampleCoarsely ==
  /\ sampled <= steps
  /\ route' = Extended(route, Floor(Point(sampled)))
  /\ sampled' = IF sampled < steps - 4 THEN sampled + 4
                ELSE IF sampled < steps THEN steps ELSE steps + 1
  /\ UNCHANGED <<way, steps, at, segment_index>>

Sample ==
  /\ sampled <= steps
  /\ route' = Extended(route, Floor(Point(sampled)))
  /\ sampled' = sampled + 1
  /\ UNCHANGED <<way, steps, at, segment_index>>

(* _partition_segments: the segment of the n-th cell of a route.           *)
SegmentOf(n) == 1 + ((n - 1) \div SegmentSize)

(* The segments that a cell is in.                                         *)
SegmentsWith(cell) == {SegmentOf(n) : n \in {m \in DOMAIN route : route[m] = cell}}

(* Mutant: the segment that follows in the direction of travel.            *)
CurrentSegmentAhead(p, index) ==
  Max({index} \cup {1 + (n \div SegmentSize) :
         n \in {m \in DOMAIN route : route[m] = <<Truncated(p[1]), Truncated(p[2])>>}})

(* _current_segment_index of a pose.                                       *)
CurrentSegment(p, index) ==
  Max({index} \cup SegmentsWith(<<Truncated(p[1]), Truncated(p[2])>>))

-----------------------------------------------------------------------------
RouteInit ==
  /\ way \in Origin \X (Coordinate \X Coordinate)
  /\ steps \in {n \in 1..(1 + 4 * Distance2) : IsSteps(n)}
  /\ sampled = 0 /\ route = <<>>
  /\ at = 0 /\ segment_index = 1

(* The robot drives on and _check_traffic locates it.                      *)
Drive ==
  /\ sampled > steps
  /\ at < steps /\ at' = at + 1
  /\ segment_index' = CurrentSegment(Point(at'), segment_index)
  /\ UNCHANGED <<way, steps, sampled, route>>

RouteNext == Sample \/ Drive

-----------------------------------------------------------------------------
(* The cells of a route touch one another from that of the pickup to that  *)
(* of the dropoff and none comes twice, so that the segments part the way  *)
(* into stretches and no robot gets past reserved cells unseen.            *)
Touches(c, d) == {c[1] - d[1], c[2] - d[2]} \subseteq {-1, 0, 1}

RouteIsUnbroken ==
  sampled > steps =>
    /\ route[1] = Floor(Point(0)) /\ route[Len(route)] = Floor(Point(steps))
    /\ \A n \in 1..(Len(route) - 1) : Touches(route[n], route[n + 1])
    /\ IsInjective(route)

(* _current_segment_index is the "segment the robot currently occupies,    *)
(* based on its reported pose": on its way the robot is in a cell of the   *)
(* segment it is taken to be in.  Below zero int() is another cell than    *)
(* floor(), and this does not hold.                                        *)
OccupiesItsSegment ==
  at > 0 /\ (\A site \in {way[1], way[2]} : site \in Nat \X Nat) =>
    segment_index \in SegmentsWith(Floor(Point(at)))
=============================================================================
