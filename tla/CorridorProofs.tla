---------------------------- MODULE CorridorProofs ----------------------------
(***************************************************************************)
(* StopsInTime for every speed, distance and period that CorridorAssumption*)
(* admits.                                                                 *)
(***************************************************************************)
EXTENDS Corridor, TLAPS

CorridorSpec == CorridorInit /\ [][CorridorNext]_corridorVars

Typed ==
  /\ pos \in Int /\ obstacle \in Int \cup {Clear}
  /\ last_linear \in Int /\ last_cmd \in Int /\ lin \in Int
  /\ blocked \in BOOLEAN /\ lidar \in BOOLEAN
  /\ ticks \in [control: 0..Ticks, forward: 0..Ticks]
  /\ lin <= MaxSpeed

(* The cells a robot at full speed covers before the monitor runs again.   *)
Room(forward) == MaxSpeed * (Ticks - forward)

(* What the monitor knows is still true, and a robot that moves has the    *)
(* room to do so until the monitor runs again.                             *)
Watched ==
  /\ lidar /\ blocked => scan = "fresh"
  /\ lidar /\ ~blocked /\ obstacle # Clear => obstacle - pos >= StopDistance
  /\ lidar /\ obstacle # Clear /\ lin > 0 => obstacle - pos > Room(ticks.forward)

CorridorInv == Typed /\ Watched /\ StopsInTime

(* The room of n ticks is the room of one tick less and one step.          *)
LEMMA RoomShrinks ==
  ASSUME NEW f \in 0..Ticks
  PROVE  /\ Room(f) \in Int
         /\ Room(f) = Room(f + 1) + MaxSpeed
         /\ Room(f) <= MaxSpeed * Ticks
         /\ f < Ticks => Room(f + 1) >= 0
<1>1. MaxSpeed \in Nat /\ Ticks \in Nat
  BY CorridorAssumption
<1>2. \A m, a \in Nat : m * a >= 0 /\ m * a \in Int
  OBVIOUS
<1>3. \A m, a, b \in Int : m * (a - (b + 1)) = m * (a - b) - m
  OBVIOUS
<1>4. \A m, a, b \in Nat : m * (a - b) = m * a - m * b
  OBVIOUS
<1>5. f < Ticks => Ticks - (f + 1) \in Nat
  BY <1>1
<1> QED
  BY <1>1, <1>2, <1>3, <1>4, <1>5 DEF Room

(* An obstacle farther than the stop distance leaves more room than less.  *)
LEMMA RoomAhead ==
  ASSUME NEW cell \in Int, NEW from \in Int, NEW stop \in Int, NEW room \in Int,
         cell - from >= stop, stop > room, stop > 0
  PROVE  cell - from > room /\ from < cell
OBVIOUS

(* The speed that the controller aims at is a number of cells.             *)
LEMMA DesiredIsInt ==
  ASSUME pos \in Int
  PROVE  Desired \in Int
<1>1. LinearSpeed \in Nat /\ Goal \in Nat /\ Lookahead \in Nat \ {0}
  BY CorridorAssumption
<1>2. \A a \in Int, b \in Nat \ {0} : a \div b \in Int
  OBVIOUS
<1>3. \A a, b \in Int : a * b \in Int
  OBVIOUS
<1>4. Goal - pos \in Int /\ 2 * Lookahead \in Nat \ {0}
  BY <1>1
<1>5. (LinearSpeed * (Goal - pos)) \div (2 * Lookahead) \in Int
  BY <1>1, <1>2, <1>3, <1>4
<1> QED
  BY <1>1, <1>5 DEF Desired, Upper

(* The initial states satisfy the invariant.                               *)
LEMMA CorridorInitial == CorridorInit => CorridorInv
<1> SUFFICES ASSUME CorridorInit
             PROVE  CorridorInv
  OBVIOUS
<1>1. MaxSpeed \in Nat /\ Ticks \in Nat
  BY CorridorAssumption
<1>2. ticks \in [control: 0..Ticks, forward: 0..Ticks]
  BY <1>1 DEF CorridorInit
<1>3. /\ pos = 0 /\ last_linear = 0 /\ last_cmd = 0 /\ lin = 0
      /\ obstacle = Clear /\ ~blocked /\ blocked \in BOOLEAN /\ lidar \in BOOLEAN
  BY DEF CorridorInit
<1>4. Typed
  BY <1>1, <1>2, <1>3 DEF Typed
<1> QED
  BY <1>3, <1>4, Zenon DEF CorridorInv, Watched, StopsInTime

(* Every step keeps the invariant.                                         *)
LEMMA CorridorStep == CorridorInv /\ [CorridorNext]_corridorVars => CorridorInv'
<1> SUFFICES ASSUME CorridorInv, [CorridorNext]_corridorVars
             PROVE  CorridorInv'
  OBVIOUS
<1>0. /\ MaxSpeed \in Nat /\ Ticks \in Nat \ {0} /\ StopDistance \in Nat
      /\ LinearSpeed \in Nat /\ Lookahead \in Nat /\ Goal \in Nat
      /\ Bound \in Nat /\ StopDistance > MaxSpeed * Ticks /\ Clear \notin Int
  BY CorridorAssumption
<1>1. CASE Control
  <2>0. Desired \in Int
    BY DesiredIsInt DEF CorridorInv, Typed
  <2>1. last_linear' \in Int /\ last_cmd' \in Int
    BY <1>0, <1>1, <2>0 DEF Control, CorridorInv, Typed, RateLimit, Lower, Upper
  <2>2. UNCHANGED <<pos, obstacle, lin, blocked, scan, lidar>>
        /\ ticks' = [ticks EXCEPT !.control = 0]
    BY <1>1 DEF Control
  <2> QED
    BY <1>0, <2>1, <2>2 DEF CorridorInv, Typed, Watched, StopsInTime
<1>2. CASE Plan
  BY <1>2 DEF Plan, CorridorInv, Typed, Watched, StopsInTime
<1>3. CASE Forward
  <2>1. /\ UNCHANGED <<pos, obstacle, last_linear, last_cmd, blocked, scan, lidar>>
        /\ ticks' = [ticks EXCEPT !.forward = 0]
        /\ lin' = Lower(Safe, MaxSpeed)
    BY <1>3 DEF Forward
  <2>2. Safe \in Int
    BY DEF Safe, CorridorInv, Typed
  <2>3. lin' \in Int /\ lin' <= MaxSpeed
    BY <1>0, <2>1, <2>2 DEF Lower
  <2>4. Typed'
    BY <1>0, <2>1, <2>3 DEF CorridorInv, Typed
  <2>5. ASSUME lidar, obstacle # Clear, lin' > 0
        PROVE  obstacle - pos > Room(0)
    <3>1. ~blocked
      BY <1>0, <2>1, <2>5 DEF Lower, Safe, CorridorInv, Watched
    <3>2. obstacle - pos >= StopDistance
      BY <2>5, <3>1 DEF CorridorInv, Watched
    <3>3. Room(0) <= MaxSpeed * Ticks /\ Room(0) \in Int
      BY <1>0, RoomShrinks
    <3> QED
      BY <1>0, <2>5, <3>2, <3>3 DEF CorridorInv, Typed
  <2>6. ticks'.forward = 0
    BY <2>1 DEF CorridorInv, Typed
  <2> QED
    BY <2>1, <2>4, <2>5, <2>6 DEF CorridorInv, Watched, StopsInTime
<1>4. CASE ScanTimeout
  BY <1>4 DEF ScanTimeout, CorridorInv, Typed, Watched, StopsInTime
<1>5. CASE World
  <2>1. /\ UNCHANGED <<obstacle, last_linear, last_cmd, lin, lidar>>
        /\ pos' = Lower(pos + lin, Bound)
        /\ ticks.control < Ticks /\ ticks.forward < Ticks
        /\ ticks' = [control |-> ticks.control + 1, forward |-> ticks.forward + 1]
    BY <1>5 DEF World
  <2>2. lidar => blocked' = Near(pos') /\ scan' = "fresh"
    BY <1>5 DEF World
  <2>3. ~lidar => blocked' = blocked
    BY <1>5 DEF World
  <2>4. pos' \in Int /\ pos' <= pos + lin
    BY <1>0, <2>1 DEF Lower, CorridorInv, Typed
  <2>5. ticks.forward \in 0..Ticks /\ ticks'.forward = ticks.forward + 1
        /\ ticks' \in [control: 0..Ticks, forward: 0..Ticks]
    BY <1>0, <2>1 DEF CorridorInv, Typed
  <2>6. Near(pos') \in BOOLEAN
    BY DEF Near
  <2>7. Typed'
    BY <2>1, <2>2, <2>3, <2>4, <2>5, <2>6 DEF CorridorInv, Typed
  <2>8. /\ Room(ticks.forward) = Room(ticks.forward + 1) + MaxSpeed
        /\ Room(ticks.forward + 1) >= 0
        /\ Room(ticks.forward) \in Int
    BY <2>1, <2>5, RoomShrinks
  <2>9. Room(ticks.forward + 1) = Room(ticks.forward) - MaxSpeed
        /\ Room(ticks.forward + 1) \in Int
    BY <1>0, <2>5, <2>8 DEF Room
  <2>10. ASSUME lidar, obstacle # Clear, lin > 0
         PROVE  obstacle - pos' > Room(ticks.forward + 1) /\ pos' < obstacle
    <3>1. obstacle - pos > Room(ticks.forward) /\ obstacle \in Int
      BY <2>10 DEF CorridorInv, Typed, Watched
    <3>2. lin \in Int /\ lin <= MaxSpeed /\ pos \in Int
      BY DEF CorridorInv, Typed
    <3> QED
      BY <1>0, <2>4, <2>8, <2>9, <3>1, <3>2
  <2>11. ASSUME lidar, obstacle # Clear, ~(lin > 0)
         PROVE  pos' < obstacle
    BY <2>4, <2>11 DEF CorridorInv, Typed, StopsInTime
  <2>12. ASSUME lidar, obstacle # Clear, ~blocked'
         PROVE  obstacle - pos' >= StopDistance
    <3>1. ~(obstacle - pos' < StopDistance)
      BY <2>2, <2>12 DEF Near
    <3>2. obstacle \in Int /\ StopDistance \in Int /\ pos' \in Int
      BY <1>0, <2>4, <2>12 DEF CorridorInv, Typed
    <3>3. \A a, b, c \in Int : ~(a - b < c) => a - b >= c
      OBVIOUS
    <3> QED
      BY <3>1, <3>2, <3>3
  <2> QED
    BY <2>1, <2>2, <2>5, <2>7, <2>10, <2>11, <2>12 DEF CorridorInv, Watched, StopsInTime
<1>6. CASE Appear
  <2>1. /\ UNCHANGED <<pos, last_linear, last_cmd, lin, blocked, scan, lidar, ticks>>
        /\ obstacle' \in Int /\ obstacle' - pos >= StopDistance
    BY <1>0, <1>6 DEF Appear, CorridorInv, Typed
  <2>2. Room(ticks.forward) <= MaxSpeed * Ticks /\ Room(ticks.forward) \in Int
    BY RoomShrinks DEF CorridorInv, Typed
  <2>3. MaxSpeed * Ticks \in Nat
    BY <1>0
  <2>4. obstacle' - pos > Room(ticks.forward) /\ pos < obstacle'
    <3>1. StopDistance > Room(ticks.forward) /\ StopDistance > 0
      BY <1>0, <2>2, <2>3
    <3>2. /\ obstacle' \in Int /\ pos \in Int /\ StopDistance \in Int
          /\ Room(ticks.forward) \in Int /\ obstacle' - pos >= StopDistance
      <4>1. pos \in Int
        BY DEF CorridorInv, Typed
      <4>2. StopDistance \in Int
        BY <1>0
      <4> QED
        BY <2>1, <2>2, <4>1, <4>2, Zenon
    <3> QED
      BY <3>1, <3>2, RoomAhead
  <2> QED
    BY <2>1, <2>4 DEF CorridorInv, Typed, Watched, StopsInTime
<1>7. CASE Vanish
  BY <1>7 DEF Vanish, CorridorInv, Typed, Watched, StopsInTime
<1>8. CASE LoseLidar
  BY <1>8 DEF LoseLidar, CorridorInv, Typed, Watched, StopsInTime
<1>9. CASE UNCHANGED corridorVars
  BY <1>9 DEF corridorVars, CorridorInv, Typed, Watched, StopsInTime
<1> QED
  BY <1>1, <1>2, <1>3, <1>4, <1>5, <1>6, <1>7, <1>8, <1>9 DEF CorridorNext

(* With a working lidar the robot comes to a stand before every obstacle   *)
(* (_forward_cmd, _check_obstacle), whatever the speed, the distance at    *)
(* which the monitor stops it and the periods of the timers.               *)
THEOREM CorridorStops == CorridorSpec => []StopsInTime
<1>1. CorridorInv => StopsInTime
  BY DEF CorridorInv
<1> QED
  BY <1>1, CorridorInitial, CorridorStep, PTL DEF CorridorSpec
=============================================================================
