------------------------------ MODULE RouteProofs ------------------------------
(***************************************************************************)
(* RouteIsUnbroken and OccupiesItsSegment for any pickups and dropoffs and *)
(* any sizes of cells and segments.                                        *)
(***************************************************************************)
EXTENDS Route, TLAPS

RouteSpec == RouteInit /\ [][RouteNext]_routeVars

Cell == Int \X Int

-----------------------------------------------------------------------------
(* Numbers.                                                                *)
LEMMA TimesKeepsOrder ==
  ASSUME NEW k \in Nat, NEW a \in Int, NEW b \in Int, a <= b
  PROVE  k * a <= k * b
OBVIOUS

LEMMA Division ==
  ASSUME NEW k \in Nat \ {0}, NEW n \in Int
  PROVE  /\ n \div k \in Int
         /\ k * (n \div k) <= n /\ n < k * (n \div k) + k
OBVIOUS

LEMMA DivisionIsMonotone ==
  ASSUME NEW k \in Nat \ {0}, NEW m \in Int, NEW n \in Int, m <= n
  PROVE  m \div k <= n \div k
<1> DEFINE p == m \div k
           q == n \div k
<1>1. /\ p \in Int /\ k * p <= m
      /\ q \in Int /\ n < k * q + k
  BY Division
<1> HIDE DEF p, q
<1> SUFFICES ASSUME q + 1 <= p PROVE FALSE
  BY <1>1 DEF p, q
<1>2. k * (q + 1) <= k * p
  BY <1>1, TimesKeepsOrder
<1>3. k * (q + 1) = k * q + k
  BY <1>1
<1>4. k * p \in Int /\ k * q \in Int
  BY <1>1
<1> QED
  BY <1>1, <1>2, <1>3, <1>4

LEMMA DivisionOfNear ==
  ASSUME NEW k \in Nat \ {0}, NEW m \in Int, NEW n \in Int, m <= n, n <= m + k
  PROVE  n \div k <= m \div k + 1
<1> DEFINE p == m \div k
           q == n \div k
<1>1. /\ p \in Int /\ m < k * p + k
      /\ q \in Int /\ k * q <= n
  BY Division
<1> HIDE DEF p, q
<1> SUFFICES ASSUME p + 2 <= q PROVE FALSE
  BY <1>1 DEF p, q
<1>2. k * (p + 2) <= k * q
  BY <1>1, TimesKeepsOrder
<1>3. k * (p + 2) = k * p + k + k
  BY <1>1
<1>4. k * p \in Int /\ k * q \in Int
  BY <1>1
<1> QED
  BY <1>1, <1>2, <1>3, <1>4

LEMMA SquareIsNatural ==
  ASSUME NEW n \in Int PROVE Square(n) \in Nat
BY DEF Square

LEMMA SquareKeepsOrder ==
  ASSUME NEW x \in Nat, NEW d \in Int, Square(x) >= 4 * Square(d)
  PROVE  -x <= d /\ d <= x
<1>1. ASSUME NEW y \in Nat, Square(x) >= Square(y) PROVE y <= x
  <2> SUFFICES ASSUME x + 1 <= y PROVE FALSE
    OBVIOUS
  <2>1. y * (x + 1) <= y * y
    BY TimesKeepsOrder
  <2>2. (x + 1) * (x + 1) <= (x + 1) * y
    BY TimesKeepsOrder
  <2>3. /\ (x + 1) * (x + 1) = x * x + x + x + 1 /\ (x + 1) * y = y * (x + 1)
        /\ x * x \in Nat /\ y * y \in Nat /\ y * (x + 1) \in Nat
    OBVIOUS
  <2>4. y * y <= x * x
    BY <1>1 DEF Square
  <2> QED
    BY <2>1, <2>2, <2>3, <2>4
<1>2. Square(d) \in Nat /\ Square(-d) = Square(d) /\ Square(x) \in Nat
  BY SquareIsNatural DEF Square
<1>3. Square(x) >= Square(d)
  BY <1>2
<1>4. CASE d >= 0
  BY <1>1, <1>3, <1>4
<1>5. CASE d < 0
  BY <1>1, <1>2, <1>3, <1>5
<1> QED
  BY <1>4, <1>5

-----------------------------------------------------------------------------
(* One coordinate of the sampled points goes from a to b in n parts, which *)
(* are no longer than a cell.                                              *)
LEMMA AlongAxis ==
  ASSUME NEW a \in Int, NEW b \in Int, NEW n \in Nat \ {0}, NEW i \in 0..(n - 1),
         Square(n * CellSize) >= 4 * Square(b - a)
  PROVE  LET x == (a * n + (b - a) * i) \div (CellSize * n)
             y == (a * n + (b - a) * (i + 1)) \div (CellSize * n)
         IN  /\ x \in Int /\ y \in Int
             /\ x - y \in {-1, 0, 1}
             /\ b >= a => x <= y
             /\ b <= a => y <= x
<1> DEFINE k == CellSize * n
           p == a * n + (b - a) * i
           q == a * n + (b - a) * (i + 1)
           x == p \div k
           y == q \div k
<1>1. k \in Nat \ {0} /\ k = n * CellSize
  BY RouteAssumption
<1>2. p \in Int /\ q \in Int /\ q = p + (b - a)
  <2>1. (b - a) * (i + 1) = (b - a) * i + (b - a) /\ (b - a) * i \in Int /\ a * n \in Int
    OBVIOUS
  <2> QED
    BY <2>1
<1>3. -k <= b - a /\ b - a <= k
  BY <1>1, SquareKeepsOrder
<1> HIDE DEF k, p, q
<1>4. x \in Int /\ y \in Int
  BY <1>1, <1>2, Division
<1>5. CASE b >= a
  <2>1. p <= q /\ q <= p + k
    BY <1>1, <1>2, <1>3, <1>5
  <2>2. x <= y
    BY <1>1, <1>2, <2>1, DivisionIsMonotone
  <2>3. y <= x + 1
    BY <1>1, <1>2, <2>1, DivisionOfNear
  <2>4. b <= a => p = q
    BY <1>2, <1>5
  <2> QED
    BY <1>4, <2>2, <2>3, <2>4 DEF k, p, q
<1>6. CASE b < a
  <2>1. q <= p /\ p <= q + k
    BY <1>1, <1>2, <1>3, <1>6
  <2>2. y <= x
    BY <1>1, <1>2, <2>1, DivisionIsMonotone
  <2>3. x <= y + 1
    BY <1>1, <1>2, <2>1, DivisionOfNear
  <2> QED
    BY <1>4, <1>6, <2>2, <2>3 DEF k, p, q
<1> QED
  BY <1>5, <1>6

-----------------------------------------------------------------------------
(* The way, and the order of cells along it.                               *)
WayInv ==
  /\ way \in Cell \X Cell
  /\ steps \in Nat \ {0} /\ Square(steps * CellSize) >= 4 * Distance2

Along(a, b, x, y) == (b >= a => x <= y) /\ (b <= a => y <= x)

Ahead(c, d) ==
  /\ Along(way[1][1], way[2][1], c[1], d[1])
  /\ Along(way[1][2], way[2][2], c[2], d[2])

LEMMA AheadIsAnOrder ==
  ASSUME WayInv, NEW c \in Cell, NEW d \in Cell, NEW e \in Cell
  PROVE  /\ Ahead(c, c)
         /\ Ahead(c, d) /\ Ahead(d, c) => c = d
         /\ Ahead(c, d) /\ Ahead(d, e) => Ahead(c, e)
<1>1. /\ way[1][1] \in Int /\ way[1][2] \in Int /\ way[2][1] \in Int /\ way[2][2] \in Int
      /\ c[1] \in Int /\ c[2] \in Int /\ d[1] \in Int /\ d[2] \in Int
      /\ e[1] \in Int /\ e[2] \in Int
      /\ c = <<c[1], c[2]>> /\ d = <<d[1], d[2]>>
  BY DEF WayInv, Cell
<1> QED
  BY <1>1 DEF Ahead, Along

LEMMA NextPoint ==
  ASSUME WayInv, NEW i \in 0..(steps - 1)
  PROVE  /\ Floor(Point(i)) \in Cell /\ Floor(Point(i + 1)) \in Cell
         /\ Ahead(Floor(Point(i)), Floor(Point(i + 1)))
         /\ Touches(Floor(Point(i)), Floor(Point(i + 1)))
<1>1. /\ way[1][1] \in Int /\ way[1][2] \in Int /\ way[2][1] \in Int /\ way[2][2] \in Int
      /\ steps \in Nat \ {0}
  BY DEF WayInv, Cell
<1>2. /\ Square(way[2][1] - way[1][1]) \in Nat /\ Square(way[2][2] - way[1][2]) \in Nat
  BY <1>1, SquareIsNatural
<1>3. Square(steps * CellSize) \in Int
  BY <1>1, RouteAssumption, SquareIsNatural
<1>4. /\ Square(steps * CellSize) >= 4 * Square(way[2][1] - way[1][1])
      /\ Square(steps * CellSize) >= 4 * Square(way[2][2] - way[1][2])
  BY <1>2, <1>3 DEF WayInv, Distance2
<1> DEFINE c == Floor(Point(i))
           d == Floor(Point(i + 1))
<1>5. /\ c[1] = (way[1][1] * steps + (way[2][1] - way[1][1]) * i) \div (CellSize * steps)
      /\ c[2] = (way[1][2] * steps + (way[2][2] - way[1][2]) * i) \div (CellSize * steps)
      /\ d[1] = (way[1][1] * steps + (way[2][1] - way[1][1]) * (i + 1)) \div (CellSize * steps)
      /\ d[2] = (way[1][2] * steps + (way[2][2] - way[1][2]) * (i + 1)) \div (CellSize * steps)
      /\ c = <<c[1], c[2]>> /\ d = <<d[1], d[2]>>
  BY DEF Floor, Floored, Point
<1>6. /\ c[1] \in Int /\ d[1] \in Int /\ c[1] - d[1] \in {-1, 0, 1}
      /\ Along(way[1][1], way[2][1], c[1], d[1])
  BY <1>1, <1>4, <1>5, AlongAxis DEF Along
<1>7. /\ c[2] \in Int /\ d[2] \in Int /\ c[2] - d[2] \in {-1, 0, 1}
      /\ Along(way[1][2], way[2][2], c[2], d[2])
  BY <1>1, <1>4, <1>5, AlongAxis DEF Along
<1> QED
  BY <1>5, <1>6, <1>7 DEF Ahead, Touches, Cell

LEMMA PointCell ==
  ASSUME WayInv, NEW i \in 0..steps PROVE Floor(Point(i)) \in Cell
<1>1. steps \in Nat \ {0}
  BY DEF WayInv
<1>2. CASE i < steps
  BY <1>1, <1>2, NextPoint
<1>3. CASE i = steps
  <2>1. steps - 1 \in 0..(steps - 1) /\ (steps - 1) + 1 = i
    BY <1>1, <1>3
  <2> QED
    BY <2>1, NextPoint
<1> QED
  BY <1>1, <1>2, <1>3

-----------------------------------------------------------------------------
(* The cells sampled so far: they go along the way, each touches the one   *)
(* before it, and every sampled point is in one of them.                   *)
SampledInv ==
  /\ sampled \in 0..(steps + 1)
  /\ route \in Seq(Cell)
  /\ sampled = 0 <=> route = <<>>
  /\ sampled > 0 => /\ route[1] = Floor(Point(0))
                    /\ route[Len(route)] = Floor(Point(sampled - 1))
  /\ \A n \in 1..(Len(route) - 1) : Touches(route[n], route[n + 1])
  /\ \A m, n \in 1..Len(route) : m < n => route[m] # route[n] /\ Ahead(route[m], route[n])
  /\ \A i \in 0..(sampled - 1) : \E n \in 1..Len(route) : route[n] = Floor(Point(i))

LEMMA SampleKeeps ==
  ASSUME WayInv, SampledInv, Sample PROVE WayInv' /\ SampledInv'
<1> DEFINE cell == Floor(Point(sampled))
           n == Len(route)
<1>1. /\ sampled \in 0..steps /\ sampled' = sampled + 1 /\ steps \in Nat \ {0}
      /\ route' = Extended(route, cell) /\ way' = way /\ steps' = steps
  BY DEF Sample, SampledInv, WayInv
<1>2. /\ cell \in Cell /\ n \in Nat
      /\ \A i \in 1..n : route[i] \in Cell
      /\ n = 0 <=> route = <<>>
  BY <1>1, PointCell DEF SampledInv
<1>3. /\ \A i : Floor(Point(i))' = Floor(Point(i))
      /\ \A c, d : Ahead(c, d)' = Ahead(c, d)
  BY <1>1 DEF Floor, Floored, Point, Ahead
<1>4. WayInv'
  BY <1>1 DEF WayInv, Distance2
<1> HIDE DEF cell
<1>5. CASE sampled = 0
  <2>1. route' = <<cell>> /\ sampled' = 1
    BY <1>1, <1>5 DEF SampledInv, Extended
  <2>2. cell = Floor(Point(0))
    BY <1>5 DEF cell
  <2>3. Len(route') = 1 /\ route'[1] = cell /\ route' \in Seq(Cell) /\ route' # <<>>
    BY <2>1, <1>2
  <2> QED
    BY <1>1, <1>3, <1>4, <2>1, <2>2, <2>3 DEF SampledInv
<1>6. CASE sampled > 0
  <2>1. /\ route # <<>> /\ n >= 1 /\ Last(route) = route[n]
        /\ route[n] = Floor(Point(sampled - 1))
    BY <1>1, <1>2, <1>6 DEF SampledInv, Last
  <2>2. Ahead(route[n], cell) /\ Touches(route[n], cell)
    <3>1. sampled - 1 \in 0..(steps - 1) /\ (sampled - 1) + 1 = sampled
      BY <1>1, <1>6
    <3> QED
      BY <2>1, <3>1, NextPoint DEF cell
  <2>3. CASE cell = route[n]
    <3>1. route' = route
      BY <1>1, <2>1, <2>3 DEF Extended
    <3>2. \A i \in 0..sampled : \E m \in 1..n : route[m] = Floor(Point(i))
      BY <1>1, <1>6, <2>1, <2>3 DEF SampledInv, cell
    <3> QED
      BY <1>1, <1>3, <1>4, <1>6, <2>1, <2>3, <3>1, <3>2 DEF SampledInv, cell
  <2>4. CASE cell # route[n]
    <3>1. route' = Append(route, cell)
      BY <1>1, <2>1, <2>4 DEF Extended
    <3>2. /\ route' \in Seq(Cell) /\ Len(route') = n + 1
          /\ \A i \in 1..n : route'[i] = route[i]
          /\ route'[n + 1] = cell /\ route' # <<>>
      BY <1>2, <3>1 DEF SampledInv
    <3>3. \A m \in 1..n : route[m] # cell /\ Ahead(route[m], cell)
      <4> SUFFICES ASSUME NEW m \in 1..n PROVE route[m] # cell /\ Ahead(route[m], cell)
        OBVIOUS
      <4>1. Ahead(route[m], route[n])
        BY <1>2, <2>1, AheadIsAnOrder DEF SampledInv
      <4> QED
        BY <1>2, <2>1, <2>2, <2>4, <4>1, AheadIsAnOrder
    <3>4. \A i \in 0..sampled : \E m \in 1..(n + 1) : route'[m] = Floor(Point(i))
      <4>1. \A i \in 0..(sampled - 1) : \E m \in 1..n : route[m] = Floor(Point(i))
        BY DEF SampledInv
      <4>2. route'[n + 1] = Floor(Point(sampled))
        BY <3>2 DEF cell
      <4> QED
        BY <1>1, <1>2, <3>2, <4>1, <4>2
    <3>5. \A m \in 1..n : Touches(route'[m], route'[m + 1])
      <4>1. ASSUME NEW m \in 1..(n - 1) PROVE Touches(route'[m], route'[m + 1])
        <5>1. m \in 1..n /\ m + 1 \in 1..n
          BY <1>2
        <5>2. Touches(route[m], route[m + 1])
          BY DEF SampledInv
        <5> QED
          BY <3>2, <5>1, <5>2
      <4>2. Touches(route'[n], route'[n + 1])
        BY <1>2, <2>1, <2>2, <3>2
      <4> QED
        BY <1>2, <4>1, <4>2
    <3>6. \A m, k \in 1..(n + 1) : m < k => route'[m] # route'[k] /\ Ahead(route'[m], route'[k])
      <4> SUFFICES ASSUME NEW m \in 1..(n + 1), NEW k \in 1..(n + 1), m < k
                   PROVE  route'[m] # route'[k] /\ Ahead(route'[m], route'[k])
        OBVIOUS
      <4>1. CASE k = n + 1
        <5>1. m \in 1..n
          BY <1>2, <4>1
        <5> QED
          BY <3>2, <3>3, <4>1, <5>1
      <4>2. CASE k # n + 1
        <5>1. m \in 1..n /\ k \in 1..n
          BY <1>2, <4>2
        <5>2. route[m] # route[k] /\ Ahead(route[m], route[k])
          BY <5>1 DEF SampledInv
        <5> QED
          BY <3>2, <5>1, <5>2
      <4> QED
        BY <4>1, <4>2
    <3>7. route'[1] = Floor(Point(0))
      BY <1>6, <2>1, <3>2, <1>2 DEF SampledInv
    <3> QED
      BY <1>1, <1>2, <1>3, <1>4, <1>6, <3>2, <3>4, <3>5, <3>6, <3>7 DEF SampledInv, cell
  <2> QED
    BY <2>3, <2>4
<1> QED
  BY <1>1, <1>5, <1>6

-----------------------------------------------------------------------------
(* The robot is in the cell of the route that its segment is taken from.   *)
RightOfZero == \A site \in {way[1], way[2]} : site \in Nat \X Nat

PlacedInv ==
  /\ at \in 0..steps
  /\ sampled <= steps => at = 0
  /\ at = 0 => segment_index = 1
  /\ sampled > 0 /\ RightOfZero =>
       \E n \in 1..Len(route) :
         route[n] = Floor(Point(at)) /\ segment_index = SegmentOf(n)

LEMMA Segments ==
  /\ SegmentOf(1) = 1
  /\ \A m, n \in Nat \ {0} :
       SegmentOf(n) \in Int /\ (m <= n => SegmentOf(m) <= SegmentOf(n))
<1>1. SegmentSize \in Nat \ {0}
  BY RouteAssumption
<1>2. SegmentOf(1) = 1
  <2>1. 0 \div SegmentSize = 0
    BY <1>1
  <2> QED
    BY <2>1 DEF SegmentOf
<1>3. ASSUME NEW m \in Nat \ {0}, NEW n \in Nat \ {0}
      PROVE  SegmentOf(n) \in Int /\ (m <= n => SegmentOf(m) <= SegmentOf(n))
  <2>1. /\ (m - 1) \div SegmentSize \in Int /\ (n - 1) \div SegmentSize \in Int
        /\ m <= n => (m - 1) \div SegmentSize <= (n - 1) \div SegmentSize
    BY <1>1, Division, DivisionIsMonotone
  <2> QED
    BY <2>1 DEF SegmentOf
<1> QED
  BY <1>2, <1>3

LEMMA PointRightOfZero ==
  ASSUME WayInv, RightOfZero, NEW i \in 0..steps
  PROVE  <<Truncated(Point(i)[1]), Truncated(Point(i)[2])>> = Floor(Point(i))
<1>1. steps \in Nat \ {0}
  BY DEF WayInv
<1>2. ASSUME NEW a \in Nat, NEW b \in Nat PROVE a * steps + (b - a) * i >= 0
  <2>1. /\ a * (steps - i) \in Nat /\ b * i \in Nat
    BY <1>1
  <2>2. a * (steps - i) = a * steps - a * i /\ (b - a) * i = b * i - a * i
    BY <1>1
  <2>3. a * steps \in Int /\ a * i \in Int /\ b * i \in Int
    BY <1>1
  <2> QED
    BY <2>1, <2>2, <2>3
<1>3. /\ way[1][1] \in Nat /\ way[1][2] \in Nat /\ way[2][1] \in Nat /\ way[2][2] \in Nat
  BY DEF RightOfZero
<1>4. Point(i)[1] >= 0 /\ Point(i)[2] >= 0
  BY <1>2, <1>3 DEF Point
<1> QED
  BY <1>4 DEF Floor, Truncated

LEMMA LargerIsMax ==
  ASSUME NEW m \in Int, NEW n \in Int, m <= n PROVE Max({m} \cup {n}) = n
<1>1. n \in {m} \cup {n} /\ \A k \in {m} \cup {n} : n >= k
  OBVIOUS
<1>2. \A k \in {m} \cup {n} : (\A l \in {m} \cup {n} : k >= l) => k = n
  OBVIOUS
<1> QED
  BY <1>1, <1>2 DEF Max

LEMMA DriveKeeps ==
  ASSUME WayInv, SampledInv, PlacedInv, Drive
  PROVE  WayInv' /\ SampledInv' /\ PlacedInv'
<1> DEFINE next == at + 1
<1>1. /\ sampled = steps + 1 /\ steps \in Nat \ {0}
      /\ at \in 0..(steps - 1) /\ at' = next
      /\ segment_index' = CurrentSegment(Point(next), segment_index)
      /\ UNCHANGED <<way, steps, sampled, route>>
  BY DEF Drive, SampledInv, WayInv, PlacedInv
<1>2. /\ \A i : Floor(Point(i))' = Floor(Point(i))
      /\ \A c, d : Ahead(c, d)' = Ahead(c, d)
  BY <1>1 DEF Floor, Floored, Point, Ahead
<1>3. WayInv' /\ SampledInv'
  BY <1>1, <1>2 DEF WayInv, Distance2, SampledInv
<1>4. ASSUME RightOfZero
      PROVE  \E n \in 1..Len(route) :
               route[n] = Floor(Point(next)) /\ segment_index' = SegmentOf(n)
  <2>1. PICK m \in 1..Len(route) :
          route[m] = Floor(Point(at)) /\ segment_index = SegmentOf(m)
    BY <1>1, <1>4 DEF PlacedInv
  <2>2. PICK n \in 1..Len(route) : route[n] = Floor(Point(next))
    BY <1>1 DEF SampledInv
  <2>3. route[m] \in Cell /\ route[n] \in Cell /\ Len(route) \in Nat
    BY DEF SampledInv
  <2>4. Ahead(route[m], route[n])
    BY <1>1, <2>1, <2>2, NextPoint
  <2>5. m <= n
    <3> SUFFICES ASSUME n < m PROVE FALSE
      BY <2>3
    <3>1. Ahead(route[n], route[m]) /\ route[n] # route[m]
      BY DEF SampledInv
    <3> QED
      BY <2>3, <2>4, <3>1, AheadIsAnOrder
  <2>6. SegmentsWith(Floor(Point(next))) = {SegmentOf(n)}
    <3>1. DOMAIN route = 1..Len(route)
      BY DEF SampledInv
    <3>2. {k \in DOMAIN route : route[k] = Floor(Point(next))} = {n}
      BY <2>2, <2>3, <3>1 DEF SampledInv
    <3> QED
      BY <3>2 DEF SegmentsWith
  <2>7. <<Truncated(Point(next)[1]), Truncated(Point(next)[2])>> = Floor(Point(next))
    BY <1>1, <1>4, PointRightOfZero
  <2>8. segment_index' = Max({SegmentOf(m)} \cup {SegmentOf(n)})
    BY <1>1, <2>1, <2>6, <2>7 DEF CurrentSegment
  <2>9. segment_index' = SegmentOf(n)
    BY <2>3, <2>5, <2>8, Segments, LargerIsMax
  <2> QED
    BY <2>2, <2>9
<1>5. RightOfZero' <=> RightOfZero
  BY <1>1 DEF RightOfZero
<1>6. at' \in 0..steps /\ at' # 0
  BY <1>1
<1>7. PlacedInv'
  BY <1>1, <1>2, <1>4, <1>5, <1>6 DEF PlacedInv, SegmentOf
<1> QED
  BY <1>3, <1>7

-----------------------------------------------------------------------------
RouteInv == WayInv /\ SampledInv /\ PlacedInv

LEMMA RouteInitial == RouteInit => RouteInv
<1> SUFFICES ASSUME RouteInit PROVE RouteInv
  OBVIOUS
<1>1. way \in Cell \X Cell
  BY RouteAssumption DEF RouteInit, Cell
<1>2. steps \in Nat \ {0} /\ Square(steps * CellSize) >= 4 * Distance2
  <2>1. PICK n \in 1..(1 + 4 * Distance2) : steps = n /\ IsSteps(n)
    BY DEF RouteInit
  <2>2. Distance2 \in Nat
    BY <1>1, SquareIsNatural DEF Distance2, Cell
  <2> QED
    BY <2>1, <2>2 DEF IsSteps
<1>3. SampledInv
  BY <1>2 DEF RouteInit, SampledInv
<1>4. PlacedInv
  BY <1>2 DEF RouteInit, PlacedInv
<1> QED
  BY <1>1, <1>2, <1>3, <1>4 DEF RouteInv, WayInv

LEMMA RouteStep == RouteInv /\ [RouteNext]_routeVars => RouteInv'
<1> SUFFICES ASSUME RouteInv, [RouteNext]_routeVars PROVE RouteInv'
  OBVIOUS
<1>1. WayInv /\ SampledInv /\ PlacedInv
  BY DEF RouteInv
<1>2. CASE Sample
  <2>1. WayInv' /\ SampledInv'
    BY <1>1, <1>2, SampleKeeps
  <2>2. /\ UNCHANGED <<at, segment_index, steps, way>> /\ at = 0 /\ segment_index = 1
        /\ sampled' > 0 /\ steps \in Nat
    BY <1>1, <1>2 DEF Sample, PlacedInv, SampledInv, WayInv
  <2>3. route'[1] = Floor(Point(0))' /\ 1 \in 1..Len(route')
    BY <2>1, <2>2 DEF SampledInv
  <2>4. PlacedInv'
    BY <2>2, <2>3, Segments DEF PlacedInv, SegmentOf
  <2> QED
    BY <2>1, <2>4 DEF RouteInv
<1>3. CASE Drive
  BY <1>1, <1>3, DriveKeeps DEF RouteInv
<1>4. CASE UNCHANGED routeVars
  <2>1. /\ \A i : Floor(Point(i))' = Floor(Point(i))
        /\ \A c, d : Ahead(c, d)' = Ahead(c, d)
    BY <1>4 DEF routeVars, Floor, Floored, Point, Ahead
  <2>2. WayInv'
    BY <1>1, <1>4 DEF routeVars, WayInv, Distance2
  <2>3. SampledInv'
    BY <1>1, <1>4, <2>1 DEF routeVars, SampledInv
  <2>4. PlacedInv'
    BY <1>1, <1>4, <2>1 DEF routeVars, PlacedInv, RightOfZero, SegmentOf
  <2> QED
    BY <2>2, <2>3, <2>4 DEF RouteInv
<1> QED
  BY <1>2, <1>3, <1>4 DEF RouteNext

(* Sampling the way and driving along it keep the order of the cells       *)
(* (_route_cells_ordered, _check_traffic).                                 *)
THEOREM RouteInvariant == RouteSpec => []RouteInv
BY RouteInitial, RouteStep, PTL DEF RouteSpec

(* The cells of a route touch one another from that of the pickup to that  *)
(* of the dropoff and none comes twice (_route_cells_ordered).             *)
THEOREM RoutesUnbroken == RouteSpec => []RouteIsUnbroken
<1>1. RouteInv => RouteIsUnbroken
  <2> SUFFICES ASSUME RouteInv, sampled > steps
               PROVE  /\ route[1] = Floor(Point(0))
                      /\ route[Len(route)] = Floor(Point(steps))
                      /\ \A n \in 1..(Len(route) - 1) : Touches(route[n], route[n + 1])
                      /\ IsInjective(route)
    BY DEF RouteIsUnbroken
  <2>1. WayInv /\ SampledInv
    BY DEF RouteInv
  <2>2. sampled = steps + 1 /\ steps \in Nat
    BY <2>1 DEF WayInv, SampledInv
  <2>3. DOMAIN route = 1..Len(route) /\ Len(route) \in Nat
    BY <2>1 DEF SampledInv
  <2>4. IsInjective(route)
    BY <2>1, <2>3 DEF SampledInv, IsInjective
  <2> QED
    BY <2>1, <2>2, <2>4 DEF SampledInv
<1> QED
  BY <1>1, RouteInvariant, PTL

(* On its way the robot is in a cell of the segment it is taken to be in   *)
(* (_current_segment_index), as far as no coordinate is below zero.        *)
THEOREM RobotsInTheirSegments == RouteSpec => []OccupiesItsSegment
<1>1. RouteInv => OccupiesItsSegment
  <2> SUFFICES ASSUME RouteInv, at > 0, RightOfZero
               PROVE  segment_index \in SegmentsWith(Floor(Point(at)))
    BY DEF OccupiesItsSegment, RightOfZero
  <2>1. WayInv /\ SampledInv /\ PlacedInv
    BY DEF RouteInv
  <2>2. sampled > 0
    BY <2>1 DEF WayInv, SampledInv, PlacedInv
  <2>3. PICK n \in 1..Len(route) : route[n] = Floor(Point(at)) /\ segment_index = SegmentOf(n)
    BY <2>1, <2>2 DEF PlacedInv
  <2>4. DOMAIN route = 1..Len(route)
    BY <2>1 DEF SampledInv
  <2> QED
    BY <2>3, <2>4 DEF SegmentsWith
<1> QED
  BY <1>1, RouteInvariant, PTL

=============================================================================
