----------------------------- MODULE CoffeePhysics -----------------------------
(***************************************************************************)
(* The algorithms of the physics service (services/physics-service): the   *)
(* cellular automaton of fluid.go, which spreads a pour over a grid and    *)
(* lets strokes absorb it, and stain.go, which turns the wet cells into    *)
(* outlines and the absorbed volumes into changes of the strokes.          *)
(*                                                                         *)
(* Volumes are counted in hundredths, the smallest volume the code still   *)
(* moves (0.01), and every product is rounded down to that unit. World     *)
(* coordinates are integers; a cell is CellSize of them wide.              *)
(***************************************************************************)
EXTENDS Integers, FiniteSets, Sequences, SequencesExt, FiniteSetsExt

CONSTANTS
  Radius,     \* bound: cells on each side of the pour; the code has 10 or more
  Steps       \* bound: simulation steps; the canvas service asks for 15

ASSUME PhysicsAssumption == Radius \in Nat \ {0} /\ Steps \in Nat \ {0}

CellSize == 10
Size == 2 * Radius + 1
Cell == (0..Size - 1) \X (0..Size - 1)
Center == <<Radius, Radius>>
Viscosity == 50         \* percent; the canvas service sends 0.5
WetThreshold == 50      \* fluidThreshold 0.5

Least(a, b) == IF a < b THEN a ELSE b
Abs(n) == IF n < 0 THEN -n ELSE n

\* Go's conversion of a quotient to int rounds towards zero.
Truncated(n, d) == IF n >= 0 THEN n \div d ELSE -((-n) \div d)

-----------------------------------------------------------------------------
(* Strokes on the grid. The pour is the origin of the world coordinates. A  *)
(* stroke is [id, path, dark, width]: dark is its darkness in percent.      *)

\* The cell of the point <<x / d, y / d>>, as a set that is empty outside the grid.
CellAt(x, y, d) ==
  {<<Truncated(x + Radius * CellSize * d, CellSize * d),
     Truncated(y + Radius * CellSize * d, CellSize * d)>>} \cap Cell

\* Mutant: one sample for every two cells.
RasterizeLineSparse(p, q) ==
  LET reach == Truncated(Max({Abs(q[1] - p[1]), Abs(q[2] - p[2])}), 2 * CellSize)
      n == Max({reach, 1})
  IN  UNION {CellAt(p[1] * n + i * (q[1] - p[1]), p[2] * n + i * (q[2] - p[2]), n) : i \in 0..n}

\* Two samples for each cell the line crosses.
RasterizeLine(p, q) ==
  LET reach == Truncated(2 * Max({Abs(q[1] - p[1]), Abs(q[2] - p[2])}), CellSize)
      n == Max({reach, 1})
  IN  UNION {CellAt(p[1] * n + i * (q[1] - p[1]), p[2] * n + i * (q[2] - p[2]), n) : i \in 0..n}

\* A point off the grid is skipped together with the line that leads to it.
MarkedCells(stroke) ==
  LET on == {i \in DOMAIN stroke.path : CellAt(stroke.path[i][1], stroke.path[i][2], 1) # {}}
  IN  (UNION {CellAt(stroke.path[i][1], stroke.path[i][2], 1) : i \in on})
      \cup (UNION {RasterizeLine(stroke.path[i - 1], stroke.path[i]) : i \in on \ {1}})

\* Ten-thousandths of a cell's fluid that a stroke absorbs in one step: darker and
\* wider strokes absorb more.
AbsorptionRate(stroke) == (10 + stroke.dark \div 5) * Least(5 * stroke.width, 150)

\* Every marked cell knows the strokes that cross it.
MarkStrokes(strokes) ==
  LET cells == [s \in strokes |-> MarkedCells(s)]
  IN  [c \in Cell |-> {s \in strokes : c \in cells[s]}]

-----------------------------------------------------------------------------
(* One step of the simulation. A grid is [volume, marks, absorbed, total].  *)

Neighbors(c) == {n \in Cell : Abs(n[1] - c[1]) + Abs(n[2] - c[2]) = 1}

TotalRate(marks) == MapThenSumSet(AbsorptionRate, marks)

\* What the strokes of a cell take from it; never more than there is.
Absorb(grid, c) ==
  Least((TotalRate(grid.marks[c]) * grid.volume[c]) \div 10000, grid.volume[c])

\* What a cell without strokes gives to each neighbour.
SpreadAmount(grid, c) ==
  IF grid.marks[c] = {} THEN (grid.volume[c] * (100 - Viscosity)) \div 400 ELSE 0

\* Mutant: a cell gives its share away without losing it.
SpreadWithoutLoss(grid) ==
  [c \in Cell |-> grid.volume[c] - Absorb(grid, c)
                  + MapThenSumSet(LAMBDA n : SpreadAmount(grid, n), Neighbors(c))]

Spread(grid) ==
  [c \in Cell |-> grid.volume[c] - Absorb(grid, c)
                  - Cardinality(Neighbors(c)) * SpreadAmount(grid, c)
                  + MapThenSumSet(LAMBDA n : SpreadAmount(grid, n), Neighbors(c))]

\* Two percent of every cell falls to the cell below it. The cells are updated in
\* place, column by column from the top, so some fluid falls several rows at once.
Fall(volume) ==
  LET gravity(v) == (2 * v) \div 100
      below(c) == <<c[1], c[2] + 1>>
      fall(v, c) == [v EXCEPT ![c] = @ - gravity(v[c]), ![below(c)] = @ + gravity(v[c])]
      falling == [i \in 1..Size * (Size - 1) |-> <<(i - 1) \div (Size - 1), (i - 1) % (Size - 1)>>]
  IN  FoldLeft(fall, volume, falling)

\* The part of a cell's absorption that goes to one of its strokes.
StrokeAbsorb(grid, c, s) ==
  (Absorb(grid, c) * AbsorptionRate(s)) \div TotalRate(grid.marks[c])

Volume(grid) == MapThenSumSet(LAMBDA c : grid.volume[c], Cell)

NewSimGrid(strokes, intensity) ==
  [volume   |-> [c \in Cell |-> IF c = Center THEN 100 * intensity ELSE 0],
   marks    |-> MarkStrokes(strokes),
   absorbed |-> [s \in strokes |-> 0],
   total    |-> 0]

SimulationStep(grid) ==
  [grid EXCEPT
     !.volume = Fall(Spread(grid)),
     !.absorbed = [s \in DOMAIN @ |->
                     @[s] + MapThenSumSet(LAMBDA c : StrokeAbsorb(grid, c, s),
                                          {c \in Cell : s \in grid.marks[c]})],
     !.total = @ + MapThenSumSet(LAMBDA c : Absorb(grid, c), Cell)]

\* The grids of a simulation, before the first step and after each. The code stops
\* early when nothing is left to move, where further steps change nothing.
RunSimulation(strokes, intensity) ==
  LET grid[n \in Nat] == IF n = 0 THEN NewSimGrid(strokes, intensity)
                         ELSE SimulationStep(grid[n - 1])
  IN  [n \in 0..Steps |-> grid[n]]

-----------------------------------------------------------------------------
(* Outlines: marching squares over the corners of four cells, in doubled     *)
(* cell coordinates so that the midpoints of the sides are integers.         *)

\* The sides joined in each of the 16 cases; sides are 0 top, 1 right, 2 bottom,
\* 3 left.
MarchingSquaresTable ==
  << <<>>, << <<2, 3>> >>, << <<1, 2>> >>, << <<1, 3>> >>, << <<0, 1>> >>,
     << <<0, 3>>, <<1, 2>> >>, << <<0, 2>> >>, << <<0, 3>> >>, << <<0, 3>> >>,
     << <<0, 2>> >>, << <<0, 1>>, <<2, 3>> >>, << <<0, 1>> >>, << <<1, 3>> >>,
     << <<1, 2>> >>, << <<2, 3>> >>, <<>> >>

Midpoint(x, y, side) ==
  << <<2 * x + 1, 2 * y>>, <<2 * x + 2, 2 * y + 1>>,
     <<2 * x + 1, 2 * y + 2>>, <<2 * x, 2 * y + 1>> >>[side + 1]

Edges(volume) ==
  LET n == Size - 1
      bit(x, y, weight) == IF volume[<<x, y>>] >= WetThreshold THEN weight ELSE 0
      sides(x, y) == MarchingSquaresTable[1 + bit(x, y, 8) + bit(x + 1, y, 4)
                                          + bit(x + 1, y + 1, 2) + bit(x, y + 1, 1)]
      segments(x, y) == [i \in DOMAIN sides(x, y) |-> <<Midpoint(x, y, sides(x, y)[i][1]),
                                                       Midpoint(x, y, sides(x, y)[i][2])>>]
  IN  FlattenSeq([k \in 1..n * n |-> segments((k - 1) \div n, (k - 1) % n)])

\* Mutant: only the first end of an edge is compared with the tail.
ExtendOneWay(edges, chain) ==
  LET tail == Last(chain.points)
      next == {j \in DOMAIN edges \ chain.used : tail = edges[j][1]}
  IN  IF next = {} THEN chain
      ELSE LET j == Min(next) IN
           [points |-> Append(chain.points, edges[j][2]), used |-> chain.used \cup {j}]

\* A chain grows at its tail by the first unused edge that touches it.
Extend(edges, chain) ==
  LET tail == Last(chain.points)
      next == {j \in DOMAIN edges \ chain.used : tail \in {edges[j][1], edges[j][2]}}
  IN  IF next = {} THEN chain
      ELSE LET j == Min(next) IN
           [points |-> Append(chain.points, IF edges[j][1] = tail THEN edges[j][2] ELSE edges[j][1]),
            used   |-> chain.used \cup {j}]

ChainEdges(edges) ==
  LET grown(start, used) ==
        FoldLeft(LAMBDA chain, e : Extend(edges, chain),
                 [points |-> edges[start], used |-> used \cup {start}], edges)
      add(state, start) ==
        IF start \in state.used THEN state
        ELSE LET chain == grown(start, state.used) IN
             [chains |-> Append(state.chains, chain.points), used |-> chain.used]
  IN  FoldLeft(add, [chains |-> <<>>, used |-> {}], [i \in DOMAIN edges |-> i]).chains

\* The outlines, in no order: chains of less than three points are dropped.
ExtractStainPolygons(volume) ==
  {chain \in ToSet(ChainEdges(Edges(volume))) : Len(chain) >= 3}

\* How far each stroke shifts towards coffee, in percent; strokes that absorbed
\* next to nothing are left out.
ComputeStrokeMutations(absorbed) ==
  [s \in {t \in DOMAIN absorbed : absorbed[t] >= 1} |-> Least(absorbed[s] \div 10, 100)]

\* The request is refused unless its intensity is a fraction of one.
InvalidArgument(intensity) == intensity \notin 0..100

-----------------------------------------------------------------------------
(* Properties of the algorithms, for the grids the pours produce.           *)

\* No fluid appears or vanishes: it is on the grid or absorbed by the
\* strokes on it, and no other stroke changes (fluid.go:198-262, stain.go:219-242).
Conserved(grid, intensity) ==
  /\ \A c \in Cell : grid.volume[c] >= 0
  /\ Volume(grid) + grid.total = 100 * intensity
  /\ MapThenSumSet(LAMBDA s : grid.absorbed[s], DOMAIN grid.absorbed) <= grid.total
  /\ LET changed == ComputeStrokeMutations(grid.absorbed)
     IN  \A s \in DOMAIN changed : MarkedCells(s) # {}

\* Every outline comes back to its first point, so it can be filled
\* (stain.go:16-35, 139-185).
Closed(chain) == chain[1] = Last(chain)

\* The marks of a stroke have no gaps: whoever crosses it from one side to the
\* other meets a marked cell (fluid.go:101-107).
Gapless(stroke) ==
  LET cells == MarkedCells(stroke)
      near(c) == {d \in cells : Abs(d[1] - c[1]) <= 1 /\ Abs(d[2] - c[2]) <= 1}
      reached[n \in Nat] == IF n = 0 THEN {CHOOSE c \in cells : TRUE}
                            ELSE UNION {near(c) : c \in reached[n - 1]}
  IN  cells = {} \/ reached[Cardinality(cells)] = cells

=============================================================================
