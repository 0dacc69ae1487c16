------------------------- MODULE CoffeePhysicsProofs -------------------------
(***************************************************************************)
(* What the simulation of CoffeePhysics keeps, for a grid of any size, any *)
(* number of steps and any strokes; that the marks of a stroke have no     *)
(* gaps; and that the outlines are closed.                                 *)
(***************************************************************************)
EXTENDS CoffeePhysics, FiniteSetLemmas

USE PhysicsAssumption

\* The grid is finite and the pour is on it.
LEMMA CellIs ==
  /\ Size \in Nat /\ Size >= 3
  /\ IsFiniteSet(Cell) /\ Center \in Cell
  /\ \A c \in Cell : c = <<c[1], c[2]>> /\ c[1] \in 0..Size - 1 /\ c[2] \in 0..Size - 1
<1>1. Size \in Nat /\ Size >= 3
  BY DEF Size
<1>2. IsFiniteSet(0..Size - 1)
  BY <1>1, FS_Interval
<1>3. IsFiniteSet(Cell)
  BY <1>2, FS_Product DEF Cell
<1>4. Center \in Cell
  BY DEF Center, Cell, Size
<1>5. \A c \in Cell : c = <<c[1], c[2]>> /\ c[1] \in 0..Size - 1 /\ c[2] \in 0..Size - 1
  BY DEF Cell
<1> QED
  BY <1>1, <1>3, <1>4, <1>5

\* One element more makes a set at most one larger.
LEMMA OneMore ==
  ASSUME NEW S, IsFiniteSet(S), NEW n \in Nat, Cardinality(S) <= n, NEW x
  PROVE  /\ IsFiniteSet(S \cup {x}) /\ Cardinality(S \cup {x}) \in Nat
         /\ Cardinality(S \cup {x}) <= n + 1
<1>1. Cardinality(S) \in Nat
  BY FS_CardinalityType
<1>2. /\ IsFiniteSet(S \cup {x})
      /\ Cardinality(S \cup {x}) = IF x \in S THEN Cardinality(S) ELSE Cardinality(S) + 1
  BY FS_AddElement
<1> QED
  BY <1>1, <1>2

\* A set of four has at most four elements.
LEMMA FourAtMost ==
  ASSUME NEW a, NEW b, NEW d, NEW e
  PROVE  LET four == (({a} \cup {b}) \cup {d}) \cup {e}
         IN  IsFiniteSet(four) /\ Cardinality(four) \in Nat /\ Cardinality(four) <= 4
<1>1. IsFiniteSet({a}) /\ Cardinality({a}) = 1
  BY FS_Singleton
<1>2. IsFiniteSet({a} \cup {b}) /\ Cardinality({a} \cup {b}) <= 2
  <2> DEFINE S == {a}
  <2>1. IsFiniteSet(S) /\ 1 \in Nat /\ Cardinality(S) <= 1
    BY <1>1
  <2> HIDE DEF S
  <2>2. IsFiniteSet(S \cup {b}) /\ Cardinality(S \cup {b}) <= 1 + 1
    BY <2>1, OneMore
  <2> QED
    BY <2>2 DEF S
<1>3. IsFiniteSet(({a} \cup {b}) \cup {d}) /\ Cardinality(({a} \cup {b}) \cup {d}) <= 3
  <2> DEFINE S == {a} \cup {b}
  <2>1. IsFiniteSet(S) /\ 2 \in Nat /\ Cardinality(S) <= 2
    BY <1>2
  <2> HIDE DEF S
  <2>2. IsFiniteSet(S \cup {d}) /\ Cardinality(S \cup {d}) <= 2 + 1
    BY <2>1, OneMore
  <2> QED
    BY <2>2 DEF S
<1> DEFINE S == ({a} \cup {b}) \cup {d}
<1>4. IsFiniteSet(S) /\ 3 \in Nat /\ Cardinality(S) <= 3
  BY <1>3
<1> HIDE DEF S
<1>5. IsFiniteSet(S \cup {e}) /\ Cardinality(S \cup {e}) \in Nat /\ Cardinality(S \cup {e}) <= 3 + 1
  BY <1>4, OneMore
<1> QED
  BY <1>5 DEF S

\* A cell has at most four neighbours, and is a neighbour of each of them.
LEMMA NeighborsAre ==
  ASSUME NEW c \in Cell
  PROVE  /\ Neighbors(c) \in SUBSET Cell /\ IsFiniteSet(Neighbors(c))
         /\ Cardinality(Neighbors(c)) \in 0..4
         /\ \A n \in Cell : n \in Neighbors(c) <=> c \in Neighbors(n)
<1> DEFINE a == <<c[1] + 1, c[2]>>
           b == <<c[1] - 1, c[2]>>
           d == <<c[1], c[2] + 1>>
           e == <<c[1], c[2] - 1>>
           four == (({a} \cup {b}) \cup {d}) \cup {e}
<1>1. IsFiniteSet(four) /\ Cardinality(four) \in Nat /\ Cardinality(four) <= 4
  <2> HIDE DEF a, b, d, e
  <2> QED
    BY FourAtMost
<1>2. Neighbors(c) \in SUBSET four
  <2> SUFFICES ASSUME NEW n \in Neighbors(c) PROVE n \in four
    OBVIOUS
  <2>1. /\ n = <<n[1], n[2]>> /\ n[1] \in Int /\ n[2] \in Int /\ c[1] \in Int /\ c[2] \in Int
        /\ Abs(n[1] - c[1]) + Abs(n[2] - c[2]) = 1
    BY CellIs DEF Neighbors
  <2>2. \/ n[1] = c[1] + 1 /\ n[2] = c[2]
        \/ n[1] = c[1] - 1 /\ n[2] = c[2]
        \/ n[1] = c[1] /\ n[2] = c[2] + 1
        \/ n[1] = c[1] /\ n[2] = c[2] - 1
    BY <2>1 DEF Abs
  <2> QED
    BY <2>1, <2>2
<1>3. IsFiniteSet(Neighbors(c)) /\ Cardinality(Neighbors(c)) \in 0..4
  <2> HIDE DEF four
  <2>1. IsFiniteSet(Neighbors(c)) /\ Cardinality(Neighbors(c)) <= Cardinality(four)
    BY <1>1, <1>2, FS_Subset
  <2>2. Cardinality(Neighbors(c)) \in Nat
    BY <2>1, FS_CardinalityType
  <2> QED
    BY <1>1, <2>1, <2>2
<1>4. ASSUME NEW n \in Cell PROVE n \in Neighbors(c) <=> c \in Neighbors(n)
  BY CellIs DEF Neighbors, Abs
<1> QED
  BY <1>3, <1>4 DEF Neighbors

\* The grids of a simulation with these strokes.
Grids(strokes) ==
  [volume : [Cell -> Nat], marks : [Cell -> SUBSET strokes],
   absorbed : [strokes -> Nat], total : Nat]

\* Strokes that absorb, finitely many.
Absorbent(strokes) == IsFiniteSet(strokes) /\ \A s \in strokes : AbsorptionRate(s) \in Nat \ {0}

\* Strokes have the rates of what they are.
LEMMA RateIs ==
  ASSUME NEW s, s.dark \in 0..100, s.width \in Nat \ {0}
  PROVE  AbsorptionRate(s) \in Nat \ {0}
<1> DEFINE a == 10 + s.dark \div 5
           b == Least(5 * s.width, 150)
<1>1. a \in Nat /\ a >= 10
  OBVIOUS
<1>2. b \in Nat /\ b >= 1
  BY DEF Least
<1>3. a * b \in Nat /\ a * b >= 1
  <2> HIDE DEF a, b
  <2> QED
    BY <1>1, <1>2
<1> QED
  BY <1>3 DEF AbsorptionRate

\* The rates of the strokes of a cell add up to something.
LEMMA TotalRateIs ==
  ASSUME NEW marks, Absorbent(marks)
  PROVE  /\ TotalRate(marks) \in Nat
         /\ marks = {} => TotalRate(marks) = 0
         /\ marks # {} => TotalRate(marks) > 0
         /\ TotalRate(marks) = Total([s \in marks |-> AbsorptionRate(s)], marks)
<1> DEFINE rate == [s \in marks |-> AbsorptionRate(s)]
<1>1. TotalRate(marks) = Total(rate, marks)
  BY DEF TotalRate, Total, MapThenSumSet, MapThenFoldSet
<1>2. \A s \in marks : rate[s] \in Nat /\ rate[s] > 0
  BY DEF Absorbent
<1> HIDE DEF rate
<1>3. Total(rate, marks) \in Nat /\ \A s \in marks : rate[s] <= Total(rate, marks)
  BY <1>2, TotalNat DEF Absorbent
<1>4. marks = {} => Total(rate, marks) = 0
  BY TotalEmpty
<1>5. ASSUME marks # {} PROVE TotalRate(marks) > 0
  <2>1. PICK s \in marks : TRUE
    BY <1>5
  <2> QED
    BY <1>1, <1>2, <1>3, <2>1
<1> QED
  BY <1>1, <1>3, <1>4, <1>5 DEF rate

\* A cell loses no more than it has, to strokes or to neighbours.
LEMMA LossIs ==
  ASSUME NEW strokes, Absorbent(strokes), NEW grid \in Grids(strokes), NEW c \in Cell
  PROVE  /\ Absorb(grid, c) \in Nat /\ SpreadAmount(grid, c) \in Nat
         /\ Absorb(grid, c) + 4 * SpreadAmount(grid, c) <= grid.volume[c]
         /\ grid.marks[c] = {} => Absorb(grid, c) = 0
<1> DEFINE v == grid.volume[c]
           rate == TotalRate(grid.marks[c])
<1>1. v \in Nat /\ grid.marks[c] \in SUBSET strokes
  BY DEF Grids
<1>2. Absorbent(grid.marks[c])
  BY <1>1, FS_Subset DEF Absorbent
<1>3. rate \in Nat /\ (grid.marks[c] = {} => rate = 0)
  BY <1>2, TotalRateIs
<1> HIDE DEF rate
<1>4. Absorb(grid, c) = Least((rate * v) \div 10000, v)
  BY DEF Absorb, rate
<1> HIDE DEF v
<1>5. (rate * v) \div 10000 \in Nat
  <2> DEFINE m == rate * v
  <2>1. m \in Nat
    BY <1>1, <1>3
  <2> HIDE DEF m
  <2>2. m \div 10000 \in Nat
    BY <2>1
  <2> QED
    BY <2>2 DEF m
<1>6. Absorb(grid, c) \in Nat /\ Absorb(grid, c) <= v
  BY <1>1, <1>4, <1>5 DEF Least
<1>7. CASE grid.marks[c] = {}
  <2>1. rate * v = 0 /\ 0 \div 10000 = 0
    BY <1>1, <1>3, <1>7
  <2>2. Absorb(grid, c) = 0
    BY <1>1, <1>4, <2>1 DEF Least
  <2>3. SpreadAmount(grid, c) = (v * 50) \div 400
    BY <1>7 DEF SpreadAmount, Viscosity, v
  <2>4. (v * 50) \div 400 \in Nat /\ 4 * ((v * 50) \div 400) <= v
    BY <1>1
  <2> QED
    BY <2>2, <2>3, <2>4 DEF v
<1>8. CASE grid.marks[c] # {}
  BY <1>1, <1>6, <1>8 DEF SpreadAmount, v
<1> QED
  BY <1>7, <1>8

\* What the neighbours of a cell give it, as a total.
LEMMA GivenIs ==
  ASSUME NEW grid, NEW c
  PROVE  MapThenSumSet(LAMBDA n : SpreadAmount(grid, n), Neighbors(c))
         = Total([n \in Neighbors(c) |-> SpreadAmount(grid, n)], Neighbors(c))
BY DEF Total, MapThenSumSet, MapThenFoldSet

\* What all cells get from their neighbours is what all cells give.
LEMMA GivenIsLost ==
  ASSUME NEW give \in [Cell -> Nat]
  PROVE  Total([c \in Cell |-> Total(give, Neighbors(c))], Cell)
         = Total([c \in Cell |-> Cardinality(Neighbors(c)) * give[c]], Cell)
<1> DEFINE row == [c \in Cell |-> [n \in Cell |-> IF n \in Neighbors(c) THEN give[n] ELSE 0]]
           column == [n \in Cell |-> [c \in Cell |-> IF c \in Neighbors(n) THEN give[n] ELSE 0]]
           got == [c \in Cell |-> Total(give, Neighbors(c))]
           lost == [c \in Cell |-> Cardinality(Neighbors(c)) * give[c]]
<1>1. Transposed(row, column, Cell, Cell)
  BY NeighborsAre DEF Transposed
<1>2. ASSUME NEW c \in Cell PROVE got[c] = Total(row[c], Cell)
  <2>1. /\ \A n \in Cell : row[c][n] \in Int
        /\ \A n \in Neighbors(c) : row[c][n] = give[n]
        /\ \A n \in Cell \ Neighbors(c) : row[c][n] = 0
    BY NeighborsAre
  <2>2. Neighbors(c) \in SUBSET Cell /\ got[c] = Total(give, Neighbors(c))
    BY NeighborsAre
  <2> HIDE DEF row, got
  <2> QED
    BY <2>1, <2>2, CellIs, TotalWithin
<1>3. ASSUME NEW n \in Cell PROVE lost[n] = Total(column[n], Cell)
  <2> DEFINE same == [c \in Cell |-> give[n]]
  <2>1. /\ \A c \in Cell : column[n][c] \in Int
        /\ \A c \in Neighbors(n) : column[n][c] = same[c]
        /\ \A c \in Cell \ Neighbors(n) : column[n][c] = 0
    BY NeighborsAre
  <2>2. Neighbors(n) \in SUBSET Cell /\ IsFiniteSet(Neighbors(n))
    BY NeighborsAre
  <2>3. give[n] \in Int /\ \A c \in Neighbors(n) : same[c] = give[n]
    BY <2>2
  <2>4. lost[n] = Cardinality(Neighbors(n)) * give[n]
    OBVIOUS
  <2> HIDE DEF column, same, lost
  <2>5. Total(column[n], Cell) = Total(same, Neighbors(n))
    BY <2>1, <2>2, CellIs, TotalWithin
  <2>6. Total(same, Neighbors(n)) = Cardinality(Neighbors(n)) * give[n]
    BY <2>2, <2>3, TotalConstant
  <2> QED
    BY <2>4, <2>5, <2>6
<1>4. Total(got, Cell) = Total(lost, Cell)
  <2>1. Totals(got, row, Cell, Cell) /\ Totals(lost, column, Cell, Cell)
    <3> HIDE DEF row, column, got, lost
    <3> QED
      BY <1>2, <1>3 DEF Totals
  <2> HIDE DEF row, column, got, lost
  <2> QED
    BY <1>1, <2>1, CellIs, TotalExchange
<1> QED
  BY <1>4

\* Spreading and absorbing leave no cell with less than nothing, and what they take from
\* the grid is what the strokes absorb.
LEMMA SpreadConserves ==
  ASSUME NEW strokes, Absorbent(strokes), NEW grid \in Grids(strokes)
  PROVE  /\ Spread(grid) \in [Cell -> Nat]
         /\ Total([c \in Cell |-> Absorb(grid, c)], Cell) \in Nat
         /\ Total(Spread(grid), Cell) + Total([c \in Cell |-> Absorb(grid, c)], Cell)
            = Total(grid.volume, Cell)
<1> DEFINE v == grid.volume
           take == [c \in Cell |-> Absorb(grid, c)]
           give == [c \in Cell |-> SpreadAmount(grid, c)]
           got == [c \in Cell |-> Total(give, Neighbors(c))]
           lost == [c \in Cell |-> Cardinality(Neighbors(c)) * give[c]]
           left == Spread(grid)
           kept == [c \in Cell |-> left[c] + take[c]]
           all == [c \in Cell |-> v[c] + got[c]]
<1>1. /\ v \in [Cell -> Nat] /\ take \in [Cell -> Nat] /\ give \in [Cell -> Nat]
      /\ \A c \in Cell : take[c] + 4 * give[c] <= v[c]
  BY LossIs DEF Grids
<1>2. ASSUME NEW c \in Cell PROVE left[c] = v[c] - take[c] - lost[c] + got[c]
  <2>1. Neighbors(c) \in SUBSET Cell /\ IsFiniteSet(Neighbors(c))
    BY NeighborsAre
  <2> DEFINE near == [n \in Neighbors(c) |-> SpreadAmount(grid, n)]
  <2>2. \A n \in Neighbors(c) : near[n] \in Int /\ near[n] = give[n]
    BY <1>1, <2>1
  <2>3. MapThenSumSet(LAMBDA n : SpreadAmount(grid, n), Neighbors(c)) = Total(near, Neighbors(c))
    BY GivenIs
  <2>4. Total(near, Neighbors(c)) = Total(give, Neighbors(c))
    <3> HIDE DEF near, give
    <3> QED
      BY <2>1, <2>2, TotalSame
  <2>5. left[c] = v[c] - take[c] - lost[c] + MapThenSumSet(LAMBDA n : SpreadAmount(grid, n), Neighbors(c))
    BY DEF Spread
  <2> QED
    BY <2>3, <2>4, <2>5
<1> HIDE DEF take, give
<1>3. got \in [Cell -> Nat]
  <2>1. ASSUME NEW c \in Cell PROVE Total(give, Neighbors(c)) \in Nat
    <3>1. IsFiniteSet(Neighbors(c)) /\ \A n \in Neighbors(c) : give[n] \in Nat
      BY <1>1, NeighborsAre
    <3> QED
      BY <3>1, TotalNat
  <2> QED
    BY <2>1
<1>4. ASSUME NEW c \in Cell PROVE lost[c] \in Nat /\ take[c] + lost[c] <= v[c]
  <2> DEFINE k == Cardinality(Neighbors(c))
             g == give[c]
  <2>1. k \in 0..4 /\ g \in Nat
    BY <1>1, NeighborsAre
  <2> HIDE DEF k, g
  <2>2. k * g \in Nat /\ k * g <= 4 * g
    <3>1. k = 0 \/ k = 1 \/ k = 2 \/ k = 3 \/ k = 4
      BY <2>1
    <3> QED
      BY <2>1, <3>1
  <2>3. lost[c] = k * g
    BY DEF k, g
  <2> QED
    BY <1>1, <2>1, <2>2, <2>3 DEF g
<1>5. Total(got, Cell) = Total(lost, Cell)
  BY <1>1, GivenIsLost
<1> HIDE DEF got, lost
<1>6. ASSUME NEW c \in Cell
      PROVE  /\ left[c] \in Nat /\ kept[c] = left[c] + take[c] /\ all[c] = v[c] + got[c]
             /\ all[c] = kept[c] + lost[c]
             /\ kept[c] \in Int /\ v[c] \in Int /\ got[c] \in Int /\ take[c] \in Nat
  BY <1>1, <1>2, <1>3, <1>4
<1>7. left \in [Cell -> Nat]
  <2>1. left = [c \in Cell |-> left[c]]
    BY DEF Spread
  <2> HIDE DEF left
  <2> QED
    BY <1>6, <2>1
<1> HIDE DEF left, kept, all, v
<1>8. /\ Total(kept, Cell) = Total(left, Cell) + Total(take, Cell)
      /\ Total(all, Cell) = Total(v, Cell) + Total(got, Cell)
      /\ Total(all, Cell) = Total(kept, Cell) + Total(lost, Cell)
  BY <1>4, <1>6, CellIs, TotalAdd
<1>9. /\ Total(left, Cell) \in Int /\ Total(take, Cell) \in Nat /\ Total(v, Cell) \in Int
      /\ Total(lost, Cell) \in Int
  BY <1>4, <1>6, CellIs, TotalType, TotalNat
<1> QED
  BY <1>5, <1>7, <1>8, <1>9 DEF left, take, v

\* What falls from one cell to the next.
Fallen(v, c) ==
  [v EXCEPT ![c] = @ - (2 * v[c]) \div 100, ![<<c[1], c[2] + 1>>] = @ + (2 * v[c]) \div 100]

\* One cell of the grid after the other, and what it lets fall.
Falling == [i \in 1..Size * (Size - 1) |-> <<(i - 1) \div (Size - 1), (i - 1) % (Size - 1)>>]

\* They are cells, and so are those below them.
LEMMA FallingIs ==
  ASSUME NEW i \in 1..Size * (Size - 1)
  PROVE  /\ Falling[i] \in Cell /\ <<Falling[i][1], Falling[i][2] + 1>> \in Cell
         /\ <<Falling[i][1], Falling[i][2] + 1>> # Falling[i]
<1> DEFINE n == Size - 1
           q == (i - 1) \div n
           m == (i - 1) % n
<1>1. n \in Nat /\ n >= 2 /\ Size = n + 1
  BY CellIs
<1>2. i - 1 \in Nat /\ i - 1 < (n + 1) * n
  <2>1. i \in Nat /\ i >= 1 /\ i <= Size * n
    <3>1. Size * n \in Int
      BY CellIs
    <3> QED
      BY <3>1
  <2> HIDE DEF n
  <2>2. i <= (n + 1) * n
    BY <1>1, <2>1
  <2> QED
    BY <2>1, <2>2, <1>1
<1>3. q \in Nat /\ q <= n /\ m \in 0..n - 1
  <2> DEFINE j == i - 1
  <2>1. j \in Nat /\ j < (n + 1) * n
    BY <1>2
  <2> HIDE DEF j, n
  <2>2. j \div n \in Nat /\ j % n \in 0..n - 1
    BY <1>1, <2>1
  <2>3. j \div n <= n
    BY <1>1, <2>1
  <2> QED
    BY <2>2, <2>3 DEF j
<1>5. Falling[i] = <<q, m>>
  BY DEF Falling
<1> HIDE DEF q, m, n
<1> QED
  BY <1>1, <1>3, <1>5 DEF Cell

\* What falls from a cell is in the cell below.
LEMMA FallenIs ==
  ASSUME NEW v \in [Cell -> Nat], NEW i \in 1..Size * (Size - 1)
  PROVE  /\ Fallen(v, Falling[i]) \in [Cell -> Nat]
         /\ Total(Fallen(v, Falling[i]), Cell) = Total(v, Cell)
<1> DEFINE c == Falling[i]
           d == <<c[1], c[2] + 1>>
           w == Fallen(v, c)
           g == (2 * v[c]) \div 100
           R == (Cell \ {c}) \ {d}
<1>1. c \in Cell /\ d \in Cell /\ d # c
  BY FallingIs
<1> HIDE DEF c
<1>2. g \in Nat /\ g <= v[c] /\ v[c] \in Nat /\ v[d] \in Nat
  BY <1>1
<1>3. w = [v EXCEPT ![c] = @ - g, ![d] = @ + g]
  BY DEF Fallen
<1> HIDE DEF g, d, w
<1>4. w[c] = v[c] - g /\ w[d] = v[d] + g /\ \A e \in R : w[e] = v[e]
  BY <1>1, <1>3
<1>5. w \in [Cell -> Nat]
  <2>1. v[c] - g \in Nat /\ v[d] + g \in Nat
    BY <1>2
  <2> QED
    BY <1>1, <1>3, <2>1
<1>6. ASSUME NEW u \in [Cell -> Nat]
      PROVE  Total(u, Cell) = u[c] + (u[d] + Total(u, R)) /\ Total(u, R) \in Int
  <2>1. IsFiniteSet(Cell) /\ IsFiniteSet(Cell \ {c}) /\ IsFiniteSet(R)
    BY CellIs, FS_Subset
  <2>2. Total(u, Cell) = u[c] + Total(u, Cell \ {c})
    BY <1>1, <2>1, TotalTake
  <2>3. d \in Cell \ {c} /\ \A e \in Cell \ {c} : u[e] \in Int
    BY <1>1
  <2>4. Total(u, Cell \ {c}) = u[d] + Total(u, R)
    BY <2>1, <2>3, TotalTake
  <2>5. Total(u, R) \in Int
    BY <2>1, TotalType
  <2> QED
    BY <2>2, <2>4, <2>5
<1>7. Total(w, R) = Total(v, R)
  <2>1. IsFiniteSet(R) /\ \A e \in R : w[e] \in Int
    BY <1>4, CellIs, FS_Subset
  <2> HIDE DEF R
  <2> QED
    BY <1>4, <2>1, TotalSame
<1>8. Total(w, Cell) = w[c] + (w[d] + Total(w, R)) /\ Total(v, Cell) = v[c] + (v[d] + Total(v, R))
  BY <1>5, <1>6
<1>9. Total(v, R) \in Int
  BY <1>6
<1> HIDE DEF R
<1>10. Total(w, Cell) = Total(v, Cell)
  BY <1>2, <1>4, <1>7, <1>8, <1>9
<1> QED
  BY <1>5, <1>10 DEF w, c

\* What the recursion of Fall computes.
Falls(g, v) ==
  \A T \in SUBSET (1..Size * (Size - 1)) :
    g[T] = IF T = {} THEN v ELSE Fallen(g[T \ {Max(T)}], Falling[Max(T)])

\* The recursion of Fall defines a function.
LEMMA FallIs ==
  ASSUME NEW v \in [Cell -> Nat]
  PROVE  \E g : Fall(v) = g[1..Size * (Size - 1)] /\ Falls(g, v)
<1> DEFINE I == 1..Size * (Size - 1)
           eq(g) == g = [T \in SUBSET I |-> IF T = {} THEN v
                           ELSE Fallen(g[T \ {Max(T)}], Falling[Max(T)])]
           x == [T \in SUBSET I |-> Max(T)]
           h == [z \in I \X [Cell -> Nat] |-> Fallen(z[2], Falling[z[1]])]
<1>1. IsFiniteSet(I) /\ I \in SUBSET Int
  <2>1. Size * (Size - 1) \in Int
    BY CellIs
  <2> QED
    BY <2>1, FS_Interval
<1>2. \A T \in SUBSET I : T # {} => x[T] \in T
  <2> SUFFICES ASSUME NEW T \in SUBSET I, T # {} PROVE Max(T) \in T
    OBVIOUS
  <2> HIDE DEF I
  <2>1. IsFiniteSet(T) /\ T \in SUBSET Int
    BY <1>1, FS_Subset
  <2> QED
    BY <2>1, MaxProperties
<1>3. /\ h \in [I \X [Cell -> Nat] -> [Cell -> Nat]]
      /\ \A i \in I, w \in [Cell -> Nat] : h[<<i, w>>] = Fallen(w, Falling[i])
  BY FallenIs
<1>4. PICK g \in [SUBSET I -> [Cell -> Nat]] : FoldsBy(g, I, v, x, h)
  <2> HIDE DEF I, x, h
  <2> QED
    BY <1>1, <1>2, <1>3, FoldExists
<1>5. eq(g)
  <2>1. ASSUME NEW T \in SUBSET I
        PROVE  g[T] = IF T = {} THEN v ELSE Fallen(g[T \ {Max(T)}], Falling[Max(T)])
    <3>1. CASE T = {}
      BY <1>4, <3>1 DEF FoldsBy
    <3>2. CASE T # {}
      <4>1. x[T] \in I /\ g[T \ {x[T]}] \in [Cell -> Nat] /\ x[T] = Max(T)
        BY <1>2, <3>2
      <4>2. g[T] = h[<<x[T], g[T \ {x[T]}]>>]
        BY <1>4, <3>2 DEF FoldsBy
      <4> HIDE DEF h, x, I
      <4> QED
        BY <1>3, <3>2, <4>1, <4>2
    <3> QED
      BY <3>1, <3>2
  <2> QED
    BY <2>1
<1> DEFINE k == CHOOSE k : eq(k)
<1>6. eq(k)
  <2> HIDE DEF eq
  <2> QED
    BY <1>5
<1>7. Fall(v) = k[I]
  <2>1. DOMAIN Falling = I
    BY DEF Falling
  <2> QED
    BY <2>1 DEF Fall, Falling, Fallen, FoldLeft, MapThenFoldSet
<1>8. Falls(k, v)
  <2> HIDE DEF k
  <2> QED
    BY <1>6 DEF Falls
<1> QED
  BY <1>7, <1>8

\* Falling moves fluid and makes none.
LEMMA FallConserves ==
  ASSUME NEW v \in [Cell -> Nat]
  PROVE  Fall(v) \in [Cell -> Nat] /\ Total(Fall(v), Cell) = Total(v, Cell)
<1> DEFINE I == 1..Size * (Size - 1)
<1>1. IsFiniteSet(I) /\ I \in SUBSET Int
  <2>1. Size * (Size - 1) \in Int
    BY CellIs
  <2> QED
    BY <2>1, FS_Interval
<1>2. PICK g : Fall(v) = g[I] /\ Falls(g, v)
  BY FallIs
<1> DEFINE G == {T \in SUBSET I : g[T] \in [Cell -> Nat] /\ Total(g[T], Cell) = Total(v, Cell)}
<1>3. ASSUME NEW T \in SUBSET I, \A U \in SUBSET T : U # T => U \in G PROVE T \in G
  <2>1. CASE T = {}
    BY <1>2, <2>1 DEF Falls
  <2>2. CASE T # {}
    <3> DEFINE i == Max(T)
               U == T \ {i}
    <3>1. i \in T
      <4>1. IsFiniteSet(T) /\ T \in SUBSET Int
        <5> HIDE DEF I
        <5> QED
          BY <1>1, FS_Subset
      <4> QED
        BY <2>2, <4>1, MaxProperties
    <3>2. g[T] = Fallen(g[U], Falling[i])
      BY <1>2, <2>2 DEF Falls
    <3> HIDE DEF i
    <3>3. U \in G
      <4>1. U \in SUBSET T /\ U # T
        BY <3>1
      <4> HIDE DEF G, U
      <4> QED
        BY <1>3, <4>1
    <3> HIDE DEF U
    <3>4. g[T] \in [Cell -> Nat] /\ Total(g[T], Cell) = Total(g[U], Cell)
      <4>1. g[U] \in [Cell -> Nat] /\ i \in I
        BY <3>1, <3>3
      <4> QED
        BY <3>2, <4>1, FallenIs
    <3> QED
      BY <3>3, <3>4
  <2> QED
    BY <2>1, <2>2
<1>4. I \in G
  <2>1. SUBSET I \subseteq G
    <3> HIDE DEF G, I
    <3> QED
      BY <1>1, <1>3, SubsetInduction
  <2>2. I \in SUBSET I
    OBVIOUS
  <2> HIDE DEF G, I
  <2> QED
    BY <2>1, <2>2
<1> QED
  BY <1>2, <1>4

\* The strokes of a cell share what it absorbs.
LEMMA SharesAre ==
  ASSUME NEW strokes, Absorbent(strokes), NEW grid \in Grids(strokes), NEW c \in Cell
  PROVE  /\ \A s \in grid.marks[c] : StrokeAbsorb(grid, c, s) \in Nat
         /\ Total([s \in grid.marks[c] |-> StrokeAbsorb(grid, c, s)], grid.marks[c])
            <= Absorb(grid, c)
<1> DEFINE M == grid.marks[c]
           a == Absorb(grid, c)
           t == TotalRate(M)
           rate == [s \in M |-> AbsorptionRate(s)]
           part == [s \in M |-> StrokeAbsorb(grid, c, s)]
           whole == [s \in M |-> a * rate[s]]
           back == [s \in M |-> t * part[s]]
<1>1. M \in SUBSET strokes
  BY DEF Grids
<1> HIDE DEF M
<1>2. Absorbent(M) /\ IsFiniteSet(M)
  BY <1>1, FS_Subset DEF Absorbent
<1>3. a \in Nat /\ (M = {} => a = 0)
  BY LossIs DEF M
<1>4. t \in Nat /\ (M # {} => t > 0) /\ t = Total(rate, M)
  BY <1>2, TotalRateIs
<1>5. \A s \in M : rate[s] \in Nat
  BY <1>2 DEF Absorbent
<1>6. \A s \in M : part[s] = (a * rate[s]) \div t
  BY DEF StrokeAbsorb, M
<1> HIDE DEF a, t, rate, part
<1>7. ASSUME NEW s \in M PROVE /\ part[s] \in Nat /\ a * rate[s] \in Nat
                               /\ t * part[s] <= a * rate[s]
  <2> DEFINE j == a * rate[s]
  <2>1. j \in Nat
    BY <1>3, <1>5
  <2>2. t \in Nat /\ t > 0
    BY <1>4
  <2>3. part[s] = j \div t
    BY <1>6
  <2> HIDE DEF j
  <2>4. j \div t \in Nat
    BY <2>1, <2>2
  <2>5. t * (j \div t) <= j
    BY <2>1, <2>2
  <2> QED
    BY <2>1, <2>3, <2>4, <2>5 DEF j
<1>8. CASE M = {}
  <2>1. Total(part, M) = 0
    BY <1>8, TotalEmpty
  <2> QED
    BY <1>3, <1>7, <1>8, <2>1 DEF part, M, a
<1>9. CASE M # {}
  <2>1. Total(back, M) = t * Total(part, M)
    <3>1. \A s \in M : part[s] \in Int /\ back[s] = t * part[s]
      BY <1>7
    <3> HIDE DEF back
    <3> QED
      BY <1>2, <1>4, <3>1, TotalTimes
  <2>2. Total(whole, M) = a * Total(rate, M)
    <3>1. \A s \in M : rate[s] \in Int /\ whole[s] = a * rate[s]
      BY <1>5
    <3> HIDE DEF whole
    <3> QED
      BY <1>2, <1>3, <3>1, TotalTimes
  <2>3. Total(back, M) <= Total(whole, M)
    <3>1. \A s \in M : back[s] \in Int /\ whole[s] \in Int /\ back[s] <= whole[s]
      <4> SUFFICES ASSUME NEW s \in M PROVE back[s] \in Int /\ whole[s] \in Int /\ back[s] <= whole[s]
        OBVIOUS
      <4>1. back[s] = t * part[s] /\ whole[s] = a * rate[s]
        OBVIOUS
      <4> HIDE DEF back, whole
      <4>2. t * part[s] \in Int
        BY <1>4, <1>7
      <4> QED
        BY <1>7, <4>1, <4>2
    <3> HIDE DEF back, whole
    <3> QED
      BY <1>2, <3>1, TotalMonotone
  <2>4. Total(part, M) \in Nat
    BY <1>2, <1>7, TotalNat
  <2> HIDE DEF back, whole
  <2> DEFINE p == Total(part, M)
  <2>5. t * p <= a * t /\ p \in Nat
    BY <1>4, <2>1, <2>2, <2>3, <2>4
  <2> HIDE DEF p
  <2>6. p <= a
    <3> SUFFICES ASSUME ~(p <= a) PROVE FALSE
      OBVIOUS
    <3>1. p >= a + 1
      BY <1>3, <2>5
    <3>2. t * p >= t * (a + 1)
      BY <1>3, <1>4, <2>5, <3>1
    <3>3. t * (a + 1) = a * t + t
      BY <1>3, <1>4
    <3> DEFINE x == a * t
               y == t * p
    <3>4. x \in Int /\ y \in Int /\ y <= x /\ y >= x + t
      BY <1>3, <1>4, <2>5, <3>2, <3>3
    <3>5. t > 0 /\ t \in Nat
      BY <1>4, <1>9
    <3> HIDE DEF x, y
    <3> QED
      BY <3>4, <3>5
  <2> QED
    BY <1>7, <2>6 DEF p, part, a, M
<1> QED
  BY <1>8, <1>9

\* What the strokes get from a cell in one step, as totals.
LEMMA StrokeTotalIs ==
  ASSUME NEW grid, NEW s, NEW S
  PROVE  MapThenSumSet(LAMBDA c : StrokeAbsorb(grid, c, s), S)
         = Total([c \in S |-> StrokeAbsorb(grid, c, s)], S)
BY DEF Total, MapThenSumSet, MapThenFoldSet

\* What each stroke gets in one step.
Shared(strokes, grid) ==
  [s \in strokes |-> MapThenSumSet(LAMBDA c : StrokeAbsorb(grid, c, s),
                                   {c \in Cell : s \in grid.marks[c]})]

\* What they get altogether is no more than the cells lose.
LEMMA StrokesGet ==
  ASSUME NEW strokes, Absorbent(strokes), NEW grid \in Grids(strokes)
  PROVE  LET get == Shared(strokes, grid) IN
         /\ get \in [strokes -> Nat]
         /\ \A s \in strokes : (\A c \in Cell : s \notin grid.marks[c]) => get[s] = 0
         /\ Total(get, strokes) <= Total([c \in Cell |-> Absorb(grid, c)], Cell)
<1> DEFINE get == Shared(strokes, grid)
           on(s) == {c \in Cell : s \in grid.marks[c]}
           row == [s \in strokes |-> [c \in Cell |->
                     IF s \in grid.marks[c] THEN StrokeAbsorb(grid, c, s) ELSE 0]]
           column == [c \in Cell |-> [s \in strokes |->
                        IF s \in grid.marks[c] THEN StrokeAbsorb(grid, c, s) ELSE 0]]
           given == [c \in Cell |-> Total(column[c], strokes)]
           take == [c \in Cell |-> Absorb(grid, c)]
<1>1. /\ IsFiniteSet(strokes) /\ \A c \in Cell : grid.marks[c] \in SUBSET strokes
      /\ DOMAIN get = strokes /\ get = [s \in strokes |-> get[s]]
  BY DEF Absorbent, Grids, Shared
<1> HIDE DEF get
<1>2. \A c \in Cell : \A s \in grid.marks[c] : StrokeAbsorb(grid, c, s) \in Nat
  BY SharesAre
<1>3. ASSUME NEW s \in strokes
      PROVE  /\ get[s] \in Nat /\ get[s] = Total(row[s], Cell)
             /\ (\A c \in Cell : s \notin grid.marks[c]) => get[s] = 0
  <2> DEFINE part == [c \in on(s) |-> StrokeAbsorb(grid, c, s)]
  <2>1. on(s) \in SUBSET Cell /\ IsFiniteSet(on(s))
    <3>1. on(s) \in SUBSET Cell
      OBVIOUS
    <3> HIDE DEF on
    <3> QED
      BY <3>1, CellIs, FS_Subset
  <2>2. get[s] = Total(part, on(s))
    <3>1. get[s] = MapThenSumSet(LAMBDA c : StrokeAbsorb(grid, c, s), on(s))
      BY DEF Shared, get
    <3> HIDE DEF on
    <3>2. MapThenSumSet(LAMBDA c : StrokeAbsorb(grid, c, s), on(s)) = Total(part, on(s))
      BY StrokeTotalIs
    <3> QED
      BY <3>1, <3>2
  <2>3. \A c \in on(s) : part[c] \in Nat
    BY <1>2
  <2>4. /\ \A c \in Cell : row[s][c] \in Int
        /\ \A c \in on(s) : row[s][c] = part[c]
        /\ \A c \in Cell \ on(s) : row[s][c] = 0
    BY <1>2
  <2>5. (\A c \in Cell : s \notin grid.marks[c]) => on(s) = {}
    OBVIOUS
  <2> HIDE DEF on, row, part
  <2>6. Total(row[s], Cell) = Total(part, on(s))
    BY <2>1, <2>4, CellIs, TotalWithin
  <2>7. Total(part, on(s)) \in Nat
    BY <2>1, <2>3, TotalNat
  <2>8. on(s) = {} => Total(part, on(s)) = 0
    BY TotalEmpty
  <2> QED
    BY <2>2, <2>5, <2>6, <2>7, <2>8
<1>4. ASSUME NEW c \in Cell PROVE given[c] \in Int /\ given[c] <= take[c] /\ take[c] \in Int
  <2> DEFINE M == grid.marks[c]
             part == [s \in M |-> StrokeAbsorb(grid, c, s)]
  <2>1. M \in SUBSET strokes /\ IsFiniteSet(M)
    BY <1>1, FS_Subset
  <2>2. Total(part, M) <= take[c]
    BY SharesAre
  <2>3. /\ \A s \in strokes : column[c][s] \in Int
        /\ \A s \in M : column[c][s] = part[s]
        /\ \A s \in strokes \ M : column[c][s] = 0
    BY <1>2, <2>1
  <2>4. given[c] = Total(column[c], strokes)
    OBVIOUS
  <2>5. take[c] \in Int
    BY LossIs
  <2> HIDE DEF M, part, column, given, take
  <2>6. given[c] = Total(part, M)
    BY <1>1, <2>1, <2>3, <2>4, TotalWithin
  <2>7. given[c] \in Int
    BY <1>1, <2>3, <2>4, TotalType
  <2> QED
    BY <2>2, <2>5, <2>6, <2>7
<1>5. Total(get, strokes) = Total(given, Cell)
  <2>1. Transposed(row, column, strokes, Cell)
    BY <1>2 DEF Transposed
  <2>2. Totals(get, row, strokes, Cell) /\ Totals(given, column, Cell, strokes)
    <3>1. \A c \in Cell : given[c] = Total(column[c], strokes)
      OBVIOUS
    <3> HIDE DEF row, column, given
    <3> QED
      BY <1>3, <3>1 DEF Totals
  <2> HIDE DEF row, column, given
  <2> QED
    BY <1>1, <2>1, <2>2, CellIs, TotalExchange
<1>6. Total(given, Cell) <= Total(take, Cell)
  <2> HIDE DEF given, take
  <2> QED
    BY <1>4, CellIs, TotalMonotone
<1>7. get \in [strokes -> Nat]
  BY <1>1, <1>3
<1> QED
  BY <1>3, <1>5, <1>6, <1>7 DEF get

\* The grids that hold or have given to the strokes exactly the fluid that was poured.
Balanced(strokes, fluid) ==
  {grid \in Grids(strokes) :
     /\ grid.marks = MarkStrokes(strokes)
     /\ Total(grid.volume, Cell) + grid.total = fluid
     /\ Total(grid.absorbed, strokes) <= grid.total
     /\ \A s \in strokes : MarkedCells(s) = {} => grid.absorbed[s] = 0}

\* The first grid is balanced.
LEMMA NewIsBalanced ==
  ASSUME NEW strokes, Absorbent(strokes), NEW intensity \in Nat
  PROVE  NewSimGrid(strokes, intensity) \in Balanced(strokes, 100 * intensity)
<1> DEFINE v == [c \in Cell |-> IF c = Center THEN 100 * intensity ELSE 0]
           a == [s \in strokes |-> 0]
<1>1. /\ v \in [Cell -> Nat] /\ v[Center] = 100 * intensity
      /\ \A c \in Cell \ {Center} : v[c] = 0
  BY CellIs
<1>2. Total(v, Cell) = 100 * intensity
  <2> DEFINE R == Cell \ {Center}
  <2>1. Total(v, Cell) = v[Center] + Total(v, R)
    <3> HIDE DEF v
    <3> QED
      BY <1>1, CellIs, TotalTake
  <2>2. IsFiniteSet(R) /\ Cardinality(R) \in Nat
    BY CellIs, FS_Subset, FS_CardinalityType
  <2> HIDE DEF R, v
  <2>3. Total(v, R) = Cardinality(R) * 0
    BY <1>1, <2>2, TotalConstant DEF R
  <2> QED
    BY <1>1, <2>1, <2>2, <2>3
<1>3. Total(a, strokes) = 0
  <2>1. Cardinality(strokes) \in Nat
    BY FS_CardinalityType DEF Absorbent
  <2>2. \A s \in strokes : a[s] = 0
    OBVIOUS
  <2> HIDE DEF a
  <2>3. Total(a, strokes) = Cardinality(strokes) * 0
    BY <2>2, TotalConstant DEF Absorbent
  <2> QED
    BY <2>1, <2>3
<1>4. MarkStrokes(strokes) \in [Cell -> SUBSET strokes]
  BY DEF MarkStrokes
<1> DEFINE g == NewSimGrid(strokes, intensity)
<1>5. /\ g = [volume |-> v, marks |-> MarkStrokes(strokes), absorbed |-> a, total |-> 0]
      /\ g.volume = v /\ g.marks = MarkStrokes(strokes) /\ g.absorbed = a /\ g.total = 0
  BY DEF NewSimGrid
<1>6. a \in [strokes -> Nat] /\ \A s \in strokes : a[s] = 0
  OBVIOUS
<1> HIDE DEF v, a, g
<1>7. g \in Grids(strokes)
  BY <1>1, <1>4, <1>5, <1>6 DEF Grids
<1> QED
  BY <1>2, <1>3, <1>5, <1>6, <1>7 DEF Balanced, g

\* What the cells lose to strokes in one step, as a total.
LEMMA TakenIs ==
  ASSUME NEW grid
  PROVE  MapThenSumSet(LAMBDA c : Absorb(grid, c), Cell) = Total([c \in Cell |-> Absorb(grid, c)], Cell)
BY DEF Total, MapThenSumSet, MapThenFoldSet

\* A step keeps the balance.
LEMMA StepIsBalanced ==
  ASSUME NEW strokes, Absorbent(strokes), NEW fluid \in Nat, NEW grid \in Balanced(strokes, fluid)
  PROVE  SimulationStep(grid) \in Balanced(strokes, fluid)
<1> DEFINE take == Total([c \in Cell |-> Absorb(grid, c)], Cell)
           get == Shared(strokes, grid)
           absorbed == [s \in strokes |-> grid.absorbed[s] + get[s]]
           volume == Fall(Spread(grid))
           next == SimulationStep(grid)
<1>1. /\ grid \in Grids(strokes) /\ grid.marks = MarkStrokes(strokes)
      /\ Total(grid.volume, Cell) + grid.total = fluid
      /\ Total(grid.absorbed, strokes) <= grid.total
      /\ \A s \in strokes : MarkedCells(s) = {} => grid.absorbed[s] = 0
  BY DEF Balanced
<1>2. /\ grid.volume \in [Cell -> Nat] /\ grid.absorbed \in [strokes -> Nat] /\ grid.total \in Nat
      /\ grid.marks \in [Cell -> SUBSET strokes]
  BY <1>1 DEF Grids
<1>3. take \in Nat /\ Total(Spread(grid), Cell) + take = Total(grid.volume, Cell)
      /\ Spread(grid) \in [Cell -> Nat]
  BY <1>1, SpreadConserves
<1>4. volume \in [Cell -> Nat] /\ Total(volume, Cell) = Total(Spread(grid), Cell)
  BY <1>3, FallConserves
<1>5. /\ get \in [strokes -> Nat]
      /\ \A s \in strokes : (\A c \in Cell : s \notin grid.marks[c]) => get[s] = 0
      /\ Total(get, strokes) <= take
  BY <1>1, StrokesGet
<1>6. next = [volume |-> volume, marks |-> grid.marks, absorbed |-> absorbed,
              total |-> grid.total + take]
  <2>1. DOMAIN grid.absorbed = strokes
    BY <1>2
  <2>2. MapThenSumSet(LAMBDA c : Absorb(grid, c), Cell) = take
    BY TakenIs
  <2>3. grid = [volume |-> grid.volume, marks |-> grid.marks, absorbed |-> grid.absorbed,
                total |-> grid.total]
    BY <1>1 DEF Grids
  <2>4. next = [grid EXCEPT !.volume = volume, !.absorbed = absorbed, !.total = @ + take]
    BY <2>1, <2>2 DEF SimulationStep, Shared
  <2> HIDE DEF next, volume, absorbed, take
  <2> QED
    BY <2>3, <2>4
<1> HIDE DEF take, get, volume, next
<1>7. absorbed \in [strokes -> Nat] /\ \A s \in strokes : MarkedCells(s) = {} => absorbed[s] = 0
  <2>1. ASSUME NEW s \in strokes, MarkedCells(s) = {} PROVE \A c \in Cell : s \notin grid.marks[c]
    BY <1>1, <2>1 DEF MarkStrokes
  <2> QED
    BY <1>1, <1>2, <1>5, <2>1
<1>8. Total(absorbed, strokes) = Total(grid.absorbed, strokes) + Total(get, strokes)
  <2>1. \A s \in strokes : /\ grid.absorbed[s] \in Int /\ get[s] \in Int
                           /\ absorbed[s] = grid.absorbed[s] + get[s]
    BY <1>2, <1>5
  <2> HIDE DEF absorbed
  <2> QED
    BY <2>1, TotalAdd DEF Absorbent
<1>9. /\ Total(grid.absorbed, strokes) \in Int /\ Total(get, strokes) \in Int
      /\ Total(grid.volume, Cell) \in Int /\ Total(Spread(grid), Cell) \in Int
  BY <1>2, <1>3, <1>5, CellIs, TotalType DEF Absorbent
<1> HIDE DEF absorbed
<1>10. Total(volume, Cell) + (grid.total + take) = fluid
  BY <1>1, <1>2, <1>3, <1>4, <1>9
<1>11. Total(absorbed, strokes) <= grid.total + take
  BY <1>1, <1>2, <1>3, <1>5, <1>8, <1>9
<1>12. next \in Grids(strokes)
  BY <1>2, <1>3, <1>4, <1>6, <1>7 DEF Grids
<1>13. /\ next.volume = volume /\ next.marks = grid.marks /\ next.absorbed = absorbed
       /\ next.total = grid.total + take
  BY <1>6
<1> QED
  BY <1>1, <1>7, <1>10, <1>11, <1>12, <1>13 DEF Balanced, next

\* The grids of a simulation: the first one, and each one step after that before it.
LEMMA RunIs ==
  ASSUME NEW strokes, Absorbent(strokes), NEW intensity \in Nat
  PROVE  /\ RunSimulation(strokes, intensity)[0] = NewSimGrid(strokes, intensity)
         /\ \A n \in 0..Steps : n # 0 =>
              RunSimulation(strokes, intensity)[n]
              = SimulationStep(RunSimulation(strokes, intensity)[n - 1])
<1> DEFINE V == Balanced(strokes, 100 * intensity)
           first == NewSimGrid(strokes, intensity)
           eq(g) == g = [m \in Nat |-> IF m = 0 THEN first ELSE SimulationStep(g[m - 1])]
           base == {0}
           b == [m \in base |-> first]
           p == [m \in Nat \ base |-> m - 1]
           h == [z \in (Nat \ base) \X V |-> SimulationStep(z[2])]
           r == [m \in Nat |-> m]
<1>1. first \in V /\ \A g \in V : SimulationStep(g) \in V
  BY NewIsBalanced, StepIsBalanced
<1> HIDE DEF V, first
<1>2. /\ base \in SUBSET Nat /\ b \in [base -> V] /\ p \in [Nat \ base -> Nat]
      /\ r \in [Nat -> Nat] /\ \A m \in Nat \ base : r[p[m]] < r[m]
  BY <1>1
<1>3. /\ h \in [(Nat \ base) \X V -> V]
      /\ \A m \in Nat \ base, g \in V : h[<<m, g>>] = SimulationStep(g)
  BY <1>1
<1>4. PICK g \in [Nat -> V] : Solves(g, Nat, base, b, p, h)
  <2> HIDE DEF base, b, p, h, r
  <2> QED
    BY <1>2, <1>3, RecursionExists
<1>5. eq(g)
  <2>1. ASSUME NEW m \in Nat PROVE g[m] = IF m = 0 THEN first ELSE SimulationStep(g[m - 1])
    <3>1. CASE m = 0
      BY <1>4, <3>1 DEF Solves
    <3>2. CASE m # 0
      <4>1. m \in Nat \ base /\ p[m] = m - 1 /\ g[m - 1] \in V
        BY <3>2
      <4>2. g[m] = h[<<m, g[p[m]]>>]
        BY <1>4, <4>1 DEF Solves
      <4> HIDE DEF h, p, base
      <4> QED
        BY <1>3, <3>2, <4>1, <4>2
    <3> QED
      BY <3>1, <3>2
  <2> QED
    BY <2>1
<1> DEFINE k == CHOOSE k : eq(k)
<1>6. eq(k)
  <2> HIDE DEF eq
  <2> QED
    BY <1>5
<1>7. RunSimulation(strokes, intensity) = [m \in 0..Steps |-> k[m]]
  BY DEF RunSimulation, first
<1>8. 0 \in 0..Steps /\ \A n \in 0..Steps : n # 0 => n - 1 \in 0..Steps /\ n \in Nat
  OBVIOUS
<1> HIDE DEF k
<1> DEFINE run == RunSimulation(strokes, intensity)
<1>9. \A n \in 0..Steps : run[n] = k[n]
  BY <1>7
<1> HIDE DEF run
<1>10. run[0] = first /\ \A n \in 0..Steps : n # 0 => run[n] = SimulationStep(run[n - 1])
  BY <1>6, <1>8, <1>9
<1> QED
  BY <1>10 DEF run, first

\* So every grid of a simulation is balanced.
LEMMA RunIsBalanced ==
  ASSUME NEW strokes, Absorbent(strokes), NEW intensity \in Nat, NEW n \in 0..Steps
  PROVE  RunSimulation(strokes, intensity)[n] \in Balanced(strokes, 100 * intensity)
<1> DEFINE V == Balanced(strokes, 100 * intensity)
           run == RunSimulation(strokes, intensity)
           G == {m \in Nat : m <= Steps => run[m] \in V}
<1>1. run[0] \in V /\ \A g \in V : SimulationStep(g) \in V
  BY RunIs, NewIsBalanced, StepIsBalanced
<1>2. \A m \in 0..Steps : m # 0 => run[m] = SimulationStep(run[m - 1])
  BY RunIs
<1> HIDE DEF V, run
<1>3. ASSUME NEW m \in Nat, m \in G PROVE m + 1 \in G
  <2> SUFFICES ASSUME m + 1 <= Steps PROVE run[m + 1] \in V
    OBVIOUS
  <2>1. m + 1 \in 0..Steps /\ m + 1 # 0 /\ (m + 1) - 1 = m /\ m <= Steps
    OBVIOUS
  <2>2. run[m + 1] = SimulationStep(run[m])
    BY <1>2, <2>1
  <2> QED
    BY <1>1, <1>3, <2>1, <2>2
<1>4. 0 \in G
  BY <1>1
<1>5. Nat \subseteq G
  <2> HIDE DEF G
  <2> QED
    BY <1>3, <1>4, NatSetInduction
<1> QED
  BY <1>5 DEF V, run

\* In every grid of a simulation no cell holds less than nothing, what was poured is on
\* the grid or absorbed, and the strokes on the grid share what was absorbed.
LEMMA RunConserves ==
  ASSUME NEW strokes, Absorbent(strokes), NEW intensity \in Nat, NEW n \in 0..Steps
  PROVE  Conserved(RunSimulation(strokes, intensity)[n], intensity)
<1> DEFINE grid == RunSimulation(strokes, intensity)[n]
<1>1. grid \in Balanced(strokes, 100 * intensity)
  BY RunIsBalanced
<1> HIDE DEF grid
<1>2. /\ grid.volume \in [Cell -> Nat] /\ grid.absorbed \in [strokes -> Nat] /\ grid.total \in Nat
      /\ Total(grid.volume, Cell) + grid.total = 100 * intensity
      /\ Total(grid.absorbed, strokes) <= grid.total
      /\ \A s \in strokes : MarkedCells(s) = {} => grid.absorbed[s] = 0
  BY <1>1 DEF Balanced, Grids
<1>3. Volume(grid) = Total(grid.volume, Cell)
  BY DEF Volume, Total
<1>4. MapThenSumSet(LAMBDA s : grid.absorbed[s], DOMAIN grid.absorbed)
      = Total(grid.absorbed, strokes)
  <2>1. DOMAIN grid.absorbed = strokes
    BY <1>2
  <2> QED
    BY <2>1 DEF Total
<1>5. \A s \in DOMAIN ComputeStrokeMutations(grid.absorbed) : MarkedCells(s) # {}
  BY <1>2 DEF ComputeStrokeMutations
<1>6. \A c \in Cell : grid.volume[c] >= 0
  BY <1>2
<1>7. Conserved(grid, intensity)
  BY <1>2, <1>3, <1>4, <1>5, <1>6 DEF Conserved
<1> QED
  BY <1>7 DEF grid

-----------------------------------------------------------------------------
(* Strokes have no gaps.                                                    *)

\* Cells that touch, at a side or a corner.
Touch(c, d) == Abs(d[1] - c[1]) <= 1 /\ Abs(d[2] - c[2]) <= 1

\* Cells that no gap divides: some of them that touch none of the others are all.
Connected(S) ==
  \A U \in SUBSET S : U # {} /\ (\A c \in U, d \in S : Touch(c, d) => d \in U) => U = S

\* What is connected is reached from any of its cells.
LEMMA ConnectedIsGapless ==
  ASSUME NEW stroke, MarkedCells(stroke) \in SUBSET Cell, Connected(MarkedCells(stroke))
  PROVE  Gapless(stroke)
<1> DEFINE cells == MarkedCells(stroke)
           near(c) == {d \in cells : Abs(d[1] - c[1]) <= 1 /\ Abs(d[2] - c[2]) <= 1}
           start == CHOOSE c \in cells : TRUE
           eq(g) == g = [n \in Nat |-> IF n = 0 THEN {start} ELSE UNION {near(c) : c \in g[n - 1]}]
<1>1. cells \in SUBSET Cell /\ IsFiniteSet(cells) /\ Connected(cells)
  BY CellIs, FS_Subset
<1> HIDE DEF cells
<1>2. SUFFICES ASSUME cells # {} PROVE (CHOOSE g : eq(g))[Cardinality(cells)] = cells
  BY DEF Gapless, cells
<1>3. start \in cells
  BY <1>2
<1> HIDE DEF start
<1>4. \E g : eq(g)
  <2> DEFINE V == SUBSET cells
             h == [z \in Nat \X V |-> UNION {near(c) : c \in z[2]}]
  <2>1. {start} \in V /\ h \in [Nat \X V -> V]
    BY <1>3
  <2>2. PICK g \in [Nat -> V] : Iterates(g, {start}, h)
    <3> HIDE DEF V, h
    <3> QED
      BY <2>1, IterationExists
  <2>3. ASSUME NEW n \in Nat
        PROVE  g[n] = IF n = 0 THEN {start} ELSE UNION {near(c) : c \in g[n - 1]}
    <3>1. CASE n = 0
      BY <2>2, <3>1 DEF Iterates
    <3>2. CASE n # 0
      <4>1. n - 1 \in Nat /\ g[n - 1] \in V
        BY <3>2
      <4>2. g[n] = h[<<n, g[n - 1]>>]
        BY <2>2, <3>2 DEF Iterates
      <4> HIDE DEF near
      <4> QED
        BY <3>2, <4>1, <4>2
    <3> QED
      BY <3>1, <3>2
  <2> HIDE DEF near
  <2> QED
    BY <2>3
<1> DEFINE g == CHOOSE g : eq(g)
<1>5. eq(g)
  <2> HIDE DEF eq
  <2> QED
    BY <1>4
<1> HIDE DEF g
<1>6. /\ g[0] = {start}
      /\ \A n \in Nat : g[n + 1] = UNION {near(c) : c \in g[n]}
  BY <1>5
<1>7. \A c \in cells : c \in near(c)
  BY <1>1, CellIs DEF Abs
<1>8. \A c, d : d \in near(c) <=> d \in cells /\ Touch(c, d)
  BY DEF Touch
<1> HIDE DEF near
<1> DEFINE big(n) == n < Cardinality(g[n]) \/ g[n] = cells
           G == {n \in Nat : g[n] \in SUBSET cells /\ big(n)}
<1>9. Nat \subseteq G
  <2>1. 0 \in G
    <3>1. Cardinality({start}) = 1
      BY FS_Singleton
    <3>2. g[0] \in SUBSET cells /\ Cardinality(g[0]) = 1
      BY <1>3, <1>6, <3>1
    <3>3. big(0)
      BY <3>2
    <3> QED
      BY <3>2, <3>3
  <2>2. ASSUME NEW n \in Nat, n \in G PROVE n + 1 \in G
    <3> DEFINE now == g[n]
               next == g[n + 1]
    <3>1. now \in SUBSET cells /\ next = UNION {near(c) : c \in now}
      BY <1>6, <2>2
    <3>2. next \in SUBSET cells /\ now \in SUBSET next
      BY <1>7, <1>8, <3>1
    <3>3. IsFiniteSet(next) /\ IsFiniteSet(now)
          /\ Cardinality(next) \in Nat /\ Cardinality(now) \in Nat
      BY <1>1, <3>1, <3>2, FS_Subset, FS_CardinalityType
    <3>4. now # {}
      <4>1. CASE n < Cardinality(now)
        BY <4>1, FS_EmptySet
      <4> QED
        BY <1>2, <2>2, <4>1
    <3>5. CASE now = cells
      BY <3>2, <3>5
    <3>6. CASE next = now
      <4>1. \A c \in now, d \in cells : Touch(c, d) => d \in now
        BY <1>8, <3>1, <3>6
      <4>2. now = cells
        BY <1>1, <3>1, <3>4, <4>1 DEF Connected
      <4> QED
        BY <3>5, <4>2
    <3>7. CASE now # cells /\ next # now
      <4>1. Cardinality(now) < Cardinality(next)
        BY <3>2, <3>3, <3>7, FS_Subset
      <4>2. n < Cardinality(now)
        BY <2>2, <3>7
      <4> HIDE DEF now, next
      <4>3. n + 1 < Cardinality(next)
        BY <3>3, <4>1, <4>2
      <4> QED
        BY <3>2, <4>3 DEF now, next
    <3> QED
      BY <3>5, <3>6, <3>7
  <2> HIDE DEF G
  <2> QED
    BY <2>1, <2>2, NatSetInduction
<1>10. Cardinality(cells) \in Nat
  BY <1>1, FS_CardinalityType
<1>11. g[Cardinality(cells)] \in SUBSET cells /\ big(Cardinality(cells))
  BY <1>9, <1>10
<1>12. Cardinality(g[Cardinality(cells)]) \in Nat
       /\ Cardinality(g[Cardinality(cells)]) <= Cardinality(cells)
  BY <1>1, <1>11, FS_Subset, FS_CardinalityType
<1> QED
  BY <1>10, <1>11, <1>12 DEF g

\* Two connected sets with a common cell are connected together.
LEMMA ConnectedUnion ==
  ASSUME NEW S, NEW T, Connected(S), Connected(T), S \cap T # {}
  PROVE  Connected(S \cup T)
<1> SUFFICES ASSUME NEW U \in SUBSET (S \cup T), U # {},
                    \A c \in U, d \in S \cup T : Touch(c, d) => d \in U
             PROVE  U = S \cup T
  BY DEF Connected
<1>1. U \cap S # {} => S \subseteq U
  <2> DEFINE A == U \cap S
  <2>1. A \in SUBSET S /\ \A c \in A, d \in S : Touch(c, d) => d \in A
    OBVIOUS
  <2> HIDE DEF A
  <2>2. A # {} => A = S
    BY <2>1 DEF Connected
  <2> QED
    BY <2>2 DEF A
<1>2. U \cap T # {} => T \subseteq U
  <2> DEFINE A == U \cap T
  <2>1. A \in SUBSET T /\ \A c \in A, d \in T : Touch(c, d) => d \in A
    OBVIOUS
  <2> HIDE DEF A
  <2>2. A # {} => A = T
    BY <2>1 DEF Connected
  <2> QED
    BY <2>2 DEF A
<1> QED
  BY <1>1, <1>2

\* Cells one after the other, each of which touches the next, are connected.
LEMMA ChainIsConnected ==
  ASSUME NEW m \in Nat, NEW n \in Nat, NEW f, \A i \in m..n : f[i] \in Int \X Int,
         \A i \in m..n : i + 1 <= n => Touch(f[i], f[i + 1])
  PROVE  Connected({f[i] : i \in m..n})
<1> DEFINE S == {f[i] : i \in m..n}
<1> SUFFICES ASSUME NEW U \in SUBSET S, U # {}, \A c \in U, d \in S : Touch(c, d) => d \in U
             PROVE  U = S
  BY DEF Connected
<1>1. PICK j \in m..n : f[j] \in U
  OBVIOUS
<1>2. \A i \in m..n : i + 1 <= n => (f[i] \in U <=> f[i + 1] \in U)
  <2> SUFFICES ASSUME NEW i \in m..n, i + 1 <= n PROVE f[i] \in U <=> f[i + 1] \in U
    OBVIOUS
  <2>1. i + 1 \in m..n
    OBVIOUS
  <2>2. Touch(f[i], f[i + 1]) /\ f[i] \in Int \X Int /\ f[i + 1] \in Int \X Int
    BY <2>1
  <2>3. Touch(f[i + 1], f[i])
    <3>1. /\ f[i][1] \in Int /\ f[i][2] \in Int /\ f[i + 1][1] \in Int /\ f[i + 1][2] \in Int
      BY <2>2
    <3> QED
      BY <2>2, <3>1 DEF Touch, Abs
  <2> QED
    BY <2>1, <2>2, <2>3
<1> HIDE DEF S
<1> DEFINE G == {k \in Nat : (j + k <= n => f[j + k] \in U) /\ (m <= j - k => f[j - k] \in U)}
<1>3. Nat \subseteq G
  <2>1. 0 \in G
    BY <1>1
  <2>2. ASSUME NEW k \in Nat, k \in G PROVE k + 1 \in G
    <3>1. ASSUME j + (k + 1) <= n PROVE f[j + (k + 1)] \in U
      <4>1. j + k \in m..n /\ (j + k) + 1 <= n /\ f[j + k] \in U
        BY <2>2, <3>1
      <4>2. (j + k) + 1 = j + (k + 1)
        OBVIOUS
      <4> QED
        BY <1>2, <4>1, <4>2
    <3>2. ASSUME m <= j - (k + 1) PROVE f[j - (k + 1)] \in U
      <4>1. j - (k + 1) \in m..n /\ (j - (k + 1)) + 1 <= n /\ f[j - k] \in U
        BY <2>2, <3>2
      <4>2. (j - (k + 1)) + 1 = j - k
        OBVIOUS
      <4> QED
        BY <1>2, <4>1, <4>2
    <3> QED
      BY <3>1, <3>2
  <2> HIDE DEF G
  <2> QED
    BY <2>1, <2>2, NatSetInduction
<1>4. ASSUME NEW i \in m..n PROVE f[i] \in U
  <2>1. CASE i >= j
    <3>1. i - j \in Nat /\ j + (i - j) = i
      BY <2>1
    <3>2. i - j \in G
      BY <1>3, <3>1
    <3> QED
      BY <3>1, <3>2
  <2>2. CASE i < j
    <3>1. j - i \in Nat /\ j - (j - i) = i
      BY <2>2
    <3>2. j - i \in G
      BY <1>3, <3>1
    <3> QED
      BY <3>1, <3>2
  <2> QED
    BY <2>1, <2>2
<1> QED
  BY <1>4 DEF S

\* What a quotient rounded towards zero is.
LEMMA TruncatedIs ==
  ASSUME NEW x \in Int, NEW d \in Nat \ {0}
  PROVE  /\ Truncated(x, d) \in Int
         /\ x >= 0 => Truncated(x, d) >= 0
                      /\ d * Truncated(x, d) <= x /\ x < d * Truncated(x, d) + d
         /\ x < 0 => Truncated(x, d) <= 0
                     /\ x <= d * Truncated(x, d) /\ d * Truncated(x, d) - d < x
<1>1. CASE x >= 0
  <2> DEFINE q == x \div d
  <2>1. q \in Nat /\ d * q <= x /\ x < d * q + d
    BY <1>1, SMTT(30)
  <2>2. Truncated(x, d) = q
    BY <1>1 DEF Truncated
  <2> QED
    BY <1>1, <2>1, <2>2
<1>2. CASE x < 0
  <2> DEFINE z == -x
             q == z \div d
  <2>1. z \in Nat
    BY <1>2
  <2>2. q \in Nat /\ d * q <= z /\ z < d * q + d
    <3> HIDE DEF z
    <3> QED
      BY <2>1, SMTT(30)
  <2>3. Truncated(x, d) = -q
    BY <1>2 DEF Truncated
  <2> HIDE DEF q
  <2>4. d * (-q) = -(d * q)
    BY <2>2
  <2> QED
    BY <1>2, <2>2, <2>3, <2>4
<1> QED
  BY <1>1, <1>2

\* Of two multiples, the smaller is at least one divisor less.
LEMMA MultiplesApart ==
  ASSUME NEW d \in Nat \ {0}, NEW q \in Int, NEW r \in Int
  PROVE  /\ d * q \in Int /\ d * r \in Int
         /\ r < q => d * r + d <= d * q
         /\ r + 1 < q => d * r + d + d <= d * q
         /\ q >= 0 => d * q >= 0
         /\ q <= 0 => d * q <= 0
<1>1. d * q \in Int /\ d * r \in Int /\ (q >= 0 => d * q >= 0) /\ (q <= 0 => d * q <= 0)
  OBVIOUS
<1>2. ASSUME r < q PROVE d * r + d <= d * q
  <2>1. PICK k \in Nat : q = r + 1 + k
    <3>1. q - r - 1 \in Nat /\ q = r + 1 + (q - r - 1)
      BY <1>2
    <3> QED
      BY <3>1
  <2>2. d * (r + 1 + k) = d * r + d + d * k /\ d * k \in Nat
    BY <2>1
  <2> QED
    BY <2>1, <2>2
<1>3. ASSUME r + 1 < q PROVE d * r + d + d <= d * q
  <2>1. PICK k \in Nat : q = r + 2 + k
    <3>1. q - r - 2 \in Nat /\ q = r + 2 + (q - r - 2)
      BY <1>3
    <3> QED
      BY <3>1
  <2>2. d * (r + 2 + k) = d * r + d + d + d * k /\ d * k \in Nat
    BY <2>1
  <2> QED
    BY <2>1, <2>2
<1> QED
  BY <1>1, <1>2, <1>3

\* A greater number has no smaller quotient, and one that is not a divisor greater has
\* at most the next.
LEMMA TruncatedSteps ==
  ASSUME NEW x \in Int, NEW y \in Int, NEW d \in Nat \ {0}, x <= y
  PROVE  /\ Truncated(x, d) \in Int /\ Truncated(y, d) \in Int
         /\ Truncated(x, d) <= Truncated(y, d)
         /\ y <= x + d => Truncated(y, d) <= Truncated(x, d) + 1
<1> DEFINE q == Truncated(x, d)
           r == Truncated(y, d)
<1>1. /\ q \in Int /\ r \in Int
      /\ x >= 0 => q >= 0 /\ d * q <= x /\ x < d * q + d
      /\ x < 0 => q <= 0 /\ x <= d * q /\ d * q - d < x
      /\ y >= 0 => r >= 0 /\ d * r <= y /\ y < d * r + d
      /\ y < 0 => r <= 0 /\ y <= d * r /\ d * r - d < y
  BY TruncatedIs
<1> HIDE DEF q, r
<1>2. /\ d * q \in Int /\ d * r \in Int
      /\ r < q => d * r + d <= d * q
      /\ q + 1 < r => d * q + d + d <= d * r
  BY <1>1, MultiplesApart
<1>3. q <= r
  BY <1>1, <1>2
<1>4. y <= x + d => r <= q + 1
  BY <1>1, <1>2
<1> QED
  BY <1>1, <1>3, <1>4 DEF q, r

\* A common factor does not change a quotient.
LEMMA TruncatedScaled ==
  ASSUME NEW x \in Int, NEW d \in Nat \ {0}, NEW n \in Nat \ {0}
  PROVE  Truncated(x * n, d * n) = Truncated(x, d)
<1> DEFINE y == x * n
           e == d * n
           q == Truncated(x, d)
           r == Truncated(y, e)
<1>1. y \in Int /\ e \in Nat \ {0} /\ (x >= 0 => y >= 0) /\ (x < 0 => y < 0)
  OBVIOUS
<1>2. /\ q \in Int
      /\ x >= 0 => q >= 0 /\ d * q <= x /\ x < d * q + d
      /\ x < 0 => q <= 0 /\ x <= d * q /\ d * q - d < x
  BY TruncatedIs
<1>3. /\ r \in Int
      /\ y >= 0 => r >= 0 /\ e * r <= y /\ y < e * r + e
      /\ y < 0 => r <= 0 /\ y <= e * r /\ e * r - e < y
  <2> HIDE DEF y, e
  <2> QED
    BY <1>1, TruncatedIs
<1>4. /\ x >= 0 => e * q <= y /\ y < e * q + e
      /\ x < 0 => y <= e * q /\ e * q - e < y
  <2> DEFINE z == d * q
  <2>1. z \in Int /\ e * q = z * n
    BY <1>2
  <2>2. \A a \in Int, b \in Int : a <= b => a * n <= b * n
    OBVIOUS
  <2>3. \A a \in Int, b \in Int : a < b => a * n < b * n
    OBVIOUS
  <2>4. (z + d) * n = z * n + e /\ (z - d) * n = z * n - e
    BY <2>1
  <2> HIDE DEF z
  <2>5. z + d \in Int /\ z - d \in Int
    BY <2>1
  <2>6. x >= 0 => z * n <= y /\ y < (z + d) * n
    BY <1>2, <2>1, <2>2, <2>3, <2>5 DEF z
  <2>7. x < 0 => y <= z * n /\ (z - d) * n < y
    BY <1>2, <2>1, <2>2, <2>3, <2>5 DEF z
  <2> HIDE DEF y, e
  <2> QED
    BY <2>1, <2>4, <2>6, <2>7
<1> HIDE DEF y, e, q, r
<1>5. /\ e * q \in Int /\ e * r \in Int
      /\ r < q => e * r + e <= e * q
      /\ q < r => e * q + e <= e * r
  BY <1>1, <1>2, <1>3, MultiplesApart
<1>6. r = q
  BY <1>1, <1>2, <1>3, <1>4, <1>5
<1> QED
  BY <1>6 DEF y, e, q, r

\* The samples of a line, from p to q: n + 1 of them, in n-ths of a world coordinate.
Along(a, b, n, i) == a * n + i * (b - a) + Radius * CellSize * n
Sample(a, b, n, i) == Truncated(Along(a, b, n, i), CellSize * n)
Reach(p, q) == Truncated(2 * Max({Abs(q[1] - p[1]), Abs(q[2] - p[2])}), CellSize)

\* The cell of a point.
Place(a) == Truncated(a + Radius * CellSize, CellSize)
Spot(p) == <<Place(p[1]), Place(p[2])>>

\* The greater of two numbers.
LEMMA MaxOfTwo ==
  ASSUME NEW x \in Int, NEW y \in Int
  PROVE  Max({x, y}) \in {x, y} /\ x <= Max({x, y}) /\ y <= Max({x, y})
<1> DEFINE M == {x} \cup {y}
<1>1. IsFiniteSet(M)
  BY FS_Singleton, FS_AddElement
<1>2. M = {x, y} /\ M \in SUBSET Int /\ M # {}
  OBVIOUS
<1> HIDE DEF M
<1>3. Max(M) \in M /\ \A z \in M : z <= Max(M)
  BY <1>1, <1>2, MaxProperties
<1> QED
  BY <1>2, <1>3

\* A line has as many samples that two of them in a row are at most a cell apart.
LEMMA SamplesAreClose ==
  ASSUME NEW p \in Int \X Int, NEW q \in Int \X Int
  PROVE  LET n == Max({Reach(p, q), 1})
         IN  /\ n \in Nat \ {0}
             /\ \A k \in {1, 2} : q[k] - p[k] <= CellSize * n /\ p[k] - q[k] <= CellSize * n
<1> DEFINE a == Abs(q[1] - p[1])
           b == Abs(q[2] - p[2])
           m == Max({a, b})
           t == Reach(p, q)
           n == Max({t, 1})
<1>1. /\ a \in Nat /\ b \in Nat
      /\ q[1] - p[1] <= a /\ p[1] - q[1] <= a /\ q[2] - p[2] <= b /\ p[2] - q[2] <= b
  BY DEF Abs
<1>2. m \in Nat /\ a <= m /\ b <= m
  <2> HIDE DEF a, b
  <2>1. a \in Int /\ b \in Int
    BY <1>1
  <2>2. Max({a, b}) \in {a, b} /\ a <= Max({a, b}) /\ b <= Max({a, b})
    BY <2>1, MaxOfTwo, Zenon
  <2> QED
    BY <1>1, <2>2
<1>4. t \in Nat /\ 2 * m < 10 * t + 10
  <2>1. t = Truncated(2 * m, 10)
    BY DEF Reach, CellSize
  <2> HIDE DEF m, t
  <2>2. 2 * m \in Int /\ 10 \in Nat \ {0} /\ 2 * m >= 0
    BY <1>2
  <2> QED
    BY <2>1, <2>2, TruncatedIs
<1>5. n \in Nat \ {0} /\ t <= n
  <2> HIDE DEF t
  <2>1. t \in Int /\ 1 \in Int
    BY <1>4
  <2>2. Max({t, 1}) \in {t, 1} /\ t <= Max({t, 1}) /\ 1 <= Max({t, 1})
    BY <2>1, MaxOfTwo, Zenon
  <2> QED
    BY <1>4, <2>2
<1> HIDE DEF a, b, m, t, n
<1>6. m <= 10 * n
  BY <1>2, <1>4, <1>5
<1>7. q[1] - p[1] <= 10 * n /\ p[1] - q[1] <= 10 * n /\ q[2] - p[2] <= 10 * n /\ p[2] - q[2] <= 10 * n
  BY <1>1, <1>2, <1>5, <1>6
<1> QED
  BY <1>5, <1>7 DEF n, t, CellSize

\* A sample is near the one before it and between two others; the first and the last are
\* those of the ends.
Glides(a, b, n) ==
  /\ \A i \in Int : Sample(a, b, n, i) \in Int
  /\ \A i \in Int : Sample(a, b, n, i + 1) - Sample(a, b, n, i) \in -1..1
  /\ \A i, j, k \in Int : i <= j /\ j <= k =>
       \/ Sample(a, b, n, i) <= Sample(a, b, n, j) /\ Sample(a, b, n, j) <= Sample(a, b, n, k)
       \/ Sample(a, b, n, k) <= Sample(a, b, n, j) /\ Sample(a, b, n, j) <= Sample(a, b, n, i)
  /\ Sample(a, b, n, 0) = Place(a) /\ Sample(a, b, n, n) = Place(b)

\* So do the samples of every line.
LEMMA SamplesGlide ==
  ASSUME NEW a \in Int, NEW b \in Int, NEW n \in Nat \ {0},
         b - a <= CellSize * n, a - b <= CellSize * n
  PROVE  Glides(a, b, n)
<1> DEFINE d == CellSize * n
           y(i) == Along(a, b, n, i)
           t(i) == Truncated(y(i), d)
<1>1. d \in Nat \ {0}
  BY DEF CellSize
<1>2. ASSUME NEW i \in Int PROVE y(i) \in Int /\ y(i + 1) = y(i) + (b - a)
  BY DEF Along, CellSize
<1>3. ASSUME NEW i \in Int, NEW j \in Int, i <= j
      PROVE  /\ b >= a => y(i) <= y(j)
             /\ b <= a => y(j) <= y(i)
  <2> DEFINE e == b - a
  <2>1. e \in Int /\ (b >= a <=> e >= 0) /\ (b <= a <=> e <= 0)
    OBVIOUS
  <2>2. PICK k \in Nat : j = i + k
    <3>1. j - i \in Nat /\ j = i + (j - i)
      BY <1>3
    <3> QED
      BY <3>1
  <2> DEFINE z == a * n
             w == Radius * CellSize * n
  <2>3. z \in Int /\ w \in Int /\ y(i) = z + i * e + w /\ y(j) = z + j * e + w
    BY DEF Along, CellSize
  <2> HIDE DEF e, y, z, w
  <2>4. j * e = i * e + k * e /\ (e >= 0 => k * e >= 0) /\ (e <= 0 => k * e <= 0)
        /\ i * e \in Int /\ k * e \in Int
    BY <2>1, <2>2
  <2> QED
    BY <1>2, <2>1, <2>3, <2>4
<1>4. /\ y(0) = (a + Radius * CellSize) * n
      /\ y(n) = (b + Radius * CellSize) * n
  BY DEF Along, CellSize
<1>5. t(0) = Truncated(a + Radius * CellSize, CellSize) /\ t(n) = Truncated(b + Radius * CellSize, CellSize)
  <2>1. /\ a + Radius * CellSize \in Int /\ b + Radius * CellSize \in Int
        /\ CellSize \in Nat \ {0}
    BY DEF CellSize
  <2> DEFINE x == a + Radius * CellSize
             z == b + Radius * CellSize
  <2> HIDE DEF y, x, z
  <2>2. Truncated(x * n, CellSize * n) = Truncated(x, CellSize)
        /\ Truncated(z * n, CellSize * n) = Truncated(z, CellSize)
    BY <2>1, TruncatedScaled DEF x, z
  <2> QED
    BY <1>4, <2>2 DEF x, z
<1> HIDE DEF y
<1>6. d = CellSize * n
  OBVIOUS
<1>7. ASSUME NEW i \in Int PROVE t(i) \in Int /\ t(i + 1) - t(i) \in -1..1
  <2>1. i + 1 \in Int /\ y(i) \in Int /\ y(i + 1) \in Int
    BY <1>2
  <2>2. CASE b >= a
    <3>1. y(i) <= y(i + 1) /\ y(i + 1) <= y(i) + d
      BY <1>1, <1>2, <2>1, <2>2
    <3> HIDE DEF d
    <3>2. /\ t(i) \in Int /\ t(i + 1) \in Int /\ t(i) <= t(i + 1) /\ t(i + 1) <= t(i) + 1
      BY <1>1, <2>1, <3>1, TruncatedSteps
    <3> QED
      BY <3>2
  <2>3. CASE b < a
    <3>1. y(i + 1) <= y(i) /\ y(i) <= y(i + 1) + d
      BY <1>1, <1>2, <2>1, <2>3
    <3> HIDE DEF d
    <3>2. /\ t(i) \in Int /\ t(i + 1) \in Int /\ t(i + 1) <= t(i) /\ t(i) <= t(i + 1) + 1
      BY <1>1, <2>1, <3>1, TruncatedSteps
    <3> QED
      BY <3>2
  <2> QED
    BY <2>2, <2>3
<1>8. ASSUME NEW i \in Int, NEW j \in Int, NEW k \in Int, i <= j, j <= k
      PROVE  (t(i) <= t(j) /\ t(j) <= t(k)) \/ (t(k) <= t(j) /\ t(j) <= t(i))
  <2>1. y(i) \in Int /\ y(j) \in Int /\ y(k) \in Int
    BY <1>2
  <2> HIDE DEF d
  <2>2. ASSUME NEW x \in Int, NEW z \in Int, x <= z
        PROVE  Truncated(x, d) <= Truncated(z, d)
    BY <1>1, <2>2, TruncatedSteps
  <2>3. CASE b >= a
    <3>1. y(i) <= y(j) /\ y(j) <= y(k)
      BY <1>3, <1>8, <2>3
    <3> QED
      BY <2>1, <2>2, <3>1
  <2>4. CASE b < a
    <3>1. y(k) <= y(j) /\ y(j) <= y(i)
      <4>1. b <= a
        BY <2>4
      <4> QED
        BY <1>3, <1>8, <4>1
    <3> QED
      BY <2>1, <2>2, <3>1
  <2> QED
    BY <2>3, <2>4
<1> QED
  BY <1>5, <1>7, <1>8 DEF y, Glides, Sample, Place

\* The marks of a line that ends on the grid.
LEMMA LineIsConnected ==
  ASSUME NEW p \in Int \X Int, NEW q \in Int \X Int, Spot(q) \in Cell
  PROVE  /\ Connected(RasterizeLine(p, q)) /\ RasterizeLine(p, q) \in SUBSET Cell
         /\ Spot(q) \in RasterizeLine(p, q)
         /\ Spot(p) \in Cell => Spot(p) \in RasterizeLine(p, q)
<1> DEFINE n == Max({Reach(p, q), 1})
           f(i) == <<Sample(p[1], q[1], n, i), Sample(p[2], q[2], n, i)>>
           on == {i \in 0..n : f(i) \in Cell}
           line == {f(i) : i \in on}
<1>1. /\ n \in Nat \ {0}
      /\ q[1] - p[1] <= CellSize * n /\ p[1] - q[1] <= CellSize * n
      /\ q[2] - p[2] <= CellSize * n /\ p[2] - q[2] <= CellSize * n
  BY SamplesAreClose
<1>2. RasterizeLine(p, q) = line
  <2>1. RasterizeLine(p, q) = UNION {{f(i)} \cap Cell : i \in 0..n}
    BY DEF RasterizeLine, CellAt, Sample, Along, Reach
  <2> HIDE DEF f
  <2> QED
    BY <2>1
<1> HIDE DEF n
<1> DEFINE t1(i) == Sample(p[1], q[1], n, i)
           t2(i) == Sample(p[2], q[2], n, i)
<1>3. /\ \A i \in Int : t1(i) \in Int /\ t1(i + 1) - t1(i) \in -1..1
      /\ \A i, j, k \in Int : i <= j /\ j <= k =>
           (t1(i) <= t1(j) /\ t1(j) <= t1(k)) \/ (t1(k) <= t1(j) /\ t1(j) <= t1(i))
      /\ t1(0) = Place(p[1]) /\ t1(n) = Place(q[1])
  <2>1. p[1] \in Int /\ q[1] \in Int
    OBVIOUS
  <2>2. Glides(p[1], q[1], n)
    BY <1>1, <2>1, SamplesGlide
  <2> QED
    BY <2>2 DEF Glides
<1>4. /\ \A i \in Int : t2(i) \in Int /\ t2(i + 1) - t2(i) \in -1..1
      /\ \A i, j, k \in Int : i <= j /\ j <= k =>
           (t2(i) <= t2(j) /\ t2(j) <= t2(k)) \/ (t2(k) <= t2(j) /\ t2(j) <= t2(i))
      /\ t2(0) = Place(p[2]) /\ t2(n) = Place(q[2])
  <2>1. p[2] \in Int /\ q[2] \in Int
    OBVIOUS
  <2>2. Glides(p[2], q[2], n)
    BY <1>1, <2>1, SamplesGlide
  <2> QED
    BY <2>2 DEF Glides
<1>5. \A i : f(i) = <<t1(i), t2(i)>>
  OBVIOUS
<1> HIDE DEF t1, t2, f
<1>6. f(0) = Spot(p) /\ f(n) = Spot(q)
  BY <1>3, <1>4, <1>5 DEF Spot
<1>7. 0 \in 0..n /\ n \in 0..n
  BY <1>1
<1>8. n \in on /\ (Spot(p) \in Cell => 0 \in on)
  BY <1>6, <1>7
<1>9. \A i \in Int : f(i) \in Cell <=> t1(i) \in 0..Size - 1 /\ t2(i) \in 0..Size - 1
  BY <1>5 DEF Cell
<1>10. ASSUME NEW i \in on, NEW j \in i..n PROVE j \in on
  <2>1. /\ i \in Int /\ j \in Int /\ n \in Int /\ i <= j /\ j <= n /\ j \in 0..n
    BY <1>1
  <2>2. /\ t1(i) \in 0..Size - 1 /\ t1(n) \in 0..Size - 1
        /\ t2(i) \in 0..Size - 1 /\ t2(n) \in 0..Size - 1
    BY <1>8, <1>9, <2>1
  <2>3. \A a, b, c \in Int : a \in 0..Size - 1 /\ c \in 0..Size - 1
                             /\ ((a <= b /\ b <= c) \/ (c <= b /\ b <= a)) => b \in 0..Size - 1
    BY CellIs
  <2>4. t1(j) \in 0..Size - 1
    <3>1. /\ t1(i) \in Int /\ t1(j) \in Int /\ t1(n) \in Int
          /\ (t1(i) <= t1(j) /\ t1(j) <= t1(n)) \/ (t1(n) <= t1(j) /\ t1(j) <= t1(i))
      BY <1>3, <2>1
    <3> QED
      BY <2>2, <2>3, <3>1
  <2>5. t2(j) \in 0..Size - 1
    <3>1. /\ t2(i) \in Int /\ t2(j) \in Int /\ t2(n) \in Int
          /\ (t2(i) <= t2(j) /\ t2(j) <= t2(n)) \/ (t2(n) <= t2(j) /\ t2(j) <= t2(i))
      BY <1>4, <2>1
    <3> QED
      BY <2>2, <2>3, <3>1
  <2> QED
    BY <1>9, <2>1, <2>4, <2>5
<1>11. on \in SUBSET Int /\ IsFiniteSet(on) /\ on # {}
  <2>1. IsFiniteSet(0..n)
    BY <1>1, FS_Interval
  <2>2. on \in SUBSET (0..n)
    OBVIOUS
  <2> HIDE DEF on
  <2>3. IsFiniteSet(on) /\ on # {}
    BY <1>8, <2>1, <2>2, FS_Subset
  <2> QED
    BY <1>1, <2>2, <2>3
<1> DEFINE m == Min(on)
<1>12. m \in on /\ \A i \in on : m <= i
  <2> HIDE DEF on
  <2> QED
    BY <1>11, MinProperties
<1> HIDE DEF m
<1>13. m \in Nat /\ on = m..n
  BY <1>10, <1>12, <1>1
<1> DEFINE g == [i \in m..n |-> f(i)]
<1>14. \A i \in m..n : g[i] \in Int \X Int
  <2> SUFFICES ASSUME NEW i \in m..n PROVE f(i) \in Int \X Int
    OBVIOUS
  <2>1. i \in Int
    BY <1>1, <1>13
  <2> QED
    BY <1>3, <1>4, <1>5, <2>1
<1>15. \A i \in m..n : i + 1 <= n => Touch(g[i], g[i + 1])
  <2> SUFFICES ASSUME NEW i \in m..n, i + 1 <= n PROVE Touch(f(i), f(i + 1))
    BY <1>1, <1>13
  <2>1. i \in Int
    BY <1>1, <1>13
  <2>2. /\ t1(i) \in Int /\ t1(i + 1) \in Int /\ t1(i + 1) - t1(i) \in -1..1
        /\ t2(i) \in Int /\ t2(i + 1) \in Int /\ t2(i + 1) - t2(i) \in -1..1
    BY <1>3, <1>4, <2>1
  <2> QED
    BY <1>5, <2>2 DEF Touch, Abs
<1>16. Connected({g[i] : i \in m..n})
  <2> HIDE DEF g, on
  <2> QED
    BY <1>1, <1>13, <1>14, <1>15, ChainIsConnected
<1>17. {g[i] : i \in m..n} = line
  BY <1>13
<1>18. line \in SUBSET Cell /\ Spot(q) \in line /\ (Spot(p) \in Cell => Spot(p) \in line)
  BY <1>6, <1>8
<1> QED
  BY <1>2, <1>16, <1>17, <1>18

\* A stroke that does not come back to the grid after it left it.
EntersOnce(stroke) ==
  \A i, k \in DOMAIN stroke.path : \A j \in i..k :
    Spot(stroke.path[i]) \in Cell /\ Spot(stroke.path[k]) \in Cell => Spot(stroke.path[j]) \in Cell

\* Such a stroke is marked without gaps.
LEMMA MarksAreGapless ==
  ASSUME NEW s, s.path \in Seq(Int \X Int), EntersOnce(s)
  PROVE  Gapless(s)
<1> DEFINE path == s.path
           on == {i \in DOMAIN path : Spot(path[i]) \in Cell}
           line(i) == RasterizeLine(path[i - 1], path[i])
           spot(i) == Spot(path[i])
<1>1. /\ Len(path) \in Nat /\ DOMAIN path = 1..Len(path)
      /\ \A i \in 1..Len(path) : path[i] \in Int \X Int
  OBVIOUS
<1>2. MarkedCells(s) = {spot(i) : i \in on} \cup (UNION {line(i) : i \in on \ {1}})
  <2> DEFINE at(i) == CellAt(path[i][1], path[i][2], 1)
             some == {i \in DOMAIN path : at(i) # {}}
  <2>1. \A i : at(i) = {spot(i)} \cap Cell
    BY DEF CellAt, Spot, Place, CellSize
  <2> DEFINE spots == UNION {at(i) : i \in some}
             lines == UNION {line(i) : i \in some \ {1}}
  <2>2. MarkedCells(s) = spots \cup lines
    BY DEF MarkedCells
  <2> HIDE DEF at
  <2>3. some = on
    <3> HIDE DEF spot, path
    <3> QED
      BY <2>1 DEF spot
  <2> HIDE DEF some
  <2>4. \A i \in on : at(i) = {spot(i)}
    BY <2>1
  <2> HIDE DEF on, spot, line
  <2>5. spots = {spot(i) : i \in on}
    <3>1. ASSUME NEW c PROVE c \in spots <=> \E i \in on : c = spot(i)
      BY <2>3, <2>4
    <3> QED
      BY <3>1
  <2>6. lines = UNION {line(i) : i \in on \ {1}}
    BY <2>3
  <2> HIDE DEF spots, lines
  <2> QED
    BY <2>2, <2>5, <2>6
<1>3. CASE on = {}
  <2>1. MarkedCells(s) = {}
    <3> HIDE DEF on
    <3> QED
      BY <1>2, <1>3
  <2> QED
    BY <2>1 DEF Gapless
<1>4. CASE on # {}
  <2>1. on \in SUBSET Int /\ IsFiniteSet(on)
    <3>1. IsFiniteSet(1..Len(path))
      BY <1>1, FS_Interval
    <3>2. on \in SUBSET (1..Len(path))
      BY <1>1
    <3> HIDE DEF on
    <3>3. IsFiniteSet(on)
      BY <3>1, <3>2, FS_Subset
    <3> QED
      BY <1>1, <3>2, <3>3
  <2> DEFINE a == Min(on)
             b == Max(on)
  <2>2. a \in on /\ b \in on /\ \A i \in on : a <= i /\ i <= b
    <3> HIDE DEF on
    <3> QED
      BY <1>4, <2>1, MinProperties, MaxProperties
  <2> HIDE DEF a, b
  <2>3. a \in Nat \ {0} /\ b \in Nat /\ on = a..b /\ b <= Len(path)
    <3>1. \A j \in a..b : spot(j) \in Cell /\ j \in 1..Len(path)
      BY <1>1, <2>2 DEF EntersOnce
    <3> QED
      BY <1>1, <2>2, <3>1
  <2>4. \A i \in a..b : path[i] \in Int \X Int /\ spot(i) \in Cell
    BY <1>1, <2>3
  <2>5. ASSUME NEW i \in a..b, i # 1
        PROVE  /\ Connected(line(i)) /\ line(i) \in SUBSET Cell /\ spot(i) \in line(i)
               /\ spot(i - 1) \in Cell => spot(i - 1) \in line(i)
    <3>1. i - 1 \in 1..Len(path)
      BY <1>1, <2>3, <2>5
    <3>2. path[i - 1] \in Int \X Int /\ path[i] \in Int \X Int /\ Spot(path[i]) \in Cell
      BY <1>1, <2>4, <3>1
    <3> HIDE DEF path
    <3> QED
      BY <3>2, LineIsConnected
  <2> HIDE DEF on, line, spot, path
  <2> DEFINE marks(k) == {spot(i) : i \in a..k} \cup (UNION {line(i) : i \in (a..k) \ {1}})
             G == {k \in Nat : a + k <= b => Connected(marks(a + k)) /\ marks(a + k) \in SUBSET Cell}
  <2>6. Nat \subseteq G
    <3>1. 0 \in G
      <4>1. Connected({spot(a)})
        BY DEF Connected
      <4>2. a \in a..b /\ a..a = {a} /\ a + 0 = a
        BY <2>2, <2>3
      <4>3. Connected(marks(a)) /\ marks(a) \in SUBSET Cell
        <5>1. CASE a = 1
          <6>1. marks(a) = {spot(a)}
            BY <4>2, <5>1
          <6> HIDE DEF marks
          <6> QED
            BY <2>4, <4>1, <4>2, <6>1
        <5>2. CASE a # 1
          <6>1. marks(a) = {spot(a)} \cup line(a)
            BY <4>2, <5>2
          <6>2. marks(a) = line(a)
            BY <2>5, <4>2, <5>2, <6>1
          <6> HIDE DEF marks
          <6> QED
            BY <2>5, <4>2, <5>2, <6>2
        <5> QED
          BY <5>1, <5>2
      <4> HIDE DEF marks
      <4> QED
        BY <4>2, <4>3
    <3>2. ASSUME NEW k \in Nat, k \in G PROVE k + 1 \in G
      <4> SUFFICES ASSUME a + (k + 1) <= b
                   PROVE  Connected(marks(a + (k + 1))) /\ marks(a + (k + 1)) \in SUBSET Cell
        OBVIOUS
      <4> DEFINE i == a + k
      <4>1. /\ i \in a..b /\ i + 1 \in a..b /\ i + 1 # 1 /\ a + (k + 1) = i + 1 /\ (i + 1) - 1 = i
        BY <2>3
      <4>8. a..(i + 1) = (a..i) \cup {i + 1} /\ i \in a..i
        <5>1. i \in Int /\ a \in Int /\ a <= i
          BY <2>3
        <5> HIDE DEF i
        <5> QED
          BY <5>1
      <4>2. Connected(marks(i)) /\ marks(i) \in SUBSET Cell
        BY <3>2, <4>1
      <4> HIDE DEF i
      <4>3. /\ Connected(line(i + 1)) /\ line(i + 1) \in SUBSET Cell
            /\ spot(i + 1) \in line(i + 1) /\ spot(i) \in line(i + 1)
        BY <2>4, <2>5, <4>1
      <4>4. spot(i) \in marks(i)
        BY <4>8
      <4>5. marks(i + 1) = marks(i) \cup line(i + 1)
        <5>1. (a..(i + 1)) \ {1} = ((a..i) \ {1}) \cup {i + 1}
          BY <4>1, <4>8
        <5> DEFINE old == a..i
                   new == a..(i + 1)
        <5>2. new = old \cup {i + 1} /\ new \ {1} = (old \ {1}) \cup {i + 1}
          BY <4>8, <5>1
        <5> HIDE DEF old, new
        <5>3. ASSUME NEW c
              PROVE  c \in marks(i + 1) <=> c \in marks(i) \/ c = spot(i + 1) \/ c \in line(i + 1)
          BY <5>2 DEF old, new
        <5> QED
          BY <4>3, <5>3
      <4> HIDE DEF marks
      <4>6. Connected(marks(i + 1))
        BY <4>2, <4>3, <4>4, <4>5, ConnectedUnion
      <4> QED
        BY <4>1, <4>2, <4>3, <4>5, <4>6
    <3> HIDE DEF G
    <3> QED
      BY <3>1, <3>2, NatSetInduction
  <2>7. Connected(marks(b)) /\ marks(b) \in SUBSET Cell
    <3>1. b - a \in Nat /\ a + (b - a) = b /\ b <= b
      BY <2>2, <2>3
    <3> HIDE DEF marks
    <3>2. b - a \in G
      <4> HIDE DEF G
      <4> QED
        BY <2>6, <3>1
    <3> QED
      BY <3>1, <3>2
  <2>8. MarkedCells(s) = marks(b)
    BY <1>2, <2>3
  <2> HIDE DEF marks
  <2> QED
    BY <2>7, <2>8, ConnectedIsGapless
<1> QED
  BY <1>3, <1>4

-----------------------------------------------------------------------------
(* Outlines are closed where every end of an edge is the end of two.        *)

\* The edges that end at a point.
At(edges, m) == {j \in DOMAIN edges : m \in {edges[j][1], edges[j][2]}}

\* Every point where edges end is the end of two of them, and no edge goes nowhere.
Paired(edges) ==
  /\ \A m : At(edges, m) # {} => \E i, j \in DOMAIN edges : i # j /\ At(edges, m) = {i, j}
  /\ \A j \in DOMAIN edges : edges[j][1] # edges[j][2]

\* A point of which all edges are used, or none.
Even(edges, used, m) == At(edges, m) \subseteq used \/ At(edges, m) \cap used = {}

\* A chain that is being traced: only its ends, while they differ, have one edge that is
\* used and one that is not, and it took more than n steps to get there.
Traced(edges, chain, n) ==
  LET first == chain.points[1]
      tail == Last(chain.points)
  IN  /\ \A m : m # first /\ m # tail => Even(edges, chain.used, m)
      /\ first = tail => At(edges, first) \subseteq chain.used
      /\ first # tail => /\ ~Even(edges, chain.used, first) /\ ~Even(edges, chain.used, tail)
                         /\ Cardinality(chain.used) > n

Chains(P, edges) == [points : Seq(P), used : SUBSET DOMAIN edges]

\* A chain goes on as it began.
LEMMA ExtendTraces ==
  ASSUME NEW P, NEW edges \in Seq(P \X P), Paired(edges), NEW n \in Nat,
         NEW chain \in Chains(P, edges), chain.points # <<>>, Traced(edges, chain, n)
  PROVE  LET next == Extend(edges, chain)
         IN  /\ next \in Chains(P, edges) /\ next.points # <<>>
             /\ Traced(edges, next, n + 1)
<1> DEFINE points == chain.points
           used == chain.used
           first == points[1]
           tail == Last(points)
           open == {j \in DOMAIN edges \ used : tail \in {edges[j][1], edges[j][2]}}
           next == Extend(edges, chain)
<1>1. /\ points \in Seq(P) /\ Len(points) \in Nat /\ Len(points) >= 1 /\ used \in SUBSET DOMAIN edges
      /\ chain = [points |-> points, used |-> used] /\ tail = points[Len(points)]
  BY DEF Chains, Last
<1>2. DOMAIN edges = 1..Len(edges) /\ Len(edges) \in Nat
      /\ \A j \in DOMAIN edges : edges[j] \in P \X P
  OBVIOUS
<1>3. open = At(edges, tail) \ used
  BY DEF At
<1>4. CASE first = tail
  <2>1. open = {}
    BY <1>3, <1>4 DEF Traced
  <2>2. next = chain
    BY <2>1 DEF Extend
  <2>3. Traced(edges, chain, n + 1)
    BY <1>4 DEF Traced
  <2> QED
    BY <2>2, <2>3
<1>5. CASE first # tail
  <2>1. ~Even(edges, used, tail) /\ ~Even(edges, used, first) /\ Cardinality(used) > n
        /\ \A m : m # first /\ m # tail => Even(edges, used, m)
    BY <1>5 DEF Traced
  <2>2. PICK i \in used, j \in DOMAIN edges \ used : i # j /\ At(edges, tail) = {i, j}
    <3>1. PICK i \in At(edges, tail), j \in At(edges, tail) : i \in used /\ j \notin used
      BY <2>1 DEF Even
    <3>2. i # j /\ At(edges, tail) = {i, j}
      BY <3>1 DEF Paired
    <3>3. j \in DOMAIN edges
      BY DEF At
    <3> QED
      BY <3>1, <3>2, <3>3
  <2>3. open = {j}
    BY <1>3, <2>2
  <2>4. Min(open) = j
    <3>1. open \in SUBSET Int /\ IsFiniteSet(open) /\ open # {}
      <4>1. IsFiniteSet({j})
        BY FS_Singleton
      <4>2. j \in Int
        BY <1>2, <2>2
      <4> HIDE DEF open
      <4> QED
        BY <2>3, <4>1, <4>2
    <3>2. Min(open) \in open
      BY <3>1, MinProperties
    <3> QED
      BY <2>3, <3>2
  <2> DEFINE u == IF edges[j][1] = tail THEN edges[j][2] ELSE edges[j][1]
  <2>5. next = [points |-> Append(points, u), used |-> used \cup {j}]
    BY <2>3, <2>4 DEF Extend
  <2>6. {edges[j][1], edges[j][2]} = {tail, u} /\ u # tail /\ u \in P
    <3>1. tail \in {edges[j][1], edges[j][2]}
      BY <2>2 DEF At
    <3>2. edges[j][1] # edges[j][2]
      BY DEF Paired
    <3>3. edges[j][1] \in P /\ edges[j][2] \in P
      BY <1>2
    <3> QED
      BY <3>1, <3>2, <3>3
  <2> HIDE DEF u, next, open
  <2>7. \A m : j \in At(edges, m) <=> m \in {tail, u}
    BY <2>6 DEF At
  <2>8. /\ next.points \in Seq(P) /\ next.points[1] = first /\ Last(next.points) = u
        /\ next.used = used \cup {j} /\ next \in Chains(P, edges) /\ next.points # <<>>
    <3> DEFINE more == Append(points, u)
    <3>1. /\ more \in Seq(P) /\ Len(more) = Len(points) + 1 /\ more[1] = first
          /\ more[Len(points) + 1] = u /\ more # <<>>
      BY <1>1, <2>6
    <3> HIDE DEF more
    <3>2. Last(more) = u
      BY <3>1 DEF Last
    <3>3. next.points = more /\ next.used = used \cup {j}
      BY <2>5 DEF more
    <3>4. next \in Chains(P, edges)
      BY <1>1, <2>5, <3>1 DEF Chains, more
    <3> QED
      BY <3>1, <3>2, <3>3, <3>4
  <2> HIDE DEF first, tail
  <2> DEFINE more == used \cup {j}
  <2>9. \A m : m # first /\ m # u => Even(edges, more, m)
    <3> SUFFICES ASSUME NEW m, m # first, m # u PROVE Even(edges, more, m)
      OBVIOUS
    <3>1. CASE m = tail
      BY <2>2, <3>1 DEF Even
    <3>2. CASE m # tail
      BY <2>1, <2>7, <3>2 DEF Even
    <3> QED
      BY <3>1, <3>2
  <2>10. first = u => At(edges, first) \subseteq more
    <3> SUFFICES ASSUME first = u PROVE At(edges, first) \subseteq more
      OBVIOUS
    <3>1. j \in At(edges, first)
      BY <2>7
    <3>2. PICK k \in At(edges, first) : k \in used
      BY <2>1 DEF Even
    <3>3. PICK a, b \in DOMAIN edges : At(edges, first) = {a, b}
      BY <3>1 DEF Paired
    <3>4. At(edges, first) = {k, j}
      BY <2>2, <3>1, <3>2, <3>3
    <3> QED
      BY <3>2, <3>4
  <2>11. ASSUME first # u
         PROVE  /\ ~Even(edges, more, first) /\ ~Even(edges, more, u)
                /\ Cardinality(more) > n + 1
    <3>1. ~Even(edges, more, first)
      <4>1. j \notin At(edges, first)
        BY <1>5, <2>7, <2>11 DEF first, tail
      <4> QED
        BY <2>1, <4>1 DEF Even
    <3>2. ~Even(edges, more, u)
      <4>1. j \in At(edges, u) /\ Even(edges, used, u)
        BY <2>1, <2>6, <2>7, <2>11
      <4>2. At(edges, u) \cap used = {}
        BY <2>2, <4>1 DEF Even
      <4>3. PICK a, b \in DOMAIN edges : a # b /\ At(edges, u) = {a, b}
        BY <4>1 DEF Paired
      <4> QED
        BY <4>1, <4>2, <4>3 DEF Even
    <3>3. IsFiniteSet(used)
      <4>1. IsFiniteSet(1..Len(edges))
        BY <1>2, FS_Interval
      <4>2. used \in SUBSET (1..Len(edges))
        BY <1>1, <1>2
      <4> HIDE DEF used
      <4> QED
        BY <4>1, <4>2, FS_Subset
    <3>4. Cardinality(more) = Cardinality(used) + 1 /\ Cardinality(used) \in Nat
      BY <2>2, <3>3, FS_AddElement, FS_CardinalityType
    <3>5. Cardinality(more) > n + 1
      BY <2>1, <3>4
    <3> QED
      BY <3>1, <3>2, <3>5
  <2> HIDE DEF more
  <2>12. Traced(edges, next, n + 1)
    BY <2>8, <2>9, <2>10, <2>11 DEF Traced, more
  <2> QED
    BY <2>8, <2>12 DEF next
<1> QED
  BY <1>4, <1>5

\* How ChainEdges traces one chain.
Grown(edges, start, used) ==
  FoldLeft(LAMBDA chain, e : Extend(edges, chain),
           [points |-> edges[start], used |-> used \cup {start}], edges)

\* It comes back to where it began, and leaves no point with one edge used and one not.
LEMMA GrownIsClosed ==
  ASSUME NEW P, NEW edges \in Seq(P \X P), Paired(edges),
         NEW used \in SUBSET DOMAIN edges, \A m : Even(edges, used, m),
         NEW start \in DOMAIN edges, start \notin used
  PROVE  LET chain == Grown(edges, start, used)
         IN  /\ chain \in Chains(P, edges) /\ Closed(chain.points)
             /\ \A m : Even(edges, chain.used, m)
<1> DEFINE n == Len(edges)
           first == [points |-> edges[start], used |-> used \cup {start}]
           V == {c \in Chains(P, edges) : c.points # <<>> /\ \E i \in Nat : Traced(edges, c, i)}
           eq(k) == k = [T \in SUBSET (1..n) |-> IF T = {} THEN first
                                                  ELSE Extend(edges, k[T \ {Max(T)}])]
<1>1. n \in Nat /\ DOMAIN edges = 1..n /\ IsFiniteSet(1..n)
  <2>1. n \in Nat /\ DOMAIN edges = 1..n
    OBVIOUS
  <2> HIDE DEF n
  <2> QED
    BY <2>1, FS_Interval
<1>2. /\ edges[start] \in P \X P /\ edges[start] = <<edges[start][1], edges[start][2]>>
      /\ edges[start][1] \in P /\ edges[start][2] \in P
      /\ edges[start][1] # edges[start][2]
  BY DEF Paired
<1>3. first \in Chains(P, edges) /\ first.points # <<>> /\ Traced(edges, first, 0)
  <2> DEFINE a == edges[start][1]
             b == edges[start][2]
             points == <<a, b>>
             more == used \cup {start}
  <2>1. a # b /\ a \in P /\ b \in P /\ edges[start] = points
    BY <1>2
  <2>2. start \in At(edges, a) /\ start \in At(edges, b)
        /\ \A m : m # a /\ m # b => start \notin At(edges, m)
    BY DEF At
  <2> HIDE DEF a, b
  <2>3. points \in Seq(P) /\ points # <<>> /\ points[1] = a /\ Last(points) = b
    BY <2>1 DEF Last
  <2>4. ASSUME NEW m \in {a, b} PROVE ~Even(edges, more, m)
    <3>1. start \in At(edges, m)
      BY <2>2
    <3>2. At(edges, m) \cap used = {}
      BY <3>1 DEF Even
    <3>3. PICK i, j \in DOMAIN edges : i # j /\ At(edges, m) = {i, j}
      BY <3>1 DEF Paired
    <3> QED
      BY <3>1, <3>2, <3>3 DEF Even
  <2>5. \A m : m # a /\ m # b => Even(edges, more, m)
    BY <2>2 DEF Even
  <2>6. Cardinality(more) > 0
    <3>1. IsFiniteSet(more) /\ start \in more
      <4>1. more \in SUBSET (1..n)
        BY <1>1
      <4> HIDE DEF more
      <4>2. IsFiniteSet(more)
        BY <1>1, <4>1, FS_Subset
      <4> QED
        BY <4>2 DEF more
    <3> HIDE DEF more
    <3>2. Cardinality(more) \in Nat /\ Cardinality(more) # 0
      BY <3>1, FS_CardinalityType, FS_EmptySet
    <3> QED
      BY <3>2
  <2>7. first.points = points /\ first.used = more /\ first \in Chains(P, edges)
    BY <2>1, <2>3 DEF Chains
  <2> HIDE DEF points, more, first
  <2>8. Traced(edges, first, 0)
    BY <2>1, <2>3, <2>4, <2>5, <2>6, <2>7 DEF Traced
  <2> QED
    BY <2>3, <2>7, <2>8
<1> HIDE DEF first, n
<1>4. \A c \in V : Extend(edges, c) \in V
  <2> SUFFICES ASSUME NEW c \in V PROVE Extend(edges, c) \in V
    OBVIOUS
  <2>1. PICK i \in Nat : Traced(edges, c, i)
    OBVIOUS
  <2>2. /\ Extend(edges, c) \in Chains(P, edges) /\ Extend(edges, c).points # <<>>
        /\ Traced(edges, Extend(edges, c), i + 1)
    BY <2>1, ExtendTraces
  <2> QED
    BY <2>2
<1>5. first \in V
  BY <1>3
<1>6. \E k : eq(k)
  <2> DEFINE h == [z \in V \X (1..n) |-> Extend(edges, z[1])]
  <2> HIDE DEF V
  <2>1. /\ h \in [V \X (1..n) -> V]
        /\ \A v \in V, i \in 1..n : h[<<v, i>>] = Extend(edges, v)
    BY <1>4
  <2>2. PICK k \in [SUBSET (1..n) -> V] : LeftFolds(k, n, first, h)
    <3> HIDE DEF h
    <3> QED
      BY <1>1, <1>5, <2>1, LeftFoldExists
  <2>3. ASSUME NEW T \in SUBSET (1..n)
        PROVE  k[T] = IF T = {} THEN first ELSE Extend(edges, k[T \ {Max(T)}])
    <3>1. CASE T = {}
      BY <2>2, <3>1 DEF LeftFolds
    <3>2. CASE T # {}
      <4>1. IsFiniteSet(T) /\ T \in SUBSET Int
        <5>1. IsFiniteSet(T)
          BY <1>1, FS_Subset
        <5> QED
          BY <5>1
      <4>2. Max(T) \in T
        BY <3>2, <4>1, MaxProperties
      <4>3. k[T] = h[<<k[T \ {Max(T)}], Max(T)>>]
        BY <2>2, <3>2 DEF LeftFolds
      <4> HIDE DEF h
      <4> QED
        BY <2>1, <3>2, <4>2, <4>3
    <3> QED
      BY <3>1, <3>2
  <2> QED
    BY <2>3
<1> DEFINE k == CHOOSE k : eq(k)
<1>7. eq(k)
  <2> HIDE DEF eq
  <2> QED
    BY <1>6
<1>8. Grown(edges, start, used) = k[1..n]
  BY <1>1 DEF Grown, first, FoldLeft, MapThenFoldSet
<1> HIDE DEF k
<1> DEFINE G == {i \in Nat : i <= n => /\ k[1..i] \in V
                                      /\ Traced(edges, k[1..i], i)}
<1>9. Nat \subseteq G
  <2>1. 0 \in G
    <3>1. 1..0 = {}
      OBVIOUS
    <3>2. k[1..0] = first
      BY <1>7, <3>1
    <3> HIDE DEF V
    <3> QED
      BY <1>3, <1>5, <3>2
  <2>2. ASSUME NEW i \in Nat, i \in G PROVE i + 1 \in G
    <3> SUFFICES ASSUME i + 1 <= n
                 PROVE  k[1..(i + 1)] \in V /\ Traced(edges, k[1..(i + 1)], i + 1)
      OBVIOUS
    <3> DEFINE j == i + 1
    <3>1. j \in 1..n /\ j - 1 = i /\ i <= n
      BY <1>1
    <3> HIDE DEF j
    <3>2. k[1..j] = Extend(edges, k[1..i])
      <4>1. 1..j \in SUBSET (1..n) /\ 1..j # {} /\ Max(1..j) = j /\ (1..j) \ {j} = 1..i
        BY <1>1, <3>1, PrefixIs
      <4> QED
        BY <1>7, <4>1
    <3>3. k[1..i] \in V /\ Traced(edges, k[1..i], i)
      BY <2>2, <3>1
    <3>4. Traced(edges, Extend(edges, k[1..i]), i + 1)
      BY <3>3, ExtendTraces
    <3>5. k[1..j] \in V
      <4> HIDE DEF V
      <4> QED
        BY <1>4, <3>2, <3>3
    <3> HIDE DEF V
    <3> QED
      BY <3>2, <3>4, <3>5 DEF j
  <2> HIDE DEF G
  <2> QED
    BY <2>1, <2>2, NatSetInduction
<1> DEFINE chain == k[1..n]
<1>10. chain \in Chains(P, edges) /\ chain.points # <<>> /\ Traced(edges, chain, n)
  <2>1. n \in G /\ n <= n
    BY <1>1, <1>9
  <2> QED
    BY <2>1
<1> HIDE DEF chain
<1>11. chain.points[1] = Last(chain.points)
  <2>1. chain.used \in SUBSET (1..n)
    BY <1>1, <1>10 DEF Chains
  <2>2. Cardinality(chain.used) <= n
    <3>1. Cardinality(1..n) = n /\ IsFiniteSet(1..n)
      BY <1>1, FS_Interval
    <3>2. Cardinality(chain.used) <= Cardinality(1..n)
      BY <2>1, <3>1, FS_Subset
    <3> QED
      BY <3>1, <3>2
  <2>3. Cardinality(chain.used) \in Nat
    BY <1>1, <2>1, FS_Subset, FS_CardinalityType
  <2> QED
    BY <1>1, <1>10, <2>2, <2>3 DEF Traced
<1>12. \A m : Even(edges, chain.used, m)
  BY <1>10, <1>11 DEF Traced, Even
<1> QED
  BY <1>8, <1>10, <1>11, <1>12 DEF Closed, chain

\* One step of ChainEdges: an edge that is not used yet starts a chain.
Added(edges, state, start) ==
  IF start \in state.used THEN state
  ELSE LET chain == Grown(edges, start, state.used) IN
       [chains |-> Append(state.chains, chain.points), used |-> chain.used]

\* Its states: every chain so far is closed.
Outlined(P, edges) ==
  {state \in [chains : Seq(Seq(P)), used : SUBSET DOMAIN edges] :
     /\ \A m : Even(edges, state.used, m)
     /\ \A i \in DOMAIN state.chains : Closed(state.chains[i])}

\* A step closes the chain that it starts.
LEMMA AddedIsOutlined ==
  ASSUME NEW P, NEW edges \in Seq(P \X P), Paired(edges),
         NEW state \in Outlined(P, edges), NEW start \in DOMAIN edges
  PROVE  Added(edges, state, start) \in Outlined(P, edges)
<1> DEFINE used == state.used
           chains == state.chains
           chain == Grown(edges, start, used)
           more == Append(chains, chain.points)
<1>1. /\ state = [chains |-> chains, used |-> used] /\ chains \in Seq(Seq(P))
      /\ used \in SUBSET DOMAIN edges /\ \A m : Even(edges, used, m)
      /\ \A i \in DOMAIN chains : Closed(chains[i])
  BY DEF Outlined
<1>2. CASE start \in used
  BY <1>2 DEF Added
<1>3. CASE start \notin used
  <2>1. /\ chain \in Chains(P, edges) /\ Closed(chain.points)
        /\ \A m : Even(edges, chain.used, m)
    <3> HIDE DEF used
    <3> QED
      BY <1>1, <1>3, GrownIsClosed
  <2>2. Added(edges, state, start) = [chains |-> more, used |-> chain.used]
    BY <1>3 DEF Added
  <2> HIDE DEF chain, chains, used
  <2>3. chain.points \in Seq(P) /\ chain.used \in SUBSET DOMAIN edges
    BY <2>1 DEF Chains
  <2>4. more \in Seq(Seq(P)) /\ \A i \in DOMAIN more : Closed(more[i])
    <3> DEFINE c == chain.points
    <3>1. c \in Seq(P) /\ Closed(c) /\ more = Append(chains, c)
      BY <2>1, <2>3
    <3> HIDE DEF c
    <3>2. more \in Seq(Seq(P)) /\ DOMAIN more = 1..(Len(chains) + 1) /\ Len(chains) \in Nat
          /\ DOMAIN chains = 1..Len(chains)
          /\ \A i \in 1..(Len(chains) + 1) :
               more[i] = IF i = Len(chains) + 1 THEN c ELSE chains[i]
      BY <1>1, <3>1
    <3> HIDE DEF more
    <3> QED
      BY <1>1, <3>1, <3>2
  <2> HIDE DEF more
  <2> QED
    BY <2>1, <2>2, <2>3, <2>4 DEF Outlined
<1> QED
  BY <1>2, <1>3

\* Where every end of an edge is the end of two, all chains are closed.
LEMMA ChainsAreClosed ==
  ASSUME NEW P, NEW edges \in Seq(P \X P), Paired(edges),
         NEW chain \in ToSet(ChainEdges(edges))
  PROVE  Closed(chain)
<1> DEFINE n == Len(edges)
           V == Outlined(P, edges)
           first == [chains |-> <<>>, used |-> {}]
           index == [i \in DOMAIN edges |-> i]
           eq(k) == k = [T \in SUBSET (1..n) |-> IF T = {} THEN first
                           ELSE Added(edges, k[T \ {Max(T)}], index[Max(T)])]
<1>1. n \in Nat /\ DOMAIN edges = 1..n /\ IsFiniteSet(1..n)
  <2>1. n \in Nat /\ DOMAIN edges = 1..n
    OBVIOUS
  <2> HIDE DEF n
  <2> QED
    BY <2>1, FS_Interval
<1>2. first \in V
  <2>1. <<>> \in Seq(Seq(P)) /\ DOMAIN <<>> = {}
    OBVIOUS
  <2>2. first.chains = <<>> /\ first.used = {}
        /\ first \in [chains : Seq(Seq(P)), used : SUBSET DOMAIN edges]
    BY <2>1
  <2> HIDE DEF first
  <2> QED
    BY <2>1, <2>2 DEF Outlined, Even
<1>3. \A v \in V, i \in 1..n : Added(edges, v, i) \in V /\ index[i] = i
  BY <1>1, AddedIsOutlined
<1> HIDE DEF V, n, first, index
<1>4. ASSUME NEW T \in SUBSET (1..n), T # {} PROVE Max(T) \in T
  <2>1. IsFiniteSet(T)
    BY <1>1, FS_Subset
  <2>2. T \in SUBSET Int
    OBVIOUS
  <2> QED
    BY <1>4, <2>1, <2>2, MaxProperties
<1>5. \E k : eq(k)
  <2> DEFINE h == [z \in V \X (1..n) |-> Added(edges, z[1], z[2])]
  <2>1. /\ h \in [V \X (1..n) -> V]
        /\ \A v \in V, i \in 1..n : h[<<v, i>>] = Added(edges, v, i)
    BY <1>3
  <2>2. PICK k \in [SUBSET (1..n) -> V] : LeftFolds(k, n, first, h)
    <3> HIDE DEF h
    <3> QED
      BY <1>1, <1>2, <2>1, LeftFoldExists
  <2>3. ASSUME NEW T \in SUBSET (1..n)
        PROVE  k[T] = IF T = {} THEN first ELSE Added(edges, k[T \ {Max(T)}], index[Max(T)])
    <3>1. CASE T = {}
      BY <2>2, <3>1 DEF LeftFolds
    <3>2. CASE T # {}
      <4>1. k[T] = h[<<k[T \ {Max(T)}], Max(T)>>]
        BY <2>2, <3>2 DEF LeftFolds
      <4>2. Max(T) \in 1..n /\ T \ {Max(T)} \in SUBSET (1..n)
        BY <1>4, <3>2
      <4>3. k[T \ {Max(T)}] \in V
        BY <4>2
      <4> HIDE DEF h
      <4> QED
        BY <1>3, <2>1, <3>2, <4>1, <4>2, <4>3
    <3> QED
      BY <3>1, <3>2
  <2> QED
    BY <2>3
<1> DEFINE k == CHOOSE k : eq(k)
<1>6. eq(k)
  <2> HIDE DEF eq
  <2> QED
    BY <1>5
<1>7. ChainEdges(edges) = k[1..n].chains
  <2>1. DOMAIN index = 1..n
    BY <1>1 DEF index
  <2> QED
    BY <2>1 DEF ChainEdges, Added, Grown, first, index, FoldLeft, MapThenFoldSet
<1> HIDE DEF k
<1> DEFINE G == {T \in SUBSET (1..n) : k[T] \in V}
<1>8. ASSUME NEW T \in SUBSET (1..n), \A U \in SUBSET T : U # T => U \in G PROVE T \in G
  <2>1. CASE T = {}
    BY <1>2, <1>6, <2>1
  <2>2. CASE T # {}
    <3> DEFINE i == Max(T)
               U == T \ {i}
    <3>1. i \in T
      BY <1>4, <2>2
    <3>2. k[T] = Added(edges, k[U], index[i])
      BY <1>6, <2>2
    <3> HIDE DEF i
    <3>3. U \in G
      <4>1. U \in SUBSET T /\ U # T
        BY <3>1
      <4> HIDE DEF G, U
      <4> QED
        BY <1>8, <4>1
    <3> HIDE DEF U
    <3> QED
      BY <1>3, <3>1, <3>2, <3>3
  <2> QED
    BY <2>1, <2>2
<1>9. 1..n \in G
  <2>1. SUBSET (1..n) \subseteq G
    <3> HIDE DEF G
    <3> DEFINE I == 1..n
    <3>1. IsFiniteSet(I) /\ \A T \in SUBSET I : (\A U \in SUBSET T : U # T => U \in G) => T \in G
      BY <1>1, <1>8
    <3> HIDE DEF I
    <3>2. SUBSET I \subseteq G
      BY <3>1, SubsetInduction
    <3> QED
      BY <3>2 DEF I
  <2> HIDE DEF G
  <2> QED
    BY <2>1
<1>10. \A i \in DOMAIN k[1..n].chains : Closed(k[1..n].chains[i])
  BY <1>9 DEF Outlined, V
<1> QED
  BY <1>7, <1>10 DEF ToSet

-----------------------------------------------------------------------------
(* Marching squares make such edges where the border of the grid is dry.    *)

\* The case of a square, by its corners.
SidesOf(volume, x, y) ==
  LET bit(a, b, weight) == IF volume[<<a, b>>] >= WetThreshold THEN weight ELSE 0
  IN  MarchingSquaresTable[1 + bit(x, y, 8) + bit(x + 1, y, 4)
                           + bit(x + 1, y + 1, 2) + bit(x, y + 1, 1)]

\* One of two cells is wet.
Differ(volume, c, d) == ~(volume[c] >= WetThreshold <=> volume[d] >= WetThreshold)

\* The sides of a square whose ends differ.
Crossed(volume, x, y) ==
  {s \in 0..3 : /\ s = 0 => Differ(volume, <<x, y>>, <<x + 1, y>>)
                /\ s = 1 => Differ(volume, <<x + 1, y>>, <<x + 1, y + 1>>)
                /\ s = 2 => Differ(volume, <<x, y + 1>>, <<x + 1, y + 1>>)
                /\ s = 3 => Differ(volume, <<x, y>>, <<x, y + 1>>)}

\* A case joins each of these sides to one other, and no other side.
Joins(sides, crossed) ==
  /\ sides \in Seq((0..3) \X (0..3))
  /\ \A i \in DOMAIN sides :
       sides[i][1] # sides[i][2] /\ sides[i][1] \in crossed /\ sides[i][2] \in crossed
  /\ \A s \in crossed : \E i \in DOMAIN sides : s \in {sides[i][1], sides[i][2]}
  /\ \A i, j \in DOMAIN sides : i # j => {sides[i][1], sides[i][2]} \cap {sides[j][1], sides[j][2]} = {}

\* No sides are joined.
LEMMA JoinsNone == Joins(<<>>, {})
BY DEF Joins

\* Two sides are.
LEMMA JoinsTwo ==
  ASSUME NEW s \in 0..3, NEW t \in 0..3, s # t
  PROVE  Joins(<< <<s, t>> >>, {s, t})
<1> DEFINE sides == << <<s, t>> >>
<1>1. sides \in Seq((0..3) \X (0..3)) /\ DOMAIN sides = {1} /\ sides[1] = <<s, t>>
  OBVIOUS
<1> HIDE DEF sides
<1> QED
  BY <1>1 DEF Joins, sides

\* Four sides are, two and two.
LEMMA JoinsFour ==
  ASSUME NEW a \in 0..3, NEW b \in 0..3, NEW c \in 0..3, NEW d \in 0..3,
         a # b, a # c, a # d, b # c, b # d, c # d
  PROVE  Joins(<< <<a, b>>, <<c, d>> >>, {a, b, c, d})
<1> DEFINE sides == << <<a, b>>, <<c, d>> >>
<1>1. /\ sides \in Seq((0..3) \X (0..3)) /\ DOMAIN sides = {1, 2}
      /\ sides[1] = <<a, b>> /\ sides[2] = <<c, d>>
  OBVIOUS
<1> HIDE DEF sides
<1>2. \A i \in {1, 2} : i = 1 \/ i = 2
  OBVIOUS
<1>3. \A i \in DOMAIN sides : /\ sides[i][1] # sides[i][2]
                              /\ sides[i][1] \in {a, b, c, d} /\ sides[i][2] \in {a, b, c, d}
  BY <1>1
<1>4. \A s \in {a, b, c, d} : \E i \in DOMAIN sides : s \in {sides[i][1], sides[i][2]}
  BY <1>1
<1>5. \A i, j \in DOMAIN sides :
        i # j => {sides[i][1], sides[i][2]} \cap {sides[j][1], sides[j][2]} = {}
  BY <1>1
<1> QED
  BY <1>1, <1>3, <1>4, <1>5 DEF Joins, sides

\* The table: a square and its complement have the same case, but for the two saddles.
LEMMA TableIs ==
  /\ MarchingSquaresTable[1] = <<>> /\ MarchingSquaresTable[16] = <<>>
  /\ MarchingSquaresTable[2] = << <<2, 3>> >> /\ MarchingSquaresTable[15] = << <<2, 3>> >>
  /\ MarchingSquaresTable[3] = << <<1, 2>> >> /\ MarchingSquaresTable[14] = << <<1, 2>> >>
  /\ MarchingSquaresTable[4] = << <<1, 3>> >> /\ MarchingSquaresTable[13] = << <<1, 3>> >>
  /\ MarchingSquaresTable[5] = << <<0, 1>> >> /\ MarchingSquaresTable[12] = << <<0, 1>> >>
  /\ MarchingSquaresTable[6] = << <<0, 3>>, <<1, 2>> >>
  /\ MarchingSquaresTable[11] = << <<0, 1>>, <<2, 3>> >>
  /\ MarchingSquaresTable[7] = << <<0, 2>> >> /\ MarchingSquaresTable[10] = << <<0, 2>> >>
  /\ MarchingSquaresTable[8] = << <<0, 3>> >> /\ MarchingSquaresTable[9] = << <<0, 3>> >>
BY DEF MarchingSquaresTable

\* The table has the right case for every square.
LEMMA SidesAreJoined ==
  ASSUME NEW volume, NEW x, NEW y
  PROVE  Joins(SidesOf(volume, x, y), Crossed(volume, x, y))
<1> DEFINE a == volume[<<x, y>>] >= WetThreshold
           b == volume[<<x + 1, y>>] >= WetThreshold
           c == volume[<<x + 1, y + 1>>] >= WetThreshold
           d == volume[<<x, y + 1>>] >= WetThreshold
           sides == SidesOf(volume, x, y)
           crossed == Crossed(volume, x, y)
           index == 1 + (IF a THEN 8 ELSE 0) + (IF b THEN 4 ELSE 0)
                    + (IF c THEN 2 ELSE 0) + (IF d THEN 1 ELSE 0)
<1>1. sides = MarchingSquaresTable[index]
  BY DEF SidesOf
<1>2. /\ 0 \in crossed <=> ~(a <=> b)
      /\ 1 \in crossed <=> ~(b <=> c)
      /\ 2 \in crossed <=> ~(d <=> c)
      /\ 3 \in crossed <=> ~(a <=> d)
      /\ crossed \in SUBSET {0, 1, 2, 3}
  BY DEF Crossed, Differ
<1> HIDE DEF sides, crossed
<1>3. CASE (a <=> b) /\ (b <=> c) /\ (c <=> d)
  <2>1. index = 1 \/ index = 16
    BY <1>3
  <2>2. sides = <<>>
    <3> HIDE DEF index
    <3> QED
      BY <1>1, <2>1, TableIs
  <2>3. crossed = {}
    BY <1>2, <1>3
  <2> QED
    BY <2>2, <2>3, JoinsNone DEF sides, crossed
<1>4. CASE (a <=> b) /\ (b <=> c) /\ ~(c <=> d)
  <2>1. index = 2 \/ index = 15
    BY <1>4
  <2>2. sides = << <<2, 3>> >>
    <3> HIDE DEF index
    <3> QED
      BY <1>1, <2>1, TableIs
  <2>3. crossed = {2, 3}
    BY <1>2, <1>4
  <2> QED
    BY <2>2, <2>3, JoinsTwo DEF sides, crossed
<1>5. CASE (a <=> b) /\ (a <=> d) /\ ~(c <=> d)
  <2>1. index = 3 \/ index = 14
    BY <1>5
  <2>2. sides = << <<1, 2>> >>
    <3> HIDE DEF index
    <3> QED
      BY <1>1, <2>1, TableIs
  <2>3. crossed = {1, 2}
    BY <1>2, <1>5
  <2> QED
    BY <2>2, <2>3, JoinsTwo DEF sides, crossed
<1>6. CASE (a <=> b) /\ (c <=> d) /\ ~(b <=> c)
  <2>1. index = 4 \/ index = 13
    BY <1>6
  <2>2. sides = << <<1, 3>> >>
    <3> HIDE DEF index
    <3> QED
      BY <1>1, <2>1, TableIs
  <2>3. crossed = {1, 3}
    BY <1>2, <1>6
  <2> QED
    BY <2>2, <2>3, JoinsTwo DEF sides, crossed
<1>7. CASE (a <=> c) /\ (c <=> d) /\ ~(a <=> b)
  <2>1. index = 5 \/ index = 12
    BY <1>7
  <2>2. sides = << <<0, 1>> >>
    <3> HIDE DEF index
    <3> QED
      BY <1>1, <2>1, TableIs
  <2>3. crossed = {0, 1}
    BY <1>2, <1>7
  <2> QED
    BY <2>2, <2>3, JoinsTwo DEF sides, crossed
<1>8. CASE ~a /\ b /\ ~c /\ d
  <2>1. index = 6
    BY <1>8
  <2>2. sides = << <<0, 3>>, <<1, 2>> >>
    <3> HIDE DEF index
    <3> QED
      BY <1>1, <2>1, TableIs
  <2>3. crossed = {0, 3, 1, 2}
    BY <1>2, <1>8
  <2> QED
    BY <2>2, <2>3, JoinsFour DEF sides, crossed
<1>9. CASE a /\ ~b /\ c /\ ~d
  <2>1. index = 11
    BY <1>9
  <2>2. sides = << <<0, 1>>, <<2, 3>> >>
    <3> HIDE DEF index
    <3> QED
      BY <1>1, <2>1, TableIs
  <2>3. crossed = {0, 1, 2, 3}
    BY <1>2, <1>9
  <2> QED
    BY <2>2, <2>3, JoinsFour DEF sides, crossed
<1>10. CASE (a <=> d) /\ (b <=> c) /\ ~(a <=> b)
  <2>1. index = 7 \/ index = 10
    BY <1>10
  <2>2. sides = << <<0, 2>> >>
    <3> HIDE DEF index
    <3> QED
      BY <1>1, <2>1, TableIs
  <2>3. crossed = {0, 2}
    BY <1>2, <1>10
  <2> QED
    BY <2>2, <2>3, JoinsTwo DEF sides, crossed
<1>11. CASE (b <=> c) /\ (c <=> d) /\ ~(a <=> b)
  <2>1. index = 8 \/ index = 9
    BY <1>11
  <2>2. sides = << <<0, 3>> >>
    <3> HIDE DEF index
    <3> QED
      BY <1>1, <2>1, TableIs
  <2>3. crossed = {0, 3}
    BY <1>2, <1>11
  <2> QED
    BY <2>2, <2>3, JoinsTwo DEF sides, crossed
<1> QED
  BY <1>3, <1>4, <1>5, <1>6, <1>7, <1>8, <1>9, <1>10, <1>11

\* The border of the grid holds less than a threshold.
DryBorder(volume) ==
  \A c \in Cell : c[1] \in {0, Size - 1} \/ c[2] \in {0, Size - 1} => volume[c] < WetThreshold

\* The midpoints of the sides of a square.
LEMMA MidpointIs ==
  ASSUME NEW x \in Int, NEW y \in Int
  PROVE  /\ Midpoint(x, y, 0) = <<2 * x + 1, 2 * y>> /\ Midpoint(x, y, 1) = <<2 * x + 2, 2 * y + 1>>
         /\ Midpoint(x, y, 2) = <<2 * x + 1, 2 * y + 2>> /\ Midpoint(x, y, 3) = <<2 * x, 2 * y + 1>>
         /\ \A s \in 0..3 : Midpoint(x, y, s) \in Int \X Int
<1>1. /\ Midpoint(x, y, 0) = <<2 * x + 1, 2 * y>> /\ Midpoint(x, y, 1) = <<2 * x + 2, 2 * y + 1>>
      /\ Midpoint(x, y, 2) = <<2 * x + 1, 2 * y + 2>> /\ Midpoint(x, y, 3) = <<2 * x, 2 * y + 1>>
  BY DEF Midpoint
<1>2. \A s \in 0..3 : s = 0 \/ s = 1 \/ s = 2 \/ s = 3
  OBVIOUS
<1> QED
  BY <1>1, <1>2

\* Two squares have a side in common: that of the second is the opposite one.
Shares(x, y, s, u, v, t) ==
  \/ s = 0 /\ u = x /\ v = y - 1 /\ t = 2
  \/ s = 1 /\ u = x + 1 /\ v = y /\ t = 3
  \/ s = 2 /\ u = x /\ v = y + 1 /\ t = 0
  \/ s = 3 /\ u = x - 1 /\ v = y /\ t = 1

\* Only such sides have the same midpoint.
LEMMA MidpointIsShared ==
  ASSUME NEW x \in Int, NEW y \in Int, NEW s \in 0..3, NEW u \in Int, NEW v \in Int, NEW t \in 0..3
  PROVE  Midpoint(u, v, t) = Midpoint(x, y, s)
           <=> (u = x /\ v = y /\ t = s) \/ Shares(x, y, s, u, v, t)
<1> DEFINE X(a, r) == IF r = 1 THEN 2 * a + 2 ELSE IF r = 3 THEN 2 * a ELSE 2 * a + 1
           Y(b, r) == IF r = 0 THEN 2 * b ELSE IF r = 2 THEN 2 * b + 2 ELSE 2 * b + 1
<1>1. \A r \in 0..3 : r = 0 \/ r = 1 \/ r = 2 \/ r = 3
  OBVIOUS
<1>2. ASSUME NEW a \in Int, NEW b \in Int, NEW r \in 0..3
      PROVE  /\ X(a, r) \in Int /\ Y(b, r) \in Int
             /\ Midpoint(a, b, r) = <<X(a, r), Y(b, r)>>
  <2>1. X(a, r) \in Int /\ Y(b, r) \in Int
    OBVIOUS
  <2>2. CASE r = 0
    <3>1. X(a, r) = 2 * a + 1 /\ Y(b, r) = 2 * b
      BY <2>2
    <3> HIDE DEF X, Y
    <3> QED
      BY <2>1, <2>2, <3>1, MidpointIs
  <2>3. CASE r = 1
    <3>1. X(a, r) = 2 * a + 2 /\ Y(b, r) = 2 * b + 1
      BY <2>3
    <3> HIDE DEF X, Y
    <3> QED
      BY <2>1, <2>3, <3>1, MidpointIs
  <2>4. CASE r = 2
    <3>1. X(a, r) = 2 * a + 1 /\ Y(b, r) = 2 * b + 2
      BY <2>4
    <3> HIDE DEF X, Y
    <3> QED
      BY <2>1, <2>4, <3>1, MidpointIs
  <2>5. CASE r = 3
    <3>1. X(a, r) = 2 * a /\ Y(b, r) = 2 * b + 1
      BY <2>5
    <3> HIDE DEF X, Y
    <3> QED
      BY <2>1, <2>5, <3>1, MidpointIs
  <2> QED
    BY <1>1, <2>2, <2>3, <2>4, <2>5
<1>3. Midpoint(u, v, t) = Midpoint(x, y, s) <=> X(u, t) = X(x, s) /\ Y(v, t) = Y(y, s)
  <2>1. Midpoint(u, v, t) = <<X(u, t), Y(v, t)>> /\ Midpoint(x, y, s) = <<X(x, s), Y(y, s)>>
    BY <1>2
  <2> DEFINE p == Midpoint(u, v, t)
             q == Midpoint(x, y, s)
  <2>2. p[1] = X(u, t) /\ p[2] = Y(v, t) /\ q[1] = X(x, s) /\ q[2] = Y(y, s)
    <3> HIDE DEF X, Y
    <3> QED
      BY <2>1
  <2> HIDE DEF X, Y
  <2> QED
    BY <2>1, <2>2
<1>4. X(u, t) = X(x, s) /\ Y(v, t) = Y(y, s)
        <=> (u = x /\ v = y /\ t = s) \/ Shares(x, y, s, u, v, t)
  <2>1. CASE s = 0
    BY <1>1, <2>1 DEF Shares
  <2>2. CASE s = 1
    BY <1>1, <2>2 DEF Shares
  <2>3. CASE s = 2
    BY <1>1, <2>3 DEF Shares
  <2>4. CASE s = 3
    BY <1>1, <2>4 DEF Shares
  <2> QED
    BY <1>1, <2>1, <2>2, <2>3, <2>4
<1> QED
  BY <1>3, <1>4

\* Beyond a side whose ends differ lies a square of the grid, as the border is dry; the side
\* is one of its own whose ends differ.
LEMMA BeyondIsCrossed ==
  ASSUME NEW volume \in [Cell -> Nat], DryBorder(volume),
         NEW x \in 0..Size - 2, NEW y \in 0..Size - 2, NEW s \in Crossed(volume, x, y)
  PROVE  \E u, v \in 0..Size - 2 : \E t \in Crossed(volume, u, v) :
           Shares(x, y, s, u, v, t)
<1>1. \A r \in 0..3 : r = 0 \/ r = 1 \/ r = 2 \/ r = 3
  OBVIOUS
<1>2. s \in 0..3
  BY DEF Crossed
<1>3. Size \in Nat /\ Size >= 3
  BY CellIs
<1>4. ASSUME NEW c \in Cell, NEW d \in Cell, Differ(volume, c, d)
      PROVE  ~(/\ c[1] \in {0, Size - 1} \/ c[2] \in {0, Size - 1}
               /\ d[1] \in {0, Size - 1} \/ d[2] \in {0, Size - 1})
  BY <1>4 DEF DryBorder, Differ, WetThreshold
<1>5. /\ <<x, y>> \in Cell /\ <<x + 1, y>> \in Cell /\ <<x, y + 1>> \in Cell
      /\ <<x + 1, y + 1>> \in Cell
  BY <1>3 DEF Cell
<1>6. CASE s = 0
  <2>1. Differ(volume, <<x, y>>, <<x + 1, y>>)
    BY <1>6 DEF Crossed
  <2>2. y # 0
    BY <1>4, <1>5, <2>1
  <2>3. y - 1 \in 0..Size - 2 /\ (y - 1) + 1 = y
    BY <1>3, <2>2
  <2>4. 2 \in Crossed(volume, x, y - 1)
    BY <2>1, <2>3 DEF Crossed
  <2> QED
    <3>1. Shares(x, y, s, x, y - 1, 2)
      BY <1>6 DEF Shares
    <3> QED
      BY <2>3, <2>4, <3>1
<1>7. CASE s = 1
  <2>1. Differ(volume, <<x + 1, y>>, <<x + 1, y + 1>>)
    BY <1>7 DEF Crossed
  <2>2. x + 1 # Size - 1
    BY <1>4, <1>5, <2>1
  <2>3. x + 1 \in 0..Size - 2
    BY <1>3, <2>2
  <2>4. 3 \in Crossed(volume, x + 1, y)
    BY <2>1, <2>3 DEF Crossed
  <2> QED
    <3>1. Shares(x, y, s, x + 1, y, 3)
      BY <1>7 DEF Shares
    <3> QED
      BY <2>3, <2>4, <3>1
<1>8. CASE s = 2
  <2>1. Differ(volume, <<x, y + 1>>, <<x + 1, y + 1>>)
    BY <1>8 DEF Crossed
  <2>2. y + 1 # Size - 1
    BY <1>4, <1>5, <2>1
  <2>3. y + 1 \in 0..Size - 2
    BY <1>3, <2>2
  <2>4. 0 \in Crossed(volume, x, y + 1)
    BY <2>1, <2>3 DEF Crossed
  <2> QED
    <3>1. Shares(x, y, s, x, y + 1, 0)
      BY <1>8 DEF Shares
    <3> QED
      BY <2>3, <2>4, <3>1
<1>9. CASE s = 3
  <2>1. Differ(volume, <<x, y>>, <<x, y + 1>>)
    BY <1>9 DEF Crossed
  <2>2. x # 0
    BY <1>4, <1>5, <2>1
  <2>3. x - 1 \in 0..Size - 2 /\ (x - 1) + 1 = x
    BY <1>3, <2>2
  <2>4. 1 \in Crossed(volume, x - 1, y)
    BY <2>1, <2>3 DEF Crossed
  <2> QED
    <3>1. Shares(x, y, s, x - 1, y, 1)
      BY <1>9 DEF Shares
    <3> QED
      BY <2>3, <2>4, <3>1
<1> QED
  BY <1>1, <1>2, <1>6, <1>7, <1>8, <1>9

\* The place of each element of a flattened sequence in the first n sequences: every place
\* has one element.
Located(flat, seqs, n, row, column) ==
  /\ \A j \in 1..Len(flat) : /\ row[j] \in 1..n /\ column[j] \in 1..Len(seqs[row[j]])
                             /\ flat[j] = seqs[row[j]][column[j]]
  /\ \A i, j \in 1..Len(flat) : row[i] = row[j] /\ column[i] = column[j] => i = j
  /\ \A k \in 1..n : \A i \in 1..Len(seqs[k]) :
       \E j \in 1..Len(flat) : row[j] = k /\ column[j] = i

\* One more sequence has the places behind.
LEMMA LocatedNext ==
  ASSUME NEW P, NEW old \in Seq(P), NEW seqs, NEW n \in Nat, NEW row, NEW column,
         Located(old, seqs, n, row, column), seqs[n + 1] \in Seq(P)
  PROVE  LET new == old \o seqs[n + 1]
         IN  new \in Seq(P) /\ \E r, c : Located(new, seqs, n + 1, r, c)
<1> DEFINE last == seqs[n + 1]
           new == old \o last
           l == Len(old)
           m == Len(last)
           r == [j \in 1..l + m |-> IF j <= l THEN row[j] ELSE n + 1]
           c == [j \in 1..l + m |-> IF j <= l THEN column[j] ELSE j - l]
<1>1. /\ l \in Nat /\ m \in Nat /\ new \in Seq(P) /\ Len(new) = l + m
      /\ \A j \in 1..l + m : new[j] = IF j <= l THEN old[j] ELSE last[j - l]
  OBVIOUS
<1>2. /\ \A j \in 1..l : /\ row[j] \in 1..n /\ column[j] \in 1..Len(seqs[row[j]])
                         /\ old[j] = seqs[row[j]][column[j]]
      /\ \A i, j \in 1..l : row[i] = row[j] /\ column[i] = column[j] => i = j
      /\ \A k \in 1..n : \A i \in 1..Len(seqs[k]) :
           \E j \in 1..l : row[j] = k /\ column[j] = i
  BY DEF Located
<1> HIDE DEF new, l, m
<1>3. /\ \A j \in 1..l : j \in 1..l + m /\ r[j] = row[j] /\ c[j] = column[j]
      /\ \A j \in 1..m : l + j \in 1..l + m /\ r[l + j] = n + 1 /\ c[l + j] = j
      /\ \A j \in 1..l + m : j \in 1..l \/ (j > l /\ r[j] = n + 1 /\ c[j] = j - l /\ j - l \in 1..m)
  BY <1>1
<1> HIDE DEF r, c
<1>4. ASSUME NEW j \in 1..l + m
      PROVE  /\ r[j] \in 1..n + 1 /\ c[j] \in 1..Len(seqs[r[j]])
             /\ new[j] = seqs[r[j]][c[j]]
  <2>1. CASE j \in 1..l
    <3>1. new[j] = old[j] /\ r[j] = row[j] /\ c[j] = column[j]
      BY <1>1, <1>3, <2>1
    <3> QED
      BY <1>2, <2>1, <3>1
  <2>2. CASE j > l
    <3>1. new[j] = last[j - l] /\ r[j] = n + 1 /\ c[j] = j - l /\ j - l \in 1..m
      BY <1>1, <1>3, <2>2
    <3> QED
      BY <3>1 DEF m
  <2> QED
    BY <1>1, <2>1, <2>2
<1>5. ASSUME NEW i \in 1..l + m, NEW j \in 1..l + m, r[i] = r[j], c[i] = c[j]
      PROVE  i = j
  <2>1. CASE i \in 1..l /\ j \in 1..l
    BY <1>2, <1>3, <1>5, <2>1
  <2>2. ASSUME NEW y \in 1..l + m, y > l PROVE r[y] = n + 1 /\ c[y] = y - l /\ y \in Int
    <3>1. y \notin 1..l /\ y \in Int
      BY <1>1, <2>2
    <3> QED
      BY <1>3, <3>1
  <2>3. CASE i > l /\ j > l
    <3>1. c[i] = i - l /\ c[j] = j - l /\ i \in Int /\ j \in Int
      BY <2>3, <2>2
    <3>2. l \in Int
      BY <1>1
    <3>3. i - l = j - l
      BY <1>5, <3>1
    <3> QED
      BY <3>1, <3>2, <3>3
  <2>4. ASSUME NEW x \in 1..l, NEW y \in 1..l + m, y > l PROVE r[x] # r[y]
    <3>1. r[x] = row[x] /\ row[x] \in 1..n
      BY <1>2, <1>3
    <3>2. r[y] = n + 1
      BY <2>4, <2>2
    <3> QED
      BY <3>1, <3>2
  <2> QED
    BY <1>1, <1>5, <2>1, <2>3, <2>4
<1>6. ASSUME NEW k \in 1..n + 1, NEW i \in 1..Len(seqs[k])
      PROVE  \E j \in 1..l + m : r[j] = k /\ c[j] = i
  <2>1. CASE k = n + 1
    <3>1. i \in 1..m
      BY <2>1 DEF m
    <3>2. l + i \in 1..l + m /\ r[l + i] = n + 1 /\ c[l + i] = i
      BY <1>3, <3>1
    <3> QED
      BY <2>1, <3>2
  <2>2. CASE k # n + 1
    <3>1. k \in 1..n
      BY <2>2
    <3> QED
      BY <1>2, <1>3, <3>1
  <2> QED
    BY <2>1, <2>2
<1> HIDE DEF last
<1>7. Located(new, seqs, n + 1, r, c)
  <2>1. Len(new) = l + m
    BY <1>1
  <2>2. \A i, j \in 1..l + m : r[i] = r[j] /\ c[i] = c[j] => i = j
    BY <1>5
  <2> QED
    BY <2>1, <1>4, <2>2, <1>6 DEF Located
<1> QED
  BY <1>1, <1>7 DEF new, last

\* A flattened sequence has the elements of its sequences.
LEMMA FlattenIs ==
  ASSUME NEW P, NEW seqs \in Seq(Seq(P)), Len(seqs) # 0
  PROVE  /\ FlattenSeq(seqs) \in Seq(P)
         /\ \E row, column : Located(FlattenSeq(seqs), seqs, Len(seqs), row, column)
<1> DEFINE n == Len(seqs)
           D == 1..n
           eq(f) == f = [i \in 1..n |-> IF i = 1 THEN seqs[i] ELSE f[i - 1] \o seqs[i]]
<1>1. n \in Nat /\ n >= 1 /\ \A i \in 1..n : seqs[i] \in Seq(P)
  OBVIOUS
<1> HIDE DEF n
<1>2. \E f : eq(f)
  <2> DEFINE base == {1}
             V == Seq(P)
             b == [i \in base |-> seqs[i]]
             p == [i \in D \ base |-> i - 1]
             h == [z \in (D \ base) \X V |-> z[2] \o seqs[z[1]]]
             r == [i \in D |-> i]
  <2>1. /\ base \in SUBSET D /\ b \in [base -> V] /\ p \in [D \ base -> D]
        /\ r \in [D -> Nat] /\ \A i \in D \ base : r[p[i]] < r[i]
    BY <1>1
  <2>2. /\ h \in [(D \ base) \X V -> V]
        /\ \A i \in D \ base, v \in V : h[<<i, v>>] = v \o seqs[i]
    <3>1. \A i \in D \ base, v \in V : v \o seqs[i] \in V
      BY <1>1
    <3> HIDE DEF V
    <3> QED
      BY <3>1
  <2>3. PICK f \in [D -> V] : Solves(f, D, base, b, p, h)
    <3> HIDE DEF base, b, p, h, r, V, D
    <3> QED
      BY <2>1, <2>2, RecursionExists
  <2>4. ASSUME NEW i \in D PROVE f[i] = IF i = 1 THEN seqs[i] ELSE f[i - 1] \o seqs[i]
    <3>1. CASE i = 1
      BY <2>3, <3>1 DEF Solves
    <3>2. CASE i # 1
      <4>1. i \in D \ base /\ p[i] = i - 1 /\ f[i - 1] \in V
        BY <1>1, <3>2
      <4>2. f[i] = h[<<i, f[p[i]]>>]
        BY <2>3, <4>1 DEF Solves
      <4> HIDE DEF h, p, base, V, D
      <4> QED
        BY <2>2, <3>2, <4>1, <4>2
    <3> QED
      BY <3>1, <3>2
  <2> QED
    BY <2>4
<1> DEFINE f == CHOOSE f : eq(f)
<1>3. eq(f)
  <2> HIDE DEF eq
  <2> QED
    BY <1>2
<1>4. FlattenSeq(seqs) = f[n]
  BY <1>1 DEF FlattenSeq, n
<1> HIDE DEF f
<1> DEFINE fine(k) == f[k] \in Seq(P) /\ \E row, column : Located(f[k], seqs, k, row, column)
           G == {k \in Nat : k + 1 <= n => fine(k + 1)}
<1>5. Nat \subseteq G
  <2>1. 0 \in G
    <3> DEFINE row == [j \in 1..Len(seqs[1]) |-> 1]
               column == [j \in 1..Len(seqs[1]) |-> j]
    <3>1. f[1] = seqs[1] /\ f[1] \in Seq(P)
      BY <1>1, <1>3
    <3>2. Located(f[1], seqs, 1, row, column)
      BY <3>1 DEF Located
    <3>3. fine(1) /\ 0 + 1 = 1
      BY <3>1, <3>2
    <3> HIDE DEF fine
    <3> QED
      BY <3>3
  <2>2. ASSUME NEW k \in Nat, k \in G PROVE k + 1 \in G
    <3> SUFFICES ASSUME (k + 1) + 1 <= n PROVE fine((k + 1) + 1)
      OBVIOUS
    <3> DEFINE i == k + 1
    <3>1. i \in Nat /\ i + 1 \in 1..n /\ i + 1 # 1 /\ (i + 1) - 1 = i /\ i <= n
      BY <1>1
    <3>2. fine(i)
      BY <2>2, <3>1
    <3> HIDE DEF i
    <3>3. f[i + 1] = f[i] \o seqs[i + 1] /\ seqs[i + 1] \in Seq(P)
      BY <1>1, <1>3, <3>1
    <3>4. PICK row, column : Located(f[i], seqs, i, row, column)
      BY <3>2
    <3>5. fine(i + 1)
      BY <3>1, <3>2, <3>3, <3>4, LocatedNext
    <3> HIDE DEF fine
    <3> QED
      BY <3>5 DEF i
  <2> HIDE DEF G
  <2> QED
    BY <2>1, <2>2, NatSetInduction
<1>6. fine(n)
  <2>1. n - 1 \in Nat /\ (n - 1) + 1 = n /\ n <= n
    BY <1>1
  <2>2. n - 1 \in G
    <3> HIDE DEF G
    <3> QED
      BY <1>5, <2>1
  <2> HIDE DEF fine
  <2> QED
    BY <2>1, <2>2
<1> QED
  BY <1>4, <1>6 DEF n

\* The edges of a square.
Segments(volume, x, y) ==
  [i \in DOMAIN SidesOf(volume, x, y) |-> <<Midpoint(x, y, SidesOf(volume, x, y)[i][1]),
                                            Midpoint(x, y, SidesOf(volume, x, y)[i][2])>>]

\* The squares, one after the other, and their edges.
Squared(volume) ==
  [k \in 1..(Size - 1) * (Size - 1) |->
     Segments(volume, (k - 1) \div (Size - 1), (k - 1) % (Size - 1))]

\* The edges are those of the squares.
LEMMA EdgesAre == ASSUME NEW volume PROVE Edges(volume) = FlattenSeq(Squared(volume))
BY DEF Edges, Squared, Segments, SidesOf

\* Rows of n number their places.
LEMMA SquareIs ==
  ASSUME NEW n \in Nat, n >= 1
  PROVE  /\ n * n \in Nat /\ n * n >= 1
         /\ \A k \in 1..n * n : /\ (k - 1) \div n \in 0..n - 1 /\ (k - 1) % n \in 0..n - 1
                                /\ k = n * ((k - 1) \div n) + ((k - 1) % n) + 1
         /\ \A x, y \in 0..n - 1 : \E k \in 1..n * n : (k - 1) \div n = x /\ (k - 1) % n = y
<1>1. n * n \in Nat /\ n * n >= 1
  OBVIOUS
<1>2. ASSUME NEW k \in 1..n * n
      PROVE  /\ (k - 1) \div n \in 0..n - 1 /\ (k - 1) % n \in 0..n - 1
             /\ k = n * ((k - 1) \div n) + ((k - 1) % n) + 1
  <2> DEFINE j == k - 1
             q == j \div n
             r == j % n
  <2>1. j \in Nat /\ j < n * n /\ k = j + 1
    BY <1>1
  <2> HIDE DEF j
  <2>2. q \in Nat /\ r \in 0..n - 1 /\ j = n * q + r
    BY <2>1
  <2> HIDE DEF q, r
  <2>3. q < n
    <3> SUFFICES ASSUME q >= n PROVE FALSE
      BY <2>2
    <3>1. n * q >= n * n /\ n * q \in Int /\ n * n \in Int
      BY <2>2
    <3> QED
      BY <2>1, <2>2, <3>1
  <2>4. n * q \in Int
    BY <2>2
  <2>5. q \in 0..n - 1 /\ k = n * q + r + 1
    BY <2>1, <2>2, <2>3, <2>4
  <2> QED
    BY <2>2, <2>5 DEF q, r, j
<1>3. ASSUME NEW x \in 0..n - 1, NEW y \in 0..n - 1
      PROVE  \E k \in 1..n * n : (k - 1) \div n = x /\ (k - 1) % n = y
  <2> DEFINE j == n * x + y
  <2>1. n * x \in Nat /\ n * x <= n * (n - 1) /\ n * (n - 1) = n * n - n
    OBVIOUS
  <2>2. j \in Nat /\ j + 1 \in 1..n * n
    BY <1>1, <2>1
  <2>3. j \div n = x /\ j % n = y
    OBVIOUS
  <2>4. (j + 1) - 1 = j
    BY <2>2
  <2> HIDE DEF j
  <2> QED
    BY <2>2, <2>3, <2>4
<1> QED
  BY <1>1, <1>2, <1>3

\* Edge j is the cs[j]-th of the square at xs[j], ys[j]; every square has its edges once.
Drawn(volume, edges, xs, ys, cs) ==
  /\ \A j \in DOMAIN edges :
       /\ xs[j] \in 0..Size - 2 /\ ys[j] \in 0..Size - 2
       /\ cs[j] \in DOMAIN SidesOf(volume, xs[j], ys[j])
       /\ edges[j] = Segments(volume, xs[j], ys[j])[cs[j]]
  /\ \A i, j \in DOMAIN edges : xs[i] = xs[j] /\ ys[i] = ys[j] /\ cs[i] = cs[j] => i = j
  /\ \A x, y \in 0..Size - 2 : \A i \in DOMAIN SidesOf(volume, x, y) :
       \E j \in DOMAIN edges : xs[j] = x /\ ys[j] = y /\ cs[j] = i

\* The edges of a square join points.
LEMMA SegmentsAre ==
  ASSUME NEW volume, NEW x \in Int, NEW y \in Int
  PROVE  /\ Segments(volume, x, y) \in Seq((Int \X Int) \X (Int \X Int))
         /\ DOMAIN Segments(volume, x, y) = DOMAIN SidesOf(volume, x, y)
         /\ \A i \in DOMAIN SidesOf(volume, x, y) :
              /\ SidesOf(volume, x, y)[i][1] \in 0..3 /\ SidesOf(volume, x, y)[i][2] \in 0..3
              /\ Segments(volume, x, y)[i][1] = Midpoint(x, y, SidesOf(volume, x, y)[i][1])
              /\ Segments(volume, x, y)[i][2] = Midpoint(x, y, SidesOf(volume, x, y)[i][2])
<1> DEFINE sides == SidesOf(volume, x, y)
<1>1. sides \in Seq((0..3) \X (0..3))
  BY SidesAreJoined DEF Joins
<1>2. Segments(volume, x, y)
      = [i \in DOMAIN sides |-> <<Midpoint(x, y, sides[i][1]), Midpoint(x, y, sides[i][2])>>]
  BY DEF Segments
<1> HIDE DEF sides
<1>3. DOMAIN sides = 1..Len(sides) /\ Len(sides) \in Nat
      /\ \A i \in DOMAIN sides : sides[i][1] \in 0..3 /\ sides[i][2] \in 0..3
  BY <1>1
<1>4. \A s \in 0..3 : Midpoint(x, y, s) \in Int \X Int
  BY MidpointIs
<1>5. Segments(volume, x, y) \in Seq((Int \X Int) \X (Int \X Int))
  <2> DEFINE P == Int \X Int
             f == [i \in 1..Len(sides) |-> <<Midpoint(x, y, sides[i][1]), Midpoint(x, y, sides[i][2])>>]
  <2>1. \A i \in 1..Len(sides) : <<Midpoint(x, y, sides[i][1]), Midpoint(x, y, sides[i][2])>> \in P \X P
    BY <1>3, <1>4
  <2> HIDE DEF P
  <2>2. f \in [1..Len(sides) -> P \X P]
    BY <2>1
  <2> HIDE DEF f
  <2>3. f \in Seq(P \X P)
    BY <1>3, <2>2
  <2> QED
    BY <1>2, <1>3, <2>3 DEF f, P
<1> QED
  BY <1>2, <1>3, <1>5 DEF sides

\* Every edge has its place in a square.
LEMMA EdgesAreDrawn ==
  ASSUME NEW volume
  PROVE  /\ Edges(volume) \in Seq((Int \X Int) \X (Int \X Int))
         /\ \E xs, ys, cs : Drawn(volume, Edges(volume), xs, ys, cs)
<1> DEFINE n == Size - 1
           P == (Int \X Int) \X (Int \X Int)
           seqs == Squared(volume)
           edges == FlattenSeq(seqs)
           X(k) == (k - 1) \div n
           Y(k) == (k - 1) % n
<1>1. n \in Nat /\ n >= 1 /\ n - 1 = Size - 2
  BY CellIs
<1>2. /\ n * n \in Nat /\ n * n >= 1
      /\ \A k \in 1..n * n : X(k) \in 0..n - 1 /\ Y(k) \in 0..n - 1 /\ k = n * X(k) + Y(k) + 1
      /\ \A x, y \in 0..n - 1 : \E k \in 1..n * n : X(k) = x /\ Y(k) = y
  <2> HIDE DEF n
  <2> QED
    BY <1>1, SquareIs
<1>3. seqs = [k \in 1..n * n |-> Segments(volume, X(k), Y(k))]
  BY DEF Squared
<1> HIDE DEF X, Y, n, seqs, P
<1>4. \A k \in 1..n * n : Segments(volume, X(k), Y(k)) \in Seq(P)
  BY <1>1, <1>2, SegmentsAre DEF P
<1>5. /\ seqs \in Seq(Seq(P)) /\ Len(seqs) = n * n
      /\ \A k \in 1..n * n : seqs[k] = Segments(volume, X(k), Y(k))
  <2> DEFINE m == n * n
             S == Seq(P)
  <2>1. m \in Nat
    BY <1>2
  <2> HIDE DEF m, S
  <2>2. seqs \in [1..m -> S]
    BY <1>3, <1>4 DEF m, S
  <2>3. seqs \in Seq(S) /\ Len(seqs) = m
    BY <2>1, <2>2
  <2> QED
    BY <1>3, <2>3 DEF m, S
<1>6. Len(seqs) # 0
  BY <1>2, <1>5
<1>7. PICK row, column : Located(edges, seqs, Len(seqs), row, column)
  BY <1>5, <1>6, FlattenIs
<1>8. edges \in Seq(P)
  BY <1>5, <1>6, FlattenIs
<1> HIDE DEF edges
<1>9. DOMAIN edges = 1..Len(edges)
  BY <1>8
<1> DEFINE D == DOMAIN edges
           xs == [j \in D |-> X(row[j])]
           ys == [j \in D |-> Y(row[j])]
<1>10. ASSUME NEW k \in 1..n * n
       PROVE  /\ seqs[k] = Segments(volume, X(k), Y(k))
              /\ X(k) \in 0..Size - 2 /\ Y(k) \in 0..Size - 2
              /\ DOMAIN seqs[k] = 1..Len(seqs[k]) /\ DOMAIN seqs[k] = DOMAIN SidesOf(volume, X(k), Y(k))
  <2>1. seqs[k] = Segments(volume, X(k), Y(k)) /\ seqs[k] \in Seq(P)
    BY <1>4, <1>5
  <2>2. X(k) \in 0..Size - 2 /\ Y(k) \in 0..Size - 2 /\ X(k) \in Int /\ Y(k) \in Int
    <3>1. X(k) \in 0..n - 1 /\ Y(k) \in 0..n - 1
      BY <1>2
    <3> QED
      BY <1>1, <3>1
  <2>3. DOMAIN seqs[k] = DOMAIN SidesOf(volume, X(k), Y(k))
    BY <2>1, <2>2, SegmentsAre
  <2> QED
    BY <2>1, <2>2, <2>3
<1>11. ASSUME NEW j \in D
       PROVE  /\ row[j] \in 1..n * n /\ xs[j] = X(row[j]) /\ ys[j] = Y(row[j])
              /\ xs[j] \in 0..Size - 2 /\ ys[j] \in 0..Size - 2
              /\ column[j] \in DOMAIN SidesOf(volume, xs[j], ys[j])
              /\ edges[j] = Segments(volume, xs[j], ys[j])[column[j]]
  <2>1. row[j] \in 1..n * n /\ column[j] \in 1..Len(seqs[row[j]]) /\ edges[j] = seqs[row[j]][column[j]]
    BY <1>5, <1>7, <1>9 DEF Located
  <2>2. xs[j] = X(row[j]) /\ ys[j] = Y(row[j])
    OBVIOUS
  <2> HIDE DEF xs, ys
  <2> QED
    BY <1>10, <2>1, <2>2
<1>12. ASSUME NEW i \in D, NEW j \in D, xs[i] = xs[j], ys[i] = ys[j], column[i] = column[j]
       PROVE  i = j
  <2>1. row[i] = row[j]
    <3> HIDE DEF xs, ys
    <3>1. X(row[i]) = X(row[j]) /\ Y(row[i]) = Y(row[j]) /\ row[i] \in 1..n * n /\ row[j] \in 1..n * n
      BY <1>11, <1>12
    <3>2. row[i] = n * X(row[i]) + Y(row[i]) + 1 /\ row[j] = n * X(row[j]) + Y(row[j]) + 1
      BY <1>2, <3>1
    <3> QED
      BY <3>1, <3>2
  <2> QED
    BY <1>7, <1>9, <1>12, <2>1 DEF Located
<1>13. ASSUME NEW x \in 0..Size - 2, NEW y \in 0..Size - 2, NEW i \in DOMAIN SidesOf(volume, x, y)
       PROVE  \E j \in D : xs[j] = x /\ ys[j] = y /\ column[j] = i
  <2>1. PICK k \in 1..n * n : X(k) = x /\ Y(k) = y
    BY <1>1, <1>2
  <2>2. i \in 1..Len(seqs[k]) /\ k \in 1..Len(seqs)
    BY <1>5, <1>10, <2>1
  <2>3. PICK j \in 1..Len(edges) : row[j] = k /\ column[j] = i
    <3>1. \A l \in 1..Len(seqs) : \A m \in 1..Len(seqs[l]) :
            \E j \in 1..Len(edges) : row[j] = l /\ column[j] = m
      BY <1>7, Zenon DEF Located
    <3> QED
      BY <2>2, <3>1
  <2> QED
    BY <1>9, <2>1, <2>3
<1>14. Drawn(volume, edges, xs, ys, column)
  <2> HIDE DEF xs, ys
  <2> QED
    BY <1>11, <1>12, <1>13 DEF Drawn
<1>15. Edges(volume) = edges
  BY EdgesAre DEF edges, seqs
<1> HIDE DEF xs, ys
<1> QED
  BY <1>8, <1>14, <1>15 DEF P

\* Edge j lies in the square at x, y and ends at its side s.
EndsAt(volume, xs, ys, cs, j, x, y, s) ==
  /\ xs[j] = x /\ ys[j] = y
  /\ s \in {SidesOf(volume, x, y)[cs[j]][1], SidesOf(volume, x, y)[cs[j]][2]}

\* The ends of an edge are the midpoints of two sides whose ends differ.
LEMMA EndIsSide ==
  ASSUME NEW volume, NEW edges, NEW xs, NEW ys, NEW cs, Drawn(volume, edges, xs, ys, cs),
         NEW j \in DOMAIN edges, NEW m
  PROVE  /\ xs[j] \in 0..Size - 2 /\ ys[j] \in 0..Size - 2
         /\ edges[j][1] # edges[j][2]
         /\ m \in {edges[j][1], edges[j][2]}
              <=> \E s \in Crossed(volume, xs[j], ys[j]) :
                    m = Midpoint(xs[j], ys[j], s) /\ EndsAt(volume, xs, ys, cs, j, xs[j], ys[j], s)
<1> DEFINE x == xs[j]
           y == ys[j]
           side == SidesOf(volume, x, y)[cs[j]]
<1>1. /\ x \in 0..Size - 2 /\ y \in 0..Size - 2 /\ cs[j] \in DOMAIN SidesOf(volume, x, y)
      /\ edges[j] = Segments(volume, x, y)[cs[j]]
  BY DEF Drawn
<1>2. x \in Int /\ y \in Int
  BY <1>1, CellIs
<1>3. /\ side[1] \in 0..3 /\ side[2] \in 0..3
      /\ edges[j][1] = Midpoint(x, y, side[1]) /\ edges[j][2] = Midpoint(x, y, side[2])
  <2> DEFINE i == cs[j]
             drawn == Segments(volume, x, y)
  <2>1. i \in DOMAIN SidesOf(volume, x, y)
    BY <1>1
  <2> HIDE DEF x, y, i
  <2>2. /\ SidesOf(volume, x, y)[i][1] \in 0..3 /\ SidesOf(volume, x, y)[i][2] \in 0..3
        /\ drawn[i][1] = Midpoint(x, y, SidesOf(volume, x, y)[i][1])
        /\ drawn[i][2] = Midpoint(x, y, SidesOf(volume, x, y)[i][2])
    BY <1>2, <2>1, SegmentsAre
  <2>3. edges[j] = drawn[i]
    BY <1>1 DEF i
  <2> HIDE DEF drawn
  <2> QED
    BY <2>2, <2>3 DEF i
<1>4. side[1] # side[2] /\ side[1] \in Crossed(volume, x, y) /\ side[2] \in Crossed(volume, x, y)
  BY <1>1, SidesAreJoined DEF Joins
<1>5. edges[j][1] # edges[j][2]
  <2>1. ~Shares(x, y, side[1], x, y, side[2])
    BY <1>2 DEF Shares
  <2> HIDE DEF side
  <2> QED
    BY <1>2, <1>3, <1>4, <2>1, MidpointIsShared
<1>6. \A s : EndsAt(volume, xs, ys, cs, j, x, y, s) <=> s \in {side[1], side[2]}
  BY DEF EndsAt
<1> HIDE DEF side
<1> QED
  BY <1>1, <1>3, <1>4, <1>5, <1>6

\* A side whose ends differ is an end of one edge of its square.
LEMMA SideIsOnce ==
  ASSUME NEW volume, NEW edges, NEW xs, NEW ys, NEW cs, Drawn(volume, edges, xs, ys, cs),
         NEW x \in 0..Size - 2, NEW y \in 0..Size - 2, NEW s \in Crossed(volume, x, y)
  PROVE  \E j \in DOMAIN edges : /\ EndsAt(volume, xs, ys, cs, j, x, y, s)
                                 /\ \A k \in DOMAIN edges :
                                      EndsAt(volume, xs, ys, cs, k, x, y, s) => k = j
<1> DEFINE sides == SidesOf(volume, x, y)
<1>1. PICK i \in DOMAIN sides : s \in {sides[i][1], sides[i][2]}
  BY SidesAreJoined DEF Joins
<1>2. PICK j \in DOMAIN edges : xs[j] = x /\ ys[j] = y /\ cs[j] = i
  BY <1>1 DEF Drawn
<1>3. EndsAt(volume, xs, ys, cs, j, x, y, s)
  BY <1>1, <1>2 DEF EndsAt
<1>4. ASSUME NEW k \in DOMAIN edges, EndsAt(volume, xs, ys, cs, k, x, y, s)
      PROVE  k = j
  <2>1. /\ xs[k] = x /\ ys[k] = y /\ cs[k] \in DOMAIN sides
        /\ s \in {sides[cs[k]][1], sides[cs[k]][2]}
    BY <1>4 DEF EndsAt, Drawn
  <2>2. \A a, b \in DOMAIN sides :
          a # b => {sides[a][1], sides[a][2]} \cap {sides[b][1], sides[b][2]} = {}
    BY SidesAreJoined DEF Joins
  <2> HIDE DEF sides
  <2>3. cs[k] = i
    BY <1>1, <2>1, <2>2
  <2> QED
    BY <1>2, <2>1, <2>3 DEF Drawn
<1> QED
  BY <1>3, <1>4

\* Every point where edges end is the end of two.
LEMMA EdgesArePaired ==
  ASSUME NEW volume \in [Cell -> Nat], DryBorder(volume)
  PROVE  Paired(Edges(volume))
<1> DEFINE edges == Edges(volume)
<1>1. PICK xs, ys, cs : Drawn(volume, edges, xs, ys, cs)
  BY EdgesAreDrawn
<1> HIDE DEF edges
<1> DEFINE Ends(j, x, y, s) == EndsAt(volume, xs, ys, cs, j, x, y, s)
<1>2. ASSUME NEW m, At(edges, m) # {}
      PROVE  \E i, j \in DOMAIN edges : i # j /\ At(edges, m) = {i, j}
  <2>1. PICK e \in DOMAIN edges : m \in {edges[e][1], edges[e][2]}
    BY <1>2 DEF At
  <2> DEFINE x == xs[e]
             y == ys[e]
  <2>2. x \in 0..Size - 2 /\ y \in 0..Size - 2
    BY <1>1, EndIsSide
  <2>3. PICK s \in Crossed(volume, x, y) : m = Midpoint(x, y, s) /\ Ends(e, x, y, s)
    BY <1>1, <2>1, EndIsSide
  <2> HIDE DEF x, y
  <2>4. PICK u, v \in 0..Size - 2 : \E t \in Crossed(volume, u, v) : Shares(x, y, s, u, v, t)
    BY <2>2, BeyondIsCrossed
  <2>5. PICK t \in Crossed(volume, u, v) : Shares(x, y, s, u, v, t)
    BY <2>4
  <2>6. /\ x \in Int /\ y \in Int /\ u \in Int /\ v \in Int /\ s \in 0..3 /\ t \in 0..3
    BY <2>2, CellIs DEF Crossed
  <2>7. Midpoint(u, v, t) = m
    BY <2>3, <2>5, <2>6, MidpointIsShared
  <2>8. PICK i \in DOMAIN edges : Ends(i, x, y, s) /\ \A k \in DOMAIN edges : Ends(k, x, y, s) => k = i
    BY <1>1, <2>2, SideIsOnce
  <2>9. PICK j \in DOMAIN edges : Ends(j, u, v, t) /\ \A k \in DOMAIN edges : Ends(k, u, v, t) => k = j
    BY <1>1, SideIsOnce
  <2>10. i # j
    <3>1. xs[i] = x /\ ys[i] = y /\ xs[j] = u /\ ys[j] = v
      BY <2>8, <2>9 DEF EndsAt
    <3>2. ~(u = x /\ v = y)
      BY <2>5, <2>6 DEF Shares
    <3> QED
      BY <3>1, <3>2
  <2>11. i \in At(edges, m) /\ j \in At(edges, m)
    <3>1. xs[i] = x /\ ys[i] = y /\ xs[j] = u /\ ys[j] = v
      BY <2>8, <2>9 DEF EndsAt
    <3>2. m \in {edges[i][1], edges[i][2]}
      BY <1>1, <2>3, <2>8, <3>1, EndIsSide
    <3>3. m \in {edges[j][1], edges[j][2]}
      BY <1>1, <2>5, <2>7, <2>9, <3>1, EndIsSide
    <3> QED
      BY <3>2, <3>3 DEF At
  <2>12. ASSUME NEW k \in At(edges, m) PROVE k = i \/ k = j
    <3>1. k \in DOMAIN edges /\ m \in {edges[k][1], edges[k][2]}
      BY DEF At
    <3>2. PICK r \in Crossed(volume, xs[k], ys[k]) :
            m = Midpoint(xs[k], ys[k], r) /\ Ends(k, xs[k], ys[k], r)
      BY <1>1, <3>1, EndIsSide
    <3>3. xs[k] \in Int /\ ys[k] \in Int /\ r \in 0..3
      <4>1. xs[k] \in 0..Size - 2 /\ ys[k] \in 0..Size - 2
        BY <1>1, <3>1, EndIsSide
      <4> QED
        BY <4>1, CellIs DEF Crossed
    <3>4. (xs[k] = x /\ ys[k] = y /\ r = s) \/ Shares(x, y, s, xs[k], ys[k], r)
      BY <2>3, <2>6, <3>2, <3>3, MidpointIsShared
    <3>5. CASE xs[k] = x /\ ys[k] = y /\ r = s
      BY <2>8, <3>1, <3>2, <3>5
    <3>6. CASE Shares(x, y, s, xs[k], ys[k], r)
      <4>1. xs[k] = u /\ ys[k] = v /\ r = t
        BY <2>5, <3>6 DEF Shares
      <4> QED
        BY <2>9, <3>1, <3>2, <4>1
    <3> QED
      BY <3>4, <3>5, <3>6
  <2> QED
    BY <2>10, <2>11, <2>12
<1>3. \A j \in DOMAIN edges : edges[j][1] # edges[j][2]
  BY <1>1, EndIsSide
<1> QED
  BY <1>2, <1>3 DEF Paired, edges

-----------------------------------------------------------------------------
(* The border stays dry: the fluid is weighed by how far it has come.       *)

\* The fluid by the weight of its cells.
Weighed(v, w) == Total([c \in Cell |-> v[c] * w[c]], Cell)

\* A weight that at most doubles from one cell to the next, and in one direction only.
Slope(w) ==
  /\ w \in [Cell -> Nat]
  /\ \A c \in Cell : \E m : \A n \in Neighbors(c) :
       w[n] <= 2 * w[c] /\ (n # m => w[n] <= w[c])

\* Products of numbers are numbers, and grow with them.
LEMMA ProductIs ==
  ASSUME NEW a \in Nat, NEW b \in Nat, NEW d \in Nat, b <= d
  PROVE  a * b \in Nat /\ a * d \in Nat /\ a * b <= a * d /\ b * a \in Nat /\ b * a <= d * a
OBVIOUS

\* What all cells get from their neighbours, by their own weight, is what all cells give, by
\* the weight of their neighbours.
LEMMA GivenIsWeighed ==
  ASSUME NEW give \in [Cell -> Nat], NEW w \in [Cell -> Nat]
  PROVE  Total([c \in Cell |-> w[c] * Total(give, Neighbors(c))], Cell)
         = Total([c \in Cell |-> give[c] * Total(w, Neighbors(c))], Cell)
<1> DEFINE row == [c \in Cell |-> [n \in Cell |-> IF n \in Neighbors(c) THEN w[c] * give[n] ELSE 0]]
           column == [n \in Cell |-> [c \in Cell |-> IF c \in Neighbors(n) THEN w[c] * give[n] ELSE 0]]
           got == [c \in Cell |-> w[c] * Total(give, Neighbors(c))]
           lost == [c \in Cell |-> give[c] * Total(w, Neighbors(c))]
<1>1. ASSUME NEW c \in Cell, NEW n \in Cell
      PROVE  w[c] * give[n] \in Int /\ row[c][n] = column[n][c] /\ row[c][n] \in Int
  <2>1. w[c] * give[n] \in Int
    BY ProductIs
  <2>2. n \in Neighbors(c) <=> c \in Neighbors(n)
    BY NeighborsAre
  <2> QED
    BY <2>1, <2>2
<1>2. Transposed(row, column, Cell, Cell)
  BY <1>1 DEF Transposed
<1>3. ASSUME NEW c \in Cell PROVE got[c] = Total(row[c], Cell)
  <2> DEFINE part == [n \in Cell |-> w[c] * give[n]]
             N == Neighbors(c)
  <2>1. /\ \A n \in Cell : row[c][n] \in Int
        /\ \A n \in N : row[c][n] = part[n]
        /\ \A n \in Cell \ N : row[c][n] = 0
    BY <1>1, NeighborsAre
  <2>2. /\ N \in SUBSET Cell /\ IsFiniteSet(N) /\ got[c] = w[c] * Total(give, N)
        /\ w[c] \in Int /\ \A n \in N : give[n] \in Int /\ part[n] = w[c] * give[n]
    BY NeighborsAre
  <2> HIDE DEF row, got, part, N
  <2>3. Total(row[c], Cell) = Total(part, N)
    BY <2>1, <2>2, CellIs, TotalWithin
  <2>4. Total(part, N) = w[c] * Total(give, N)
    BY <2>2, TotalTimes
  <2> QED
    BY <2>2, <2>3, <2>4
<1>4. ASSUME NEW n \in Cell PROVE lost[n] = Total(column[n], Cell)
  <2> DEFINE part == [c \in Cell |-> give[n] * w[c]]
             N == Neighbors(n)
  <2>1. /\ \A c \in Cell : column[n][c] \in Int
        /\ \A c \in N : column[n][c] = part[c]
        /\ \A c \in Cell \ N : column[n][c] = 0
    <3>1. \A c \in Cell : column[n][c] \in Int
      BY <1>1
    <3>2. \A c \in Cell : w[c] \in Nat /\ give[n] \in Nat
      OBVIOUS
    <3>3. \A c \in Cell : w[c] * give[n] = give[n] * w[c]
      BY <3>2
    <3> QED
      BY <3>1, <3>3, NeighborsAre
  <2>2. /\ N \in SUBSET Cell /\ IsFiniteSet(N) /\ lost[n] = give[n] * Total(w, N)
        /\ give[n] \in Int /\ \A c \in N : w[c] \in Int /\ part[c] = give[n] * w[c]
    BY NeighborsAre
  <2> HIDE DEF column, lost, part, N
  <2>3. Total(column[n], Cell) = Total(part, N)
    BY <2>1, <2>2, CellIs, TotalWithin
  <2>4. Total(part, N) = give[n] * Total(w, N)
    BY <2>2, TotalTimes
  <2> QED
    BY <2>2, <2>3, <2>4
<1>5. Totals(got, row, Cell, Cell) /\ Totals(lost, column, Cell, Cell)
  <2> HIDE DEF row, column, got, lost
  <2> QED
    BY <1>3, <1>4 DEF Totals
<1>6. Total(got, Cell) = Total(lost, Cell)
  <2> HIDE DEF row, column, got, lost
  <2> QED
    BY <1>2, <1>5, CellIs, TotalExchange
<1> QED
  BY <1>6

\* The neighbours of a cell weigh as much as the cell does as often, and once more.
LEMMA NearWeighs ==
  ASSUME NEW w, Slope(w), NEW c \in Cell
  PROVE  /\ Total(w, Neighbors(c)) \in Nat
         /\ Total(w, Neighbors(c)) <= (Cardinality(Neighbors(c)) + 1) * w[c]
<1> DEFINE N == Neighbors(c)
           x == w[c]
           same == [n \in Cell |-> x]
<1>1. /\ N \in SUBSET Cell /\ IsFiniteSet(N) /\ Cardinality(N) \in Nat
      /\ x \in Nat /\ \A n \in N : w[n] \in Nat
      /\ \A n \in Cell : same[n] = x
  BY NeighborsAre DEF Slope
<1>2. PICK m : \A n \in N : w[n] <= 2 * x /\ (n # m => w[n] <= x)
  BY DEF Slope
<1> HIDE DEF N, x, same
<1>3. Total(w, N) \in Nat
  BY <1>1, TotalNat
<1>4. ASSUME NEW S \in SUBSET N, \A n \in S : w[n] <= x
      PROVE  Total(w, S) <= Cardinality(S) * x /\ Cardinality(S) \in Nat /\ Total(w, S) \in Int
  <2>1. IsFiniteSet(S) /\ Cardinality(S) \in Nat
    BY <1>1, FS_Subset, FS_CardinalityType
  <2>2. \A n \in S : w[n] \in Int /\ same[n] \in Int /\ w[n] <= same[n] /\ same[n] = x
    BY <1>1, <1>4
  <2>3. Total(w, S) <= Total(same, S) /\ Total(w, S) \in Int
    BY <2>1, <2>2, TotalMonotone, TotalType
  <2>4. Total(same, S) = Cardinality(S) * x
    BY <1>1, <2>1, <2>2, TotalConstant
  <2> QED
    BY <2>1, <2>3, <2>4
<1>5. CASE m \notin N
  <2>1. Total(w, N) <= Cardinality(N) * x
    BY <1>2, <1>4, <1>5
  <2>2. (Cardinality(N) + 1) * x = Cardinality(N) * x + x /\ Cardinality(N) * x \in Int
    BY <1>1
  <2> QED
    BY <1>1, <1>3, <2>1, <2>2 DEF N, x
<1>6. CASE m \in N
  <2> DEFINE S == N \ {m}
             k == Cardinality(S)
  <2>1. Total(w, N) = w[m] + Total(w, S)
    BY <1>1, <1>6, TotalTake
  <2>2. Total(w, S) <= k * x /\ k \in Nat /\ Total(w, S) \in Int
    BY <1>2, <1>4
  <2>3. Cardinality(N) = k + 1
    <3>1. Cardinality(N \ {m}) = Cardinality(N) - 1
      BY <1>1, <1>6, FS_RemoveElement
    <3> QED
      BY <1>1, <3>1
  <2> HIDE DEF k, S
  <2>4. (k + 2) * x = k * x + 2 * x /\ k * x \in Int
    BY <1>1, <2>2
  <2>5. w[m] \in Nat /\ w[m] <= 2 * x
    BY <1>1, <1>2, <1>6
  <2>6. Total(w, N) <= (k + 2) * x
    BY <1>1, <2>1, <2>2, <2>4, <2>5
  <2>7. Cardinality(N) + 1 = k + 2
    BY <2>2, <2>3
  <2> QED
    BY <1>3, <2>6, <2>7 DEF N, x
<1> QED
  BY <1>5, <1>6

\* A cell gives an eighth of its fluid to each neighbour.
LEMMA EighthIs ==
  ASSUME NEW strokes, Absorbent(strokes), NEW grid \in Grids(strokes), NEW c \in Cell
  PROVE  8 * SpreadAmount(grid, c) <= grid.volume[c]
<1> DEFINE v == grid.volume[c]
<1>1. v \in Nat
  BY DEF Grids
<1>2. SpreadAmount(grid, c) = IF grid.marks[c] = {} THEN (v * 50) \div 400 ELSE 0
  BY DEF SpreadAmount, Viscosity
<1> HIDE DEF v
<1>3. 8 * ((v * 50) \div 400) <= v
  BY <1>1
<1> QED
  BY <1>1, <1>2, <1>3 DEF v

\* The weight of what a cell keeps and gives.
LEMMA KeptWeighs ==
  ASSUME NEW v \in Nat, NEW t \in Nat, NEW k \in 0..4, NEW g \in Nat, NEW x \in Nat, NEW y \in Nat,
         t + k * g <= v, 8 * g <= v, y <= (k + 1) * x
  PROVE  /\ (v - t - k * g) * x + g * y \in Int
         /\ 8 * ((v - t - k * g) * x + g * y) <= 9 * (v * x)
<1>1. g * x \in Nat /\ v * x \in Nat /\ t * x \in Nat /\ g * y \in Nat
  OBVIOUS
<1>2. 8 * (g * x) <= v * x
  <2>1. (8 * g) * x <= v * x
    <3> DEFINE e == 8 * g
    <3>1. e \in Nat /\ e <= v
      OBVIOUS
    <3> HIDE DEF e
    <3> QED
      BY <3>1, ProductIs
  <2> QED
    BY <2>1
<1>3. g * y <= g * ((k + 1) * x)
  <2> DEFINE z == (k + 1) * x
  <2>1. z \in Nat /\ y <= z
    OBVIOUS
  <2> HIDE DEF z
  <2> QED
    BY <2>1, ProductIs
<1>4. g * ((k + 1) * x) = k * (g * x) + g * x
  OBVIOUS
<1>5. (v - t - k * g) * x = v * x - t * x - k * (g * x)
  OBVIOUS
<1>6. k * (g * x) \in Int
  BY <1>1
<1> DEFINE a == g * x
           b == v * x
           d == t * x
           e == g * y
           f == k * (g * x)
           h == (v - t - k * g) * x
<1>7. /\ a \in Nat /\ b \in Nat /\ d \in Nat /\ e \in Nat /\ f \in Int
      /\ 8 * a <= b /\ e <= f + a /\ h = b - d - f
  BY <1>1, <1>2, <1>3, <1>4, <1>5, <1>6
<1> HIDE DEF a, b, d, e, f, h
<1>8. h + e \in Int /\ 8 * (h + e) <= 9 * b
  BY <1>7
<1> QED
  BY <1>8 DEF h, e, b

\* Spreading makes the fluid heavier by an eighth at most.
LEMMA SpreadWeighs ==
  ASSUME NEW strokes, Absorbent(strokes), NEW grid \in Grids(strokes), NEW w, Slope(w)
  PROVE  8 * Weighed(Spread(grid), w) <= 9 * Weighed(grid.volume, w)
<1> DEFINE v == grid.volume
           left == Spread(grid)
           take == [c \in Cell |-> Absorb(grid, c)]
           give == [c \in Cell |-> SpreadAmount(grid, c)]
           k(c) == Cardinality(Neighbors(c))
           keep(c) == v[c] - take[c] - k(c) * give[c]
           kept == [c \in Cell |-> keep(c) * w[c]]
           got == [c \in Cell |-> w[c] * Total(give, Neighbors(c))]
           given == [c \in Cell |-> give[c] * Total(w, Neighbors(c))]
           all == [c \in Cell |-> left[c] * w[c]]
           moved == [c \in Cell |-> kept[c] + given[c]]
           more == [c \in Cell |-> v[c] * w[c]]
<1>1. /\ v \in [Cell -> Nat] /\ take \in [Cell -> Nat] /\ give \in [Cell -> Nat] /\ w \in [Cell -> Nat]
      /\ \A c \in Cell : take[c] + 4 * give[c] <= v[c] /\ 8 * give[c] <= v[c]
      /\ left \in [Cell -> Nat]
  BY LossIs, EighthIs, SpreadConserves DEF Grids, Slope
<1>2. ASSUME NEW c \in Cell
      PROVE  /\ Neighbors(c) \in SUBSET Cell /\ IsFiniteSet(Neighbors(c)) /\ k(c) \in 0..4
             /\ Total(give, Neighbors(c)) \in Nat
             /\ left[c] = keep(c) + Total(give, Neighbors(c))
  <2> DEFINE near == [n \in Neighbors(c) |-> SpreadAmount(grid, n)]
  <2>1. Neighbors(c) \in SUBSET Cell /\ IsFiniteSet(Neighbors(c)) /\ k(c) \in 0..4
    BY NeighborsAre
  <2>2. \A n \in Neighbors(c) : near[n] \in Int /\ near[n] = give[n] /\ give[n] \in Nat
    BY <1>1, <2>1
  <2>3. MapThenSumSet(LAMBDA n : SpreadAmount(grid, n), Neighbors(c)) = Total(near, Neighbors(c))
    BY GivenIs
  <2>4. Total(near, Neighbors(c)) = Total(give, Neighbors(c))
    <3> HIDE DEF near, give
    <3> QED
      BY <2>1, <2>2, TotalSame
  <2>5. left[c] = keep(c) + MapThenSumSet(LAMBDA n : SpreadAmount(grid, n), Neighbors(c))
    BY DEF Spread
  <2>6. Total(give, Neighbors(c)) \in Nat
    <3> HIDE DEF give
    <3> QED
      BY <2>1, <2>2, TotalNat
  <2> QED
    BY <2>1, <2>3, <2>4, <2>5, <2>6
<1>3. Total(got, Cell) = Total(given, Cell)
  BY <1>1, GivenIsWeighed
<1> HIDE DEF v, left, take, give
<1>4. ASSUME NEW c \in Cell
      PROVE  /\ kept[c] \in Int /\ got[c] \in Int /\ given[c] \in Int /\ moved[c] = kept[c] + given[c]
             /\ all[c] = kept[c] + got[c]
             /\ 8 * moved[c] <= 9 * more[c] /\ more[c] \in Int
  <2> DEFINE a == v[c]
             t == take[c]
             g == give[c]
             x == w[c]
             y == Total(w, Neighbors(c))
             z == Total(give, Neighbors(c))
             j == k(c)
  <2>1. a \in Nat /\ t \in Nat /\ g \in Nat /\ x \in Nat /\ t + 4 * g <= a /\ 8 * g <= a
    BY <1>1
  <2>2. j \in 0..4 /\ z \in Nat /\ left[c] = (a - t - j * g) + z
    BY <1>2
  <2>3. y \in Nat /\ y <= (j + 1) * x
    BY NearWeighs
  <2>4. /\ kept[c] = (a - t - j * g) * x /\ got[c] = x * z /\ given[c] = g * y
        /\ all[c] = left[c] * x /\ more[c] = a * x
    OBVIOUS
  <2>5. moved[c] = kept[c] + given[c]
    OBVIOUS
  <2> HIDE DEF a, t, g, x, y, z, j, kept, got, given, all, moved, more
  <2>6. t + j * g <= a /\ j * g \in Int
    <3>1. j = 0 \/ j = 1 \/ j = 2 \/ j = 3 \/ j = 4
      BY <2>2
    <3> QED
      BY <2>1, <3>1
  <2>7. 8 * ((a - t - j * g) * x + g * y) <= 9 * (a * x)
    BY <2>1, <2>2, <2>3, <2>6, KeptWeighs
  <2> DEFINE b == a - t - j * g
  <2>8. b \in Int
    BY <2>1, <2>6
  <2>9. kept[c] = b * x /\ left[c] = b + z /\ 8 * (b * x + g * y) <= 9 * (a * x)
    BY <2>2, <2>4, <2>7
  <2> HIDE DEF b
  <2>10. kept[c] \in Int /\ got[c] \in Int /\ given[c] \in Int /\ more[c] \in Int
    BY <2>1, <2>2, <2>3, <2>4, <2>8, <2>9
  <2>11. all[c] = kept[c] + got[c]
    <3>1. (b + z) * x = b * x + x * z
      BY <2>1, <2>2, <2>8
    <3> QED
      BY <2>4, <2>9, <3>1
  <2>12. 8 * moved[c] <= 9 * more[c]
    BY <2>4, <2>5, <2>9
  <2> QED
    BY <2>5, <2>10, <2>11, <2>12
<1> HIDE DEF kept, got, given, all, moved, more
<1>5. ASSUME NEW c \in Cell PROVE all[c] \in Int /\ moved[c] \in Int
  <2>1. all[c] = kept[c] + got[c] /\ moved[c] = kept[c] + given[c]
    BY <1>4
  <2>2. kept[c] \in Int /\ got[c] \in Int /\ given[c] \in Int
    BY <1>4
  <2> QED
    BY <2>1, <2>2
<1>6. Total(all, Cell) = Total(kept, Cell) + Total(got, Cell)
  BY <1>4, CellIs, TotalAdd
<1>7. Total(moved, Cell) = Total(kept, Cell) + Total(given, Cell)
  BY <1>4, CellIs, TotalAdd
<1> DEFINE eight == [c \in Cell |-> 8 * moved[c]]
           nine == [c \in Cell |-> 9 * more[c]]
<1>8. /\ \A c \in Cell : eight[c] = 8 * moved[c] /\ nine[c] = 9 * more[c]
      /\ \A c \in Cell : eight[c] \in Int /\ nine[c] \in Int /\ eight[c] <= nine[c]
  BY <1>4, <1>5
<1> HIDE DEF eight, nine
<1>9. Total(eight, Cell) = 8 * Total(moved, Cell) /\ Total(nine, Cell) = 9 * Total(more, Cell)
  BY <1>4, <1>5, <1>8, CellIs, TotalTimes
<1>10. Total(eight, Cell) <= Total(nine, Cell)
  BY <1>8, CellIs, TotalMonotone
<1>11. 8 * Total(all, Cell) <= 9 * Total(more, Cell)
  BY <1>3, <1>6, <1>7, <1>9, <1>10
<1> QED
  BY <1>11 DEF Weighed, all, more, left, v

\* The cells that have let their fluid fall after i of them.
Passed(i) == {Falling[j] : j \in 1..i}

\* The i-th cell has not passed before, and the cell below it not even then.
LEMMA FallingOnce ==
  ASSUME NEW i \in 1..Size * (Size - 1)
  PROVE  /\ Falling[i] \notin Passed(i - 1)
         /\ <<Falling[i][1], Falling[i][2] + 1>> \notin Passed(i)
         /\ Passed(i) = Passed(i - 1) \cup {Falling[i]}
<1> DEFINE n == Size - 1
           m == Size * (Size - 1)
<1>1. n \in Nat /\ n >= 2 /\ m \in Nat /\ i \in Nat /\ i >= 1 /\ i <= m
  <2>1. Size * (Size - 1) \in Nat
    BY CellIs
  <2> QED
    BY <2>1, CellIs
<1>2. ASSUME NEW j \in 1..m
      PROVE  /\ Falling[j][1] \in Int /\ Falling[j][2] \in Int
             /\ j = n * Falling[j][1] + Falling[j][2] + 1
             /\ Falling[j] = <<Falling[j][1], Falling[j][2]>>
  <2> DEFINE k == j - 1
             q == k \div n
             r == k % n
  <2>1. Falling[j] = <<q, r>>
    BY DEF Falling
  <2>2. k \in Nat /\ j = k + 1
    BY <1>1
  <2> HIDE DEF n, k
  <2>3. q \in Int /\ r \in Int /\ k = n * q + r
    BY <1>1, <2>2
  <2> HIDE DEF q, r
  <2>4. n * q \in Int
    BY <1>1, <2>3
  <2> QED
    BY <2>1, <2>2, <2>3, <2>4
<1>3. \A j \in 1..m : j <= i => j \in 1..i
  OBVIOUS
<1> HIDE DEF n, m
<1>4. ASSUME NEW j \in 1..i - 1 PROVE Falling[j] # Falling[i]
  <2>1. j \in 1..m /\ i \in 1..m /\ j < i
    BY <1>1
  <2>2. j = n * Falling[j][1] + Falling[j][2] + 1 /\ i = n * Falling[i][1] + Falling[i][2] + 1
    BY <1>2, <2>1
  <2> QED
    BY <2>1, <2>2
<1>5. ASSUME NEW j \in 1..i PROVE Falling[j] # <<Falling[i][1], Falling[i][2] + 1>>
  <2> SUFFICES ASSUME Falling[j] = <<Falling[i][1], Falling[i][2] + 1>> PROVE FALSE
    OBVIOUS
  <2>1. j \in 1..m /\ i \in 1..m /\ j <= i
    BY <1>1
  <2> DEFINE x == Falling[i][1]
             y == Falling[i][2]
  <2>2. Falling[j][1] = x /\ Falling[j][2] = y + 1 /\ x \in Int /\ y \in Int
    BY <1>2, <2>1
  <2>3. j = n * Falling[j][1] + Falling[j][2] + 1 /\ i = n * x + y + 1
    BY <1>2, <2>1
  <2> HIDE DEF x, y
  <2>4. j = n * x + (y + 1) + 1 /\ n * x \in Int
    BY <1>1, <2>2, <2>3
  <2> QED
    BY <2>1, <2>2, <2>3, <2>4
<1>6. 1..i = (1..i - 1) \cup {i}
  BY <1>1
<1> QED
  BY <1>4, <1>5, <1>6 DEF Passed

\* The fluid by the weight of its cells, that of the cells that have passed a little less.
Lightened(w, i, c) == IF c \in Passed(i) THEN 48 * w[c] ELSE 49 * w[c]
Raised(u, w, i) == Total([c \in Cell |-> u[c] * Lightened(w, i, c)], Cell)

\* What falls gets no heavier than the loss of the cell it leaves.
LEMMA DropWeighs ==
  ASSUME NEW a \in Nat, NEW b \in Nat, NEW g \in Nat, NEW x \in Nat, NEW y \in Nat,
         50 * g <= a, y <= 2 * x
  PROVE  /\ (a - g) * (48 * x) + (b + g) * (49 * y) \in Int
         /\ (a - g) * (48 * x) + (b + g) * (49 * y) <= a * (49 * x) + b * (49 * y)
<1>1. a * x \in Nat /\ g * x \in Nat /\ b * y \in Nat /\ g * y \in Nat
  OBVIOUS
<1>2. 50 * (g * x) <= a * x
  <2> DEFINE e == 50 * g
  <2>1. e \in Nat /\ e <= a
    OBVIOUS
  <2>2. e * x = 50 * (g * x)
    OBVIOUS
  <2> HIDE DEF e
  <2> QED
    BY <2>1, <2>2, ProductIs
<1>3. g * y <= 2 * (g * x)
  <2> DEFINE e == 2 * x
  <2>1. e \in Nat /\ y <= e
    OBVIOUS
  <2>2. g * e = 2 * (g * x)
    OBVIOUS
  <2> HIDE DEF e
  <2> QED
    BY <2>1, <2>2, ProductIs
<1>4. /\ (a - g) * (48 * x) = 48 * (a * x) - 48 * (g * x)
      /\ (b + g) * (49 * y) = 49 * (b * y) + 49 * (g * y)
      /\ a * (49 * x) = 49 * (a * x) /\ b * (49 * y) = 49 * (b * y)
  OBVIOUS
<1> DEFINE p == a * x
           q == g * x
           r == b * y
           s == g * y
<1>5. p \in Nat /\ q \in Nat /\ r \in Nat /\ s \in Nat /\ 50 * q <= p /\ s <= 2 * q
  BY <1>1, <1>2, <1>3
<1>6. /\ (a - g) * (48 * x) = 48 * p - 48 * q /\ (b + g) * (49 * y) = 49 * r + 49 * s
      /\ a * (49 * x) = 49 * p /\ b * (49 * y) = 49 * r
  BY <1>4
<1> HIDE DEF p, q, r, s
<1>7. /\ (48 * p - 48 * q) + (49 * r + 49 * s) \in Int
      /\ (48 * p - 48 * q) + (49 * r + 49 * s) <= 49 * p + 49 * r
  BY <1>5
<1> QED
  BY <1>6, <1>7

\* So the sum never grows.
LEMMA FallenWeighs ==
  ASSUME NEW w, Slope(w), NEW u \in [Cell -> Nat], NEW i \in 1..Size * (Size - 1)
  PROVE  Raised(Fallen(u, Falling[i]), w, i) <= Raised(u, w, i - 1)
<1> DEFINE c == Falling[i]
           d == <<c[1], c[2] + 1>>
           v == Fallen(u, c)
           g == (2 * u[c]) \div 100
           E == (Cell \ {c}) \ {d}
           new == [e \in Cell |-> v[e] * Lightened(w, i, e)]
           old == [e \in Cell |-> u[e] * Lightened(w, i - 1, e)]
<1>1. c \in Cell /\ d \in Cell /\ d # c /\ w \in [Cell -> Nat]
  BY FallingIs DEF Slope
<1>2. d \in Neighbors(c)
  <2>1. d[1] - c[1] = 0 /\ d[2] - c[2] = 1
    BY <1>1, CellIs
  <2> QED
    BY <1>1, <2>1 DEF Neighbors, Abs
<1>3. w[d] <= 2 * w[c]
  BY <1>1, <1>2 DEF Slope
<1>4. c \notin Passed(i - 1) /\ d \notin Passed(i) /\ Passed(i) = Passed(i - 1) \cup {c}
  BY FallingOnce
<1>5. v \in [Cell -> Nat]
  BY FallenIs
<1> HIDE DEF c
<1>6. g \in Nat /\ 50 * g <= u[c] /\ u[c] \in Nat /\ u[d] \in Nat
  BY <1>1
<1>7. v = [u EXCEPT ![c] = @ - g, ![d] = @ + g]
  BY DEF Fallen
<1> HIDE DEF g, d, v
<1>8. v[c] = u[c] - g /\ v[d] = u[d] + g /\ \A e \in E : v[e] = u[e]
  BY <1>1, <1>7
<1>9. \A e \in E : Lightened(w, i, e) = Lightened(w, i - 1, e)
  BY <1>4 DEF Lightened
<1>10. /\ Lightened(w, i, c) = 48 * w[c] /\ Lightened(w, i - 1, c) = 49 * w[c]
       /\ Lightened(w, i, d) = 49 * w[d] /\ Lightened(w, i - 1, d) = 49 * w[d]
  BY <1>4 DEF Lightened
<1>11. ASSUME NEW e \in Cell PROVE new[e] \in Int /\ old[e] \in Int
  <2>1. Lightened(w, i, e) \in Nat /\ Lightened(w, i - 1, e) \in Nat
    BY <1>1 DEF Lightened
  <2>2. u[e] \in Nat /\ v[e] \in Nat
    BY <1>5
  <2>3. new[e] = v[e] * Lightened(w, i, e) /\ old[e] = u[e] * Lightened(w, i - 1, e)
    OBVIOUS
  <2> QED
    BY <2>1, <2>2, <2>3
<1>12. /\ new[c] = (u[c] - g) * (48 * w[c]) /\ new[d] = (u[d] + g) * (49 * w[d])
       /\ old[c] = u[c] * (49 * w[c]) /\ old[d] = u[d] * (49 * w[d])
       /\ \A e \in E : new[e] = old[e]
  BY <1>1, <1>8, <1>9, <1>10
<1> HIDE DEF new, old
<1>13. new[c] + new[d] <= old[c] + old[d]
  <2> DEFINE a == u[c]
             b == u[d]
             x == w[c]
             y == w[d]
  <2>1. a \in Nat /\ b \in Nat /\ x \in Nat /\ y \in Nat /\ 50 * g <= a /\ y <= 2 * x
    BY <1>1, <1>3, <1>6
  <2>2. /\ new[c] = (a - g) * (48 * x) /\ new[d] = (b + g) * (49 * y)
        /\ old[c] = a * (49 * x) /\ old[d] = b * (49 * y)
    BY <1>12
  <2> HIDE DEF a, b, x, y
  <2>3. (a - g) * (48 * x) + (b + g) * (49 * y) <= a * (49 * x) + b * (49 * y)
    BY <1>6, <2>1, DropWeighs
  <2> QED
    BY <2>2, <2>3, Zenon
<1>14. ASSUME NEW f, \A e \in Cell : f[e] \in Int
       PROVE  Total(f, Cell) = f[c] + (f[d] + Total(f, E)) /\ Total(f, E) \in Int
  <2>1. IsFiniteSet(Cell) /\ IsFiniteSet(Cell \ {c}) /\ IsFiniteSet(E)
    BY CellIs, FS_Subset
  <2>2. Total(f, Cell) = f[c] + Total(f, Cell \ {c})
    BY <1>1, <1>14, <2>1, TotalTake
  <2>3. d \in Cell \ {c} /\ \A e \in Cell \ {c} : f[e] \in Int
    BY <1>1, <1>14
  <2>4. Total(f, Cell \ {c}) = f[d] + Total(f, E)
    BY <2>1, <2>3, TotalTake
  <2>5. Total(f, E) \in Int
    BY <1>14, <2>1, TotalType
  <2> QED
    BY <2>2, <2>4, <2>5
<1>15. Total(new, E) = Total(old, E)
  <2>1. IsFiniteSet(E) /\ \A e \in E : new[e] \in Int /\ new[e] = old[e]
    BY <1>11, <1>12, CellIs, FS_Subset
  <2> HIDE DEF E
  <2> QED
    BY <2>1, TotalSame
<1>16. /\ Total(new, Cell) = new[c] + (new[d] + Total(new, E))
       /\ Total(old, Cell) = old[c] + (old[d] + Total(old, E)) /\ Total(old, E) \in Int
  BY <1>11, <1>14
<1>17. new[c] \in Int /\ new[d] \in Int /\ old[c] \in Int /\ old[d] \in Int
  BY <1>1, <1>11
<1> HIDE DEF E
<1>18. Total(new, Cell) <= Total(old, Cell)
  BY <1>13, <1>15, <1>16, <1>17
<1> QED
  BY <1>18 DEF Raised, new, old, v, c

\* Falling makes the fluid heavier by a forty-eighth at most.
LEMMA FallWeighs ==
  ASSUME NEW w, Slope(w), NEW v \in [Cell -> Nat]
  PROVE  48 * Weighed(Fall(v), w) <= 49 * Weighed(v, w)
<1> DEFINE m == Size * (Size - 1)
           u(i) == 1..i
<1>1. m \in Nat
  BY CellIs
<1>2. PICK g : Fall(v) = g[u(m)] /\ Falls(g, v)
  BY FallIs
<1>3. g[u(0)] = v
  <2>1. u(0) = {} /\ {} \in SUBSET (1..Size * (Size - 1))
    OBVIOUS
  <2> QED
    BY <1>2, <2>1 DEF Falls
<1>4. ASSUME NEW i \in 1..m PROVE g[u(i)] = Fallen(g[u(i - 1)], Falling[i])
  <2> HIDE DEF m
  <2>1. u(i) \in SUBSET u(m) /\ u(i) # {} /\ Max(u(i)) = i /\ u(i) \ {i} = u(i - 1)
    BY <1>1, PrefixIs
  <2> HIDE DEF u
  <2> QED
    BY <1>2, <2>1 DEF Falls, m, u
<1> HIDE DEF u
<1> DEFINE fine(i) == g[u(i)] \in [Cell -> Nat] /\ Raised(g[u(i)], w, i) <= Raised(v, w, 0)
           G == {i \in Nat : i <= m => fine(i)}
<1>5. ASSUME NEW x \in [Cell -> Nat], NEW i \in Nat
      PROVE  /\ Raised(x, w, i) \in Int /\ 48 * Weighed(x, w) <= Raised(x, w, i)
             /\ Weighed(x, w) \in Int
             /\ i = 0 => Raised(x, w, i) = 49 * Weighed(x, w)
  <2> DEFINE raised == [c \in Cell |-> x[c] * Lightened(w, i, c)]
             weighed == [c \in Cell |-> x[c] * w[c]]
             low == [c \in Cell |-> 48 * weighed[c]]
             high == [c \in Cell |-> 49 * weighed[c]]
  <2>1. ASSUME NEW c \in Cell
        PROVE  /\ weighed[c] \in Int /\ raised[c] \in Int
               /\ low[c] = 48 * weighed[c] /\ high[c] = 49 * weighed[c]
               /\ low[c] <= raised[c] /\ (i = 0 => raised[c] = high[c])
    <3> DEFINE a == x[c]
               b == w[c]
    <3>1. a \in Nat /\ b \in Nat
      BY DEF Slope
    <3>2. Lightened(w, i, c) = 48 * b \/ Lightened(w, i, c) = 49 * b
      BY DEF Lightened
    <3>3. i = 0 => Lightened(w, i, c) = 49 * b
      BY DEF Lightened, Passed
    <3>4. /\ weighed[c] = a * b /\ raised[c] = a * Lightened(w, i, c)
          /\ low[c] = 48 * weighed[c] /\ high[c] = 49 * weighed[c]
      OBVIOUS
    <3> HIDE DEF a, b, weighed, raised, low, high
    <3>5. a * b \in Nat /\ a * (48 * b) = 48 * (a * b) /\ a * (49 * b) = 49 * (a * b)
      BY <3>1
    <3> DEFINE p == a * b
    <3>6. p \in Nat /\ weighed[c] = p /\ (raised[c] = 48 * p \/ raised[c] = 49 * p)
          /\ (i = 0 => raised[c] = 49 * p)
      BY <3>2, <3>3, <3>4, <3>5
    <3> HIDE DEF p
    <3> QED
      BY <3>4, <3>6
  <2> HIDE DEF raised, weighed, low, high
  <2>2. \A c \in Cell : low[c] \in Int /\ high[c] \in Int
    BY <2>1
  <2>3. Total(low, Cell) = 48 * Total(weighed, Cell) /\ Total(high, Cell) = 49 * Total(weighed, Cell)
    BY <2>1, CellIs, TotalTimes
  <2>4. Total(low, Cell) <= Total(raised, Cell)
    BY <2>1, <2>2, CellIs, TotalMonotone
  <2>5. i = 0 => Total(raised, Cell) = Total(high, Cell)
    BY <2>1, CellIs, TotalSame
  <2>6. Total(raised, Cell) \in Int /\ Total(weighed, Cell) \in Int
    BY <2>1, CellIs, TotalType
  <2> QED
    BY <2>3, <2>4, <2>5, <2>6 DEF Raised, Weighed, raised, weighed
<1>6. Nat \subseteq G
  <2>1. 0 \in G
    BY <1>3, <1>5
  <2>2. ASSUME NEW i \in Nat, i \in G PROVE i + 1 \in G
    <3> SUFFICES ASSUME i + 1 <= m PROVE fine(i + 1)
      OBVIOUS
    <3>1. i + 1 \in 1..m /\ (i + 1) - 1 = i /\ i <= m
      BY <1>1
    <3>2. fine(i)
      BY <2>2, <3>1
    <3>3. g[u(i + 1)] = Fallen(g[u(i)], Falling[i + 1])
      BY <1>4, <3>1
    <3>4. g[u(i + 1)] \in [Cell -> Nat]
      BY <3>1, <3>2, <3>3, FallenIs
    <3>5. Raised(g[u(i + 1)], w, i + 1) <= Raised(g[u(i)], w, i)
      BY <3>1, <3>2, <3>3, FallenWeighs
    <3>6. Raised(g[u(i + 1)], w, i + 1) \in Int /\ Raised(g[u(i)], w, i) \in Int /\ Raised(v, w, 0) \in Int
      BY <1>5, <3>2, <3>4
    <3> QED
      BY <3>2, <3>4, <3>5, <3>6
  <2> HIDE DEF G
  <2> QED
    BY <2>1, <2>2, NatSetInduction
<1>7. fine(m)
  <2>1. m \in G /\ m <= m
    <3> HIDE DEF G, m
    <3> QED
      BY <1>1, <1>6
  <2> HIDE DEF fine, m
  <2> QED
    BY <2>1
<1>8. Fall(v) = g[u(m)] /\ m \in Nat /\ 0 \in Nat
  BY <1>1, <1>2
<1> HIDE DEF m
<1>9. /\ 48 * Weighed(Fall(v), w) <= Raised(Fall(v), w, m) /\ Raised(v, w, 0) = 49 * Weighed(v, w)
      /\ Raised(Fall(v), w, m) <= Raised(v, w, 0)
  BY <1>5, <1>7, <1>8
<1>10. Raised(Fall(v), w, m) \in Int /\ Weighed(Fall(v), w) \in Int /\ Weighed(v, w) \in Int
  BY <1>5, <1>7, <1>8
<1> QED
  BY <1>9, <1>10

\* A step makes it heavier by a sixth at most, so four steps at most double its weight.
LEMMA StepWeighs ==
  ASSUME NEW strokes, Absorbent(strokes), NEW grid \in Grids(strokes), NEW w, Slope(w)
  PROVE  /\ Weighed(SimulationStep(grid).volume, w) \in Nat /\ Weighed(grid.volume, w) \in Nat
         /\ 6 * Weighed(SimulationStep(grid).volume, w) <= 7 * Weighed(grid.volume, w)
<1> DEFINE x == Weighed(grid.volume, w)
           y == Weighed(Spread(grid), w)
           z == Weighed(Fall(Spread(grid)), w)
<1>1. SimulationStep(grid).volume = Fall(Spread(grid))
  BY DEF SimulationStep, Grids
<1>2. /\ grid.volume \in [Cell -> Nat] /\ Spread(grid) \in [Cell -> Nat]
      /\ Fall(Spread(grid)) \in [Cell -> Nat]
  BY SpreadConserves, FallConserves DEF Grids
<1>3. ASSUME NEW v \in [Cell -> Nat] PROVE Weighed(v, w) \in Nat
  <2> DEFINE f == [c \in Cell |-> v[c] * w[c]]
  <2>1. \A c \in Cell : f[c] \in Nat
    BY ProductIs DEF Slope
  <2> HIDE DEF f
  <2>2. Total(f, Cell) \in Nat
    BY <2>1, CellIs, TotalNat
  <2> QED
    BY <2>2 DEF Weighed, f
<1>4. x \in Nat /\ y \in Nat /\ z \in Nat
  BY <1>2, <1>3
<1>5. 8 * y <= 9 * x
  BY SpreadWeighs
<1>6. 48 * z <= 49 * y
  BY <1>2, FallWeighs
<1> HIDE DEF x, y, z
<1>7. 6 * z <= 7 * x
  BY <1>4, <1>5, <1>6
<1> QED
  BY <1>1, <1>4, <1>7 DEF x, z

\* The powers of two.
Powers(p) == p \in [Nat -> Nat] /\ p[0] = 1 /\ \A n \in Nat : p[n + 1] = 2 * p[n]

\* There are such powers.
LEMMA PowersExist == \E p : Powers(p)
<1> DEFINE h == [z \in Nat \X Nat |-> 2 * z[2]]
<1>1. h \in [Nat \X Nat -> Nat] /\ \A n, k \in Nat : h[<<n, k>>] = 2 * k
  OBVIOUS
<1>2. PICK p \in [Nat -> Nat] : Iterates(p, 1, h)
  <2> HIDE DEF h
  <2> QED
    BY <1>1, IterationExists
<1> HIDE DEF h
<1>3. \A n \in Nat : p[n + 1] = h[<<n + 1, p[n]>>]
  BY <1>2 DEF Iterates
<1>4. p[0] = 1
  BY <1>2 DEF Iterates
<1>5. ASSUME NEW n \in Nat PROVE p[n + 1] = 2 * p[n]
  <2>1. p[n] \in Nat /\ n + 1 \in Nat
    OBVIOUS
  <2>2. p[n + 1] = h[<<n + 1, p[n]>>]
    BY <1>3
  <2> QED
    BY <1>1, <2>1, <2>2
<1> QED
  BY <1>4, <1>5 DEF Powers

\* They grow.
LEMMA PowersGrow ==
  ASSUME NEW p, Powers(p), NEW m \in Nat, NEW n \in Nat, m <= n
  PROVE  p[m] \in Nat /\ p[n] \in Nat /\ p[m] >= 1 /\ p[m] <= p[n]
<1> DEFINE G == {k \in Nat : p[k] >= 1}
           H == {k \in Nat : p[m] <= p[m + k]}
<1>1. \A k \in Nat : p[k] \in Nat /\ p[k + 1] = 2 * p[k]
  BY DEF Powers
<1>2. Nat \subseteq G
  <2>1. 0 \in G
    BY DEF Powers
  <2>2. ASSUME NEW k \in Nat, k \in G PROVE k + 1 \in G
    BY <1>1, <2>2
  <2> HIDE DEF G
  <2> QED
    BY <2>1, <2>2, NatSetInduction
<1>3. Nat \subseteq H
  <2>1. 0 \in H
    BY <1>1
  <2>2. ASSUME NEW k \in Nat, k \in H PROVE k + 1 \in H
    <3>1. p[m + k] \in Nat /\ p[(m + k) + 1] = 2 * p[m + k] /\ p[m] \in Nat
      BY <1>1
    <3>2. (m + k) + 1 = m + (k + 1) /\ p[m] <= p[m + k]
      BY <2>2
    <3> QED
      BY <3>1, <3>2
  <2> HIDE DEF H
  <2> QED
    BY <2>1, <2>2, NatSetInduction
<1>4. n - m \in Nat /\ m + (n - m) = n
  OBVIOUS
<1>5. p[m] <= p[m + (n - m)]
  BY <1>3, <1>4
<1> QED
  BY <1>1, <1>2, <1>4, <1>5

\* How far a cell lies in one of the four directions from the pour.
Direction(far) ==
  \/ far = [c \in Cell |-> c[1] - Radius] \/ far = [c \in Cell |-> Radius - c[1]]
  \/ far = [c \in Cell |-> c[2] - Radius] \/ far = [c \in Cell |-> Radius - c[2]]

\* Of the neighbours of a cell one is a cell farther.
LEMMA DirectionIs ==
  ASSUME NEW far, Direction(far), NEW c \in Cell
  PROVE  /\ far[c] \in Int
         /\ \E m : \A n \in Neighbors(c) :
              n \in Cell /\ far[n] \in Int /\ far[n] <= far[c] + 1 /\ (n # m => far[n] <= far[c])
<1>1. ASSUME NEW d \in Cell
      PROVE  /\ d[1] \in Int /\ d[2] \in Int /\ d = <<d[1], d[2]>>
             /\ far[d] \in Int
  <2>1. d[1] \in Int /\ d[2] \in Int /\ d = <<d[1], d[2]>>
    BY CellIs
  <2> QED
    BY <2>1 DEF Direction
<1>2. ASSUME NEW n \in Neighbors(c)
      PROVE  /\ n \in Cell
             /\ \/ n[1] = c[1] + 1 /\ n[2] = c[2]
                \/ n[1] = c[1] - 1 /\ n[2] = c[2]
                \/ n[1] = c[1] /\ n[2] = c[2] + 1
                \/ n[1] = c[1] /\ n[2] = c[2] - 1
  BY <1>1 DEF Neighbors, Abs
<1>3. CASE far = [d \in Cell |-> d[1] - Radius]
  <2> DEFINE m == <<c[1] + 1, c[2]>>
  <2>1. ASSUME NEW n \in Neighbors(c)
        PROVE  /\ n \in Cell /\ far[n] \in Int /\ far[n] <= far[c] + 1
               /\ (n # m => far[n] <= far[c])
    <3>1. far[n] = n[1] - Radius /\ far[c] = c[1] - Radius
      BY <1>2, <1>3
    <3>2. n # m => n[1] <= c[1]
      BY <1>1, <1>2
    <3> QED
      BY <1>1, <1>2, <3>1, <3>2
  <2> QED
    BY <1>1, <2>1
<1>4. CASE far = [d \in Cell |-> Radius - d[1]]
  <2> DEFINE m == <<c[1] - 1, c[2]>>
  <2>1. ASSUME NEW n \in Neighbors(c)
        PROVE  /\ n \in Cell /\ far[n] \in Int /\ far[n] <= far[c] + 1
               /\ (n # m => far[n] <= far[c])
    <3>1. far[n] = Radius - n[1] /\ far[c] = Radius - c[1]
      BY <1>2, <1>4
    <3>2. n # m => n[1] >= c[1]
      BY <1>1, <1>2
    <3> QED
      BY <1>1, <1>2, <3>1, <3>2
  <2> QED
    BY <1>1, <2>1
<1>5. CASE far = [d \in Cell |-> d[2] - Radius]
  <2> DEFINE m == <<c[1], c[2] + 1>>
  <2>1. ASSUME NEW n \in Neighbors(c)
        PROVE  /\ n \in Cell /\ far[n] \in Int /\ far[n] <= far[c] + 1
               /\ (n # m => far[n] <= far[c])
    <3>1. far[n] = n[2] - Radius /\ far[c] = c[2] - Radius
      BY <1>2, <1>5
    <3>2. n # m => n[2] <= c[2]
      BY <1>1, <1>2
    <3> QED
      BY <1>1, <1>2, <3>1, <3>2
  <2> QED
    BY <1>1, <2>1
<1>6. CASE far = [d \in Cell |-> Radius - d[2]]
  <2> DEFINE m == <<c[1], c[2] - 1>>
  <2>1. ASSUME NEW n \in Neighbors(c)
        PROVE  /\ n \in Cell /\ far[n] \in Int /\ far[n] <= far[c] + 1
               /\ (n # m => far[n] <= far[c])
    <3>1. far[n] = Radius - n[2] /\ far[c] = Radius - c[2]
      BY <1>2, <1>6
    <3>2. n # m => n[2] >= c[2]
      BY <1>1, <1>2
    <3> QED
      BY <1>1, <1>2, <3>1, <3>2
  <2> QED
    BY <1>1, <2>1
<1> QED
  BY <1>3, <1>4, <1>5, <1>6 DEF Direction

\* A weight that doubles with every cell in one direction.
Doubling(p, far) == [c \in Cell |-> p[IF far[c] > 0 THEN far[c] ELSE 0]]

\* It is a slope; the pour weighs one, and the border as much as there are steps to it.
LEMMA DoublingIs ==
  ASSUME NEW p, Powers(p), NEW far, Direction(far)
  PROVE  /\ Slope(Doubling(p, far)) /\ Doubling(p, far)[Center] = 1
         /\ \A c \in Cell : far[c] = Radius => Doubling(p, far)[c] = p[Radius]
<1> DEFINE w == Doubling(p, far)
           at(c) == IF far[c] > 0 THEN far[c] ELSE 0
<1>1. ASSUME NEW c \in Cell
      PROVE  /\ at(c) \in Nat /\ w[c] = p[at(c)] /\ p[at(c)] \in Nat
             /\ p[at(c) + 1] = 2 * p[at(c)]
  <2>1. at(c) \in Nat
    BY DirectionIs
  <2>2. w[c] = p[at(c)]
    BY DEF Doubling
  <2> HIDE DEF at, w
  <2> QED
    BY <2>1, <2>2 DEF Powers
<1>2. w \in [Cell -> Nat]
  <2>1. w = [c \in Cell |-> w[c]]
    BY DEF Doubling
  <2> HIDE DEF w
  <2> QED
    BY <1>1, <2>1
<1>3. ASSUME NEW c \in Cell
      PROVE  \E m : \A n \in Neighbors(c) : w[n] <= 2 * w[c] /\ (n # m => w[n] <= w[c])
  <2>1. far[c] \in Int
    BY DirectionIs
  <2>2. PICK m : \A n \in Neighbors(c) :
                   n \in Cell /\ far[n] \in Int /\ far[n] <= far[c] + 1 /\ (n # m => far[n] <= far[c])
    BY DirectionIs
  <2>3. ASSUME NEW n \in Neighbors(c) PROVE w[n] <= 2 * w[c] /\ (n # m => w[n] <= w[c])
    <3>1. n \in Cell
      BY <2>2
    <3>2. /\ at(n) \in Nat /\ at(c) \in Nat /\ at(n) <= at(c) + 1
          /\ (n # m => at(n) <= at(c)) /\ at(c) + 1 \in Nat
      BY <2>1, <2>2
    <3> HIDE DEF at, w
    <3>3. p[at(n)] <= p[at(c) + 1]
      BY <3>2, PowersGrow
    <3>4. n # m => p[at(n)] <= p[at(c)]
      BY <3>2, PowersGrow
    <3> QED
      BY <1>1, <3>1, <3>3, <3>4
  <2> QED
    BY <2>3
<1>4. w[Center] = 1
  <2>1. far[Center] = 0
    <3>1. Center \in Cell /\ Center[1] = Radius /\ Center[2] = Radius
      BY CellIs DEF Center
    <3> QED
      BY <3>1 DEF Direction
  <2>2. at(Center) = 0
    BY <2>1
  <2> QED
    BY <1>1, <2>2, CellIs DEF Powers
<1>5. \A c \in Cell : far[c] = Radius => w[c] = p[Radius]
  <2> SUFFICES ASSUME NEW c \in Cell, far[c] = Radius PROVE w[c] = p[Radius]
    OBVIOUS
  <2>1. at(c) = Radius
    OBVIOUS
  <2> QED
    BY <1>1, <2>1
<1> QED
  BY <1>2, <1>3, <1>4, <1>5 DEF Slope

\* So a cell on the border of a wide enough grid holds less than a threshold at the end.
LEMMA BorderIsDry ==
  ASSUME NEW strokes, Absorbent(strokes), NEW intensity \in 0..100, Radius >= Steps \div 4 + 9
  PROVE  DryBorder(RunSimulation(strokes, intensity)[Steps].volume)
<1> DEFINE run == RunSimulation(strokes, intensity)
           fluid == 100 * intensity
<1>1. \A n \in 0..Steps : run[n] \in Grids(strokes)
  BY RunIsBalanced DEF Balanced
<1>2. run[0] = NewSimGrid(strokes, intensity)
  BY RunIs
<1>3. \A n \in 0..Steps : n # 0 => run[n] = SimulationStep(run[n - 1])
  BY RunIs
<1> HIDE DEF run
<1>4. PICK p : Powers(p)
  BY PowersExist
<1>5. ASSUME NEW far, Direction(far), NEW c \in Cell, far[c] = Radius
      PROVE  run[Steps].volume[c] < WetThreshold
  <2> DEFINE w == Doubling(p, far)
             weight(n) == Weighed(run[n].volume, w)
  <2>1. Slope(w) /\ w[Center] = 1 /\ w[c] = p[Radius] /\ w \in [Cell -> Nat]
    BY <1>4, <1>5, DoublingIs DEF Slope
  <2> HIDE DEF w
  <2>2. ASSUME NEW n \in Nat, n + 1 <= Steps
        PROVE  weight(n) \in Nat /\ weight(n + 1) \in Nat /\ 6 * weight(n + 1) <= 7 * weight(n)
    <3>1. n \in 0..Steps /\ n + 1 \in 0..Steps /\ n + 1 # 0 /\ (n + 1) - 1 = n
      BY <2>2
    <3>2. run[n + 1] = SimulationStep(run[n]) /\ run[n] \in Grids(strokes)
      BY <1>1, <1>3, <3>1
    <3> QED
      BY <2>1, <3>2, StepWeighs
  <2>3. weight(0) <= fluid /\ weight(0) \in Nat
    <3> DEFINE v == [d \in Cell |-> IF d = Center THEN fluid ELSE 0]
               f == [d \in Cell |-> v[d] * w[d]]
               S == Cell \ {Center}
    <3>1. run[0].volume = v
      BY <1>2 DEF NewSimGrid
    <3>2. f[Center] = fluid /\ \A d \in S : f[d] = 0
      <4>1. \A d \in Cell : w[d] \in Nat
        BY <2>1
      <4> QED
        BY <2>1, <4>1, CellIs
    <3>3. \A d \in Cell : f[d] \in Int
      <4>1. \A d \in Cell : d = Center \/ d \in S
        OBVIOUS
      <4> HIDE DEF f, S
      <4> QED
        BY <3>2, <4>1
    <3> HIDE DEF f
    <3>4. Total(f, Cell) = f[Center] + Total(f, S)
      BY <3>3, CellIs, TotalTake
    <3>5. IsFiniteSet(S) /\ Cardinality(S) \in Nat
      BY CellIs, FS_Subset, FS_CardinalityType
    <3>6. Total(f, S) = Cardinality(S) * 0
      <4> HIDE DEF S
      <4> QED
        BY <3>2, <3>5, TotalConstant
    <3>7. Total(f, Cell) = fluid
      BY <3>2, <3>4, <3>5, <3>6
    <3>8. weight(0) = Total(f, Cell)
      BY <3>1 DEF Weighed, f
    <3> QED
      BY <3>7, <3>8
  <2> HIDE DEF weight
  <2>4. ASSUME NEW n \in Nat, NEW j \in 0..4, n + j <= Steps, weight(n) \in Nat
        PROVE  weight(n + j) \in Nat /\ weight(n + j) <= 2 * weight(n)
    <3>1. CASE j = 0
      BY <2>4, <3>1
    <3>2. ASSUME j >= 1 PROVE weight(n + 1) \in Nat /\ 6 * weight(n + 1) <= 7 * weight(n)
      BY <2>2, <2>4, <3>2
    <3>3. ASSUME j >= 2 PROVE weight(n + 2) \in Nat /\ 6 * weight(n + 2) <= 7 * weight(n + 1)
      <4>1. n + 1 \in Nat /\ (n + 1) + 1 <= Steps /\ (n + 1) + 1 = n + 2
        BY <2>4, <3>3
      <4> QED
        BY <2>2, <4>1
    <3>4. ASSUME j >= 3 PROVE weight(n + 3) \in Nat /\ 6 * weight(n + 3) <= 7 * weight(n + 2)
      <4>1. n + 2 \in Nat /\ (n + 2) + 1 <= Steps /\ (n + 2) + 1 = n + 3
        BY <2>4, <3>4
      <4> QED
        BY <2>2, <4>1
    <3>5. ASSUME j >= 4 PROVE weight(n + 4) \in Nat /\ 6 * weight(n + 4) <= 7 * weight(n + 3)
      <4>1. n + 3 \in Nat /\ (n + 3) + 1 <= Steps /\ (n + 3) + 1 = n + 4
        BY <2>4, <3>5
      <4> QED
        BY <2>2, <4>1
    <3>6. CASE j = 1
      BY <2>4, <3>2, <3>6
    <3>7. CASE j = 2
      BY <2>4, <3>2, <3>3, <3>7
    <3>8. CASE j = 3
      BY <2>4, <3>2, <3>3, <3>4, <3>8
    <3>9. CASE j = 4
      BY <2>4, <3>2, <3>3, <3>4, <3>5, <3>9
    <3>10. j = 0 \/ j = 1 \/ j = 2 \/ j = 3 \/ j = 4
      OBVIOUS
    <3> QED
      BY <3>1, <3>6, <3>7, <3>8, <3>9, <3>10
  <2> DEFINE fine(k) == weight(4 * k) \in Nat /\ weight(4 * k) <= fluid * p[k]
             G == {k \in Nat : 4 * k <= Steps => fine(k)}
  <2>5. fluid \in Nat /\ fluid <= 10000
    OBVIOUS
  <2> HIDE DEF fluid
  <2>6. Nat \subseteq G
    <3>1. 0 \in G
      <4>1. fluid * p[0] = fluid /\ 4 * 0 = 0
        BY <1>4, <2>5 DEF Powers
      <4> QED
        BY <2>3, <4>1
    <3>2. ASSUME NEW k \in Nat, k \in G PROVE k + 1 \in G
      <4> SUFFICES ASSUME 4 * (k + 1) <= Steps PROVE fine(k + 1)
        OBVIOUS
      <4> DEFINE n == 4 * k
      <4>1. n \in Nat /\ n + 4 <= Steps /\ n + 4 = 4 * (k + 1) /\ n <= Steps
        OBVIOUS
      <4>2. weight(n) \in Nat /\ weight(n) <= fluid * p[k]
        BY <3>2, <4>1
      <4> HIDE DEF n
      <4>3. weight(n + 4) \in Nat /\ weight(n + 4) <= 2 * weight(n)
        BY <2>4, <4>1, <4>2
      <4>4. p[k + 1] = 2 * p[k] /\ p[k] \in Nat
        BY <1>4 DEF Powers
      <4>5. fluid * p[k + 1] = 2 * (fluid * p[k]) /\ fluid * p[k] \in Nat
        BY <2>5, <4>4
      <4>6. weight(n + 4) <= fluid * p[k + 1]
        BY <4>2, <4>3, <4>5
      <4> QED
        BY <4>1, <4>3, <4>6
    <3> HIDE DEF G
    <3> QED
      BY <3>1, <3>2, NatSetInduction
  <2> DEFINE k == Steps \div 4
             j == Steps % 4
  <2>7. k \in Nat /\ j \in 0..4 /\ Steps = 4 * k + j /\ 4 * k <= Steps /\ Radius >= k + 9
    OBVIOUS
  <2> HIDE DEF k, j
  <2>8. fine(k)
    BY <2>6, <2>7
  <2>9. weight(Steps) \in Nat /\ weight(Steps) <= 2 * (fluid * p[k])
    <3>1. 4 * k \in Nat
      BY <2>7
    <3>2. weight(4 * k + j) \in Nat /\ weight(4 * k + j) <= 2 * weight(4 * k)
      BY <2>4, <2>7, <2>8, <3>1
    <3>3. fluid * p[k] \in Nat
      BY <1>4, <2>5, <2>7, ProductIs DEF Powers
    <3> QED
      BY <2>7, <2>8, <3>2, <3>3
  <2> DEFINE held == run[Steps].volume[c]
             x == p[k]
             y == p[Radius]
  <2>10. held * y <= weight(Steps) /\ held \in Nat
    <3> DEFINE v == run[Steps].volume
               f == [d \in Cell |-> v[d] * w[d]]
    <3>1. v \in [Cell -> Nat]
      <4>1. run[Steps] \in Grids(strokes)
        BY <1>1
      <4> QED
        BY <4>1 DEF Grids
    <3>2. \A d \in Cell : f[d] \in Nat
      <4>1. \A d \in Cell : v[d] \in Nat /\ w[d] \in Nat
        BY <2>1, <3>1
      <4> HIDE DEF v
      <4> QED
        BY <4>1, ProductIs
    <3>3. f[c] = held * y
      BY <2>1
    <3>4. held \in Nat
      BY <3>1
    <3>5. weight(Steps) = Total(f, Cell)
      BY DEF weight, Weighed
    <3> HIDE DEF f, held
    <3>6. f[c] <= Total(f, Cell)
      BY <3>2, CellIs, TotalNat
    <3> QED
      BY <3>3, <3>4, <3>5, <3>6
  <2>11. x \in Nat /\ x >= 1 /\ y \in Nat /\ y >= 512 * x
    <3>1. \A n \in Nat : p[n] \in Nat /\ p[n + 1] = 2 * p[n]
      BY <1>4 DEF Powers
    <3>2. /\ p[k + 1] = 2 * x /\ p[k + 2] = 4 * x /\ p[k + 3] = 8 * x /\ x \in Nat
      <4>1. (k + 1) + 1 = k + 2 /\ (k + 2) + 1 = k + 3 /\ k + 1 \in Nat /\ k + 2 \in Nat
        BY <2>7
      <4> QED
        BY <2>7, <3>1, <4>1
    <3>3. /\ p[k + 4] = 16 * x /\ p[k + 5] = 32 * x /\ p[k + 6] = 64 * x
      <4>1. /\ (k + 3) + 1 = k + 4 /\ (k + 4) + 1 = k + 5 /\ (k + 5) + 1 = k + 6
            /\ k + 3 \in Nat /\ k + 4 \in Nat /\ k + 5 \in Nat
        BY <2>7
      <4>2. /\ p[(k + 3) + 1] = 2 * p[k + 3] /\ p[(k + 4) + 1] = 2 * p[k + 4]
            /\ p[(k + 5) + 1] = 2 * p[k + 5]
        BY <3>1, <4>1
      <4>3. p[k + 4] = 2 * p[k + 3] /\ p[k + 5] = 2 * p[k + 4] /\ p[k + 6] = 2 * p[k + 5]
        BY <4>1, <4>2, Zenon
      <4> HIDE DEF x
      <4> QED
        BY <3>2, <4>3
    <3>4. /\ p[k + 7] = 128 * x /\ p[k + 8] = 256 * x /\ p[k + 9] = 512 * x
      <4>1. /\ (k + 6) + 1 = k + 7 /\ (k + 7) + 1 = k + 8 /\ (k + 8) + 1 = k + 9
            /\ k + 6 \in Nat /\ k + 7 \in Nat /\ k + 8 \in Nat
        BY <2>7
      <4>2. /\ p[(k + 6) + 1] = 2 * p[k + 6] /\ p[(k + 7) + 1] = 2 * p[k + 7]
            /\ p[(k + 8) + 1] = 2 * p[k + 8]
        BY <3>1, <4>1
      <4>3. p[k + 7] = 2 * p[k + 6] /\ p[k + 8] = 2 * p[k + 7] /\ p[k + 9] = 2 * p[k + 8]
        BY <4>1, <4>2, Zenon
      <4> HIDE DEF x
      <4> QED
        BY <3>2, <3>3, <4>3
    <3>5. x >= 1
      BY <1>4, <2>7, PowersGrow
    <3>6. p[k + 9] <= y /\ y \in Nat
      <4>1. k + 9 \in Nat /\ k + 9 <= Radius /\ Radius \in Nat
        BY <2>7
      <4> HIDE DEF x
      <4> QED
        BY <1>4, <4>1, PowersGrow
    <3> HIDE DEF x, y
    <3> QED
      BY <3>2, <3>4, <3>5, <3>6
  <2> HIDE DEF held, x, y
  <2>12. held < 50
    <3> SUFFICES ASSUME held >= 50 PROVE FALSE
      BY <2>10
    <3>1. held * y >= 50 * y
      BY <2>10, <2>11
    <3>2. fluid * x <= 10000 * x /\ fluid * x \in Nat
      BY <2>5, <2>11
    <3>3. weight(Steps) <= 2 * (fluid * x)
      BY <2>9 DEF x
    <3> DEFINE a == held * y
               b == fluid * x
    <3>4. a \in Nat /\ a >= 50 * y /\ a <= weight(Steps) /\ b <= 10000 * x /\ weight(Steps) <= 2 * b
          /\ b \in Nat
      BY <2>10, <2>11, <3>1, <3>2, <3>3
    <3> HIDE DEF a, b
    <3> QED
      BY <2>9, <2>11, <3>4
  <2> QED
    BY <2>12 DEF held, WetThreshold
<1>6. ASSUME NEW c \in Cell, c[1] \in {0, Size - 1} \/ c[2] \in {0, Size - 1}
      PROVE  run[Steps].volume[c] < WetThreshold
  <2>1. Size - 1 = 2 * Radius
    BY DEF Size
  <2>2. c[1] = 0 \/ c[1] = 2 * Radius \/ c[2] = 0 \/ c[2] = 2 * Radius
    BY <1>6, <2>1
  <2>3. CASE c[1] = 0
    <3> DEFINE far == [d \in Cell |-> Radius - d[1]]
    <3>1. Direction(far) /\ far[c] = Radius
      BY <2>3 DEF Direction
    <3> HIDE DEF far
    <3> QED
      BY <1>5, <3>1
  <2>4. CASE c[1] = 2 * Radius
    <3> DEFINE far == [d \in Cell |-> d[1] - Radius]
    <3>1. Direction(far) /\ far[c] = Radius
      BY <2>4 DEF Direction
    <3> HIDE DEF far
    <3> QED
      BY <1>5, <3>1
  <2>5. CASE c[2] = 0
    <3> DEFINE far == [d \in Cell |-> Radius - d[2]]
    <3>1. Direction(far) /\ far[c] = Radius
      BY <2>5 DEF Direction
    <3> HIDE DEF far
    <3> QED
      BY <1>5, <3>1
  <2>6. CASE c[2] = 2 * Radius
    <3> DEFINE far == [d \in Cell |-> d[2] - Radius]
    <3>1. Direction(far) /\ far[c] = Radius
      BY <2>6 DEF Direction
    <3> HIDE DEF far
    <3> QED
      BY <1>5, <3>1
  <2> QED
    BY <2>2, <2>3, <2>4, <2>5, <2>6
<1> QED
  BY <1>6 DEF DryBorder, run

\* So the outlines of a simulation are closed.
LEMMA RunIsOutlined ==
  ASSUME NEW strokes, Absorbent(strokes), NEW intensity \in 0..100, Radius >= Steps \div 4 + 9,
         NEW chain \in ExtractStainPolygons(RunSimulation(strokes, intensity)[Steps].volume)
  PROVE  Closed(chain)
<1> DEFINE volume == RunSimulation(strokes, intensity)[Steps].volume
           P == Int \X Int
<1>1. DryBorder(volume)
  BY BorderIsDry
<1>2. volume \in [Cell -> Nat]
  <2>1. Steps \in 0..Steps /\ intensity \in Nat
    OBVIOUS
  <2>2. RunSimulation(strokes, intensity)[Steps] \in Grids(strokes)
    BY <2>1, RunIsBalanced DEF Balanced
  <2> QED
    BY <2>2 DEF Grids
<1>3. chain \in ToSet(ChainEdges(Edges(volume)))
  BY DEF ExtractStainPolygons
<1> HIDE DEF volume
<1>4. Paired(Edges(volume))
  BY <1>1, <1>2, EdgesArePaired
<1>5. Edges(volume) \in Seq(P \X P)
  BY EdgesAreDrawn
<1> HIDE DEF P
<1> QED
  BY <1>3, <1>4, <1>5, ChainsAreClosed

=============================================================================
