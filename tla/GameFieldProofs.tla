--------------------------- MODULE GameFieldProofs ---------------------------
(***************************************************************************)
(* What the operators of GameField do to any board, for every board size   *)
(* and fleet, and that they follow the rules of the game.                  *)
(***************************************************************************)
EXTENDS FieldRules, Counting

-----------------------------------------------------------------------------
(***************************************************************************)
(* Shots                                                                   *)
(***************************************************************************)

\* Marking the surroundings of a destroyed ship touches nothing but water.
LEMMA BoundaryMarksWater ==
    ASSUME NEW f \in Field, NEW point
    PROVE  /\ mark_destroyed_ship_boundary(f, point) \in Field
           /\ \A c \in Cell :
                  \/ mark_destroyed_ship_boundary(f, point)[c] = f[c]
                  \/ f[c] = "EMPTY" /\ mark_destroyed_ship_boundary(f, point)[c] = "MISSED"
  BY DEF mark_destroyed_ship_boundary, Field, CellState

\* A shot that hits something is a shot at a cell, and its result is what the
\* cell was.
LEMMA ResultOfShot ==
    ASSUME NEW f \in Field, NEW point
    PROVE  /\ shot_result(f, point) \in {"EMPTY", "DAMAGED", "MISSED"}
           /\ shot_result(f, point) # "EMPTY" => point \in Cell
           /\ shot_result(f, point) = "DAMAGED" <=> point \in Cell /\ f[point] = "UNHARMED"
           /\ shot_result(f, point) = "MISSED" <=> point \in Cell /\ f[point] = "EMPTY"
  BY DEF shot_result, get_state, contains, Field

\* register_shot writes the result into the cell, changes nothing else but
\* water to misses, and returns a board.
LEMMA EffectOfShot ==
    ASSUME NEW f \in Field, NEW point
    PROVE  LET g == register_shot(f, point)
           IN  /\ g \in Field
               /\ shot_result(f, point) = "EMPTY" => g = f
               /\ shot_result(f, point) # "EMPTY" => g[point] = shot_result(f, point)
               /\ \A c \in Cell \ {point} :
                      g[c] = f[c] \/ (f[c] = "EMPTY" /\ g[c] = "MISSED")
  <1> DEFINE res  == shot_result(f, point)
             shot == [f EXCEPT ![point] = res]
             g    == register_shot(f, point)
  <1>1. CASE res = "EMPTY"
    BY <1>1 DEF register_shot
  <1>2. CASE res # "EMPTY"
    <2>1. point \in Cell /\ res \in {"DAMAGED", "MISSED"}
      BY <1>2, ResultOfShot
    <2>2. shot \in Field /\ shot[point] = res /\ \A c \in Cell \ {point} : shot[c] = f[c]
      BY <2>1 DEF Field, CellState
    <2>3. CASE res = "DAMAGED" /\ ship_destroyed(shot, point)
      <3>1. g = mark_destroyed_ship_boundary(shot, point)
        BY <2>3 DEF register_shot
      <3> HIDE DEF res, shot, g
      <3>2. g \in Field /\ \A c \in Cell : \/ g[c] = shot[c]
                                           \/ shot[c] = "EMPTY" /\ g[c] = "MISSED"
        BY <3>1, <2>2, BoundaryMarksWater
      <3>3. g[point] = res
        BY <2>1, <2>2, <2>3, <3>2
      <3>4. \A c \in Cell \ {point} : g[c] = f[c] \/ (f[c] = "EMPTY" /\ g[c] = "MISSED")
        BY <2>2, <3>2
      <3> QED BY <1>2, <3>2, <3>3, <3>4 DEF res, g
    <2>4. CASE ~(res = "DAMAGED" /\ ship_destroyed(shot, point))
      <3>1. g = shot
        BY <1>2, <2>4 DEF register_shot
      <3> QED BY <1>2, <2>2, <3>1
    <2> QED BY <2>3, <2>4
  <1> QED BY <1>1, <1>2

\* Once all ships of a board are destroyed, no shot changes that: a result that
\* was announced stays right.
THEOREM DestroyedForGood ==
    ASSUME NEW f \in Field, all_ships_destroyed(f), NEW point
    PROVE  all_ships_destroyed(register_shot(f, point))
  <1>1. shot_result(f, point) # "DAMAGED"
    BY ResultOfShot DEF all_ships_destroyed
  <1> DEFINE g == register_shot(f, point)
  <1> HIDE DEF g
  <1>2. SUFFICES ASSUME NEW c \in Cell PROVE g[c] # "UNHARMED"
    BY DEF all_ships_destroyed, g
  <1>3. CASE c = point
    BY <1>3, EffectOfShot, ResultOfShot DEF all_ships_destroyed, g
  <1>4. CASE c # point
    BY <1>4, EffectOfShot DEF all_ships_destroyed, g
  <1> QED BY <1>3, <1>4

-----------------------------------------------------------------------------
(***************************************************************************)
(* The scan of a start field, cell by cell                                 *)
(***************************************************************************)

\* Nothing is noted before the first cell.
FirstScan(f) == [rest |-> f, ships |-> <<>>, ok |-> TRUE]

\* The scan goes from cell to cell.
LEMMA ScanByCells ==
    ASSUME FieldAssumption, NEW f
    PROVE  /\ scanned(f)[0] = FirstScan(f)
           /\ \A n \in 1 .. FLD_SZ * FLD_SZ :
                  scanned(f)[n] = scan_cell(Position(n - 1))[scanned(f)[n - 1]]
<1> DEFINE Next(h, n) == IF n = 0 THEN FirstScan(f) ELSE scan_cell(Position(n - 1))[h[n - 1]]
           Scan(m, h) == h = [n \in 0 .. m |-> Next(h, n)]
           Scanned == {m \in Nat : \E h : Scan(m, h)}
<1>1. 0 \in Scanned
  <2> DEFINE h == [n \in 0 .. 0 |-> FirstScan(f)]
  <2>1. \A n \in 0 .. 0 : Next(h, n) = FirstScan(f)
    OBVIOUS
  <2>2. Scan(0, h)
    BY <2>1, Zenon
  <2> QED BY <2>2
<1>2. ASSUME NEW m \in Scanned PROVE m + 1 \in Scanned
  <2>1. PICK h : Scan(m, h)
    BY <1>2
  <2> DEFINE g == [n \in 0 .. m + 1 |-> IF n = m + 1 THEN Next(h, n) ELSE h[n]]
  <2> HIDE DEF Next
  <2>2. ASSUME NEW n \in 0 .. m + 1 PROVE g[n] = Next(g, n)
    <3>1. n = 0 \/ g[n - 1] = h[n - 1]
      BY SMT
    <3>2. Next(g, n) = Next(h, n)
      BY <3>1, SMT DEF Next
    <3>3. n # m + 1 => h[n] = Next(h, n)
      <4>1. n # m + 1 => n \in 0 .. m
        BY SMT
      <4> QED BY <2>1, <4>1, Zenon
    <3> QED BY <3>2, <3>3, SMT
  <2>3. g = [n \in 0 .. m + 1 |-> g[n]]
    BY Zenon
  <2>4. Scan(m + 1, g)
    BY <2>2, <2>3, Zenon
  <2> QED BY <2>4, SMT
<1>3. FLD_SZ * FLD_SZ \in Scanned
  <2>1. FLD_SZ * FLD_SZ \in Nat
    BY DEF FieldAssumption
  <2> HIDE DEF Scanned
  <2> QED BY <1>1, <1>2, <2>1, ByCounting
<1>4. Scan(FLD_SZ * FLD_SZ, scanned(f))
  <2>1. PICK h : Scan(FLD_SZ * FLD_SZ, h)
    BY <1>3
  <2>2. scanned(f) = CHOOSE g : Scan(FLD_SZ * FLD_SZ, g)
    BY Zenon DEF scanned, FirstScan
  <2> QED BY <2>1, <2>2, Zenon
<1>5. \A n \in 0 .. FLD_SZ * FLD_SZ : scanned(f)[n] = Next(scanned(f), n)
  BY <1>4, Zenon
<1> DEFINE N == FLD_SZ * FLD_SZ
<1>6. N \in Nat
  BY DEF FieldAssumption
<1> HIDE DEF Scan, N, Scanned
<1>7. 0 \in 0 .. N /\ \A n \in 1 .. N : n \in 0 .. N /\ n # 0
  BY <1>6, SMT
<1> QED BY <1>5, <1>7, Zenon DEF N

-----------------------------------------------------------------------------
(***************************************************************************)
(* Ships that the scan notes                                               *)
(***************************************************************************)

\* A cell k steps away from a cell is on the board only if k is small.
LEMMA StepsOnBoard ==
    ASSUME FieldAssumption, NEW c \in Cell, NEW dir \in Directions, NEW k \in Nat,
           Step(c, dir, k) \in Cell
    PROVE  k < FLD_SZ
  BY DEF Cell, Coord, Directions, Step, FieldAssumption

\* A run begins with its first cell and ends before the first cell that is free.
LEMMA LengthOfRun ==
    ASSUME FieldAssumption, NEW f \in Field, NEW head \in Cell, f[head] # "EMPTY",
           NEW dir \in {<<1, 0>>, <<0, 1>>}
    PROVE  /\ RunLength(f, head, dir) \in 1 .. FLD_SZ
           /\ \A k \in 0 .. RunLength(f, head, dir) - 1 : occupied(f, Step(head, dir, k))
           /\ ~occupied(f, Step(head, dir, RunLength(f, head, dir)))
<1> DEFINE Free == {k \in Nat : ~occupied(f, Step(head, dir, k))}
           Run(n) == /\ \A k \in 0 .. (n - 1) : occupied(f, Step(head, dir, k))
                     /\ ~occupied(f, Step(head, dir, n))
<1>1. FLD_SZ \in Free
  <2>1. Step(head, dir, FLD_SZ) \notin Cell
    <3>1. dir \in Directions /\ FLD_SZ \in Nat /\ ~(FLD_SZ < FLD_SZ)
      BY DEF FieldAssumption, Directions
    <3> QED BY <3>1, StepsOnBoard, Zenon
  <2> QED BY <2>1 DEF FieldAssumption, occupied, get_state, contains
<1>2. PICK n \in Free : \A k \in Free : n <= k
  BY <1>1, Smallest
<1>3. n \in 0 .. FLD_SZ /\ Run(n)
  <2>1. \A k \in 0 .. (n - 1) : k \notin Free
    BY <1>2
  <2> QED BY <1>1, <1>2, <2>1 DEF FieldAssumption
<1>4. RunLength(f, head, dir) = CHOOSE m \in 0 .. FLD_SZ : Run(m)
  BY DEF RunLength
<1> DEFINE len == RunLength(f, head, dir)
<1>5. len \in 0 .. FLD_SZ /\ Run(len)
  <2> HIDE DEF Run
  <2> QED BY <1>3, <1>4
<1>6. len # 0
  <2>1. Step(head, dir, 0) = head
    BY DEF Step, Cell, Coord
  <2>2. occupied(f, Step(head, dir, 0))
    BY <2>1 DEF occupied, get_state, contains
  <2> QED BY <1>5, <2>2
<1> QED BY <1>5, <1>6 DEF FieldAssumption

\* The cells where a ship is, damaged or not.
Taken(f) == {c \in Cell : f[c] # "EMPTY"}

\* The scan notes a ship that consists of occupied cells.
LEMMA ShipAtHead ==
    ASSUME FieldAssumption, NEW f \in Field, NEW head \in Cell, f[head] # "EMPTY"
    PROVE  LET ship == Ship(f, head)
           IN  /\ ship \in [head : Cell, delta : {<<1, 0>>, <<0, 1>>}, len : 1 .. FLD_SZ]
               /\ ship_cells(ship) \subseteq Taken(f)
               /\ head \in ship_cells(ship)
<1> DEFINE ship == Ship(f, head)
           len(dir) == RunLength(f, head, dir)
<1>1. PICK dir \in {<<1, 0>>, <<0, 1>>} : ship = [head |-> head, delta |-> dir, len |-> len(dir)]
  BY DEF Ship
<1>2. /\ len(dir) \in 1 .. FLD_SZ
      /\ \A k \in 0 .. len(dir) - 1 : occupied(f, Step(head, dir, k))
  BY LengthOfRun
<1> HIDE DEF ship, len
<1>3. ship \in [head : Cell, delta : {<<1, 0>>, <<0, 1>>}, len : 1 .. FLD_SZ]
  BY <1>1, <1>2
<1>4. ship_cells(ship) = {Step(head, dir, k) : k \in 0 .. len(dir) - 1}
  BY <1>1 DEF ship_cells
<1>5. ship_cells(ship) \subseteq Taken(f)
  BY <1>2, <1>4 DEF occupied, get_state, contains, Taken
<1>6. head \in ship_cells(ship)
  <2>1. Step(head, dir, 0) = head
    BY DEF Step, Cell, Coord
  <2> QED BY <1>2, <1>4, <2>1 DEF FieldAssumption
<1> QED BY <1>3, <1>5, <1>6 DEF ship

-----------------------------------------------------------------------------
(***************************************************************************)
(* What the scan has found                                                 *)
(***************************************************************************)

\* The scan comes to every cell.
LEMMA EveryPosition ==
    ASSUME FieldAssumption
    PROVE  /\ \A n \in 0 .. FLD_SZ * FLD_SZ - 1 : Position(n) \in Cell
           /\ \A c \in Cell : \E n \in 0 .. FLD_SZ * FLD_SZ - 1 : Position(n) = c
<1>1. ASSUME NEW n \in 0 .. FLD_SZ * FLD_SZ - 1 PROVE Position(n) \in Cell
  <2> DEFINE q == n \div FLD_SZ
             r == n % FLD_SZ
  <2>1. FLD_SZ \in Nat \ {0} /\ n \in Nat /\ n < FLD_SZ * FLD_SZ
    BY DEF FieldAssumption
  <2>2. q \in Nat /\ r \in 0 .. FLD_SZ - 1 /\ n = FLD_SZ * q + r
    BY <2>1
  <2> HIDE DEF q, r
  <2>3. q < FLD_SZ
    <3> SUFFICES ASSUME q >= FLD_SZ PROVE FALSE
      BY <2>1, <2>2
    <3>1. FLD_SZ * q >= FLD_SZ * FLD_SZ
      BY <2>1, <2>2
    <3> QED BY <2>1, <2>2, <3>1
  <2> QED BY <2>1, <2>2, <2>3 DEF Position, Cell, Coord, q, r
<1>2. ASSUME NEW x \in Coord, NEW y \in Coord
      PROVE  \E n \in 0 .. FLD_SZ * FLD_SZ - 1 : Position(n) = <<x, y>>
  <2> DEFINE n == FLD_SZ * y + x
             q == n \div FLD_SZ
             r == n % FLD_SZ
  <2>1. FLD_SZ \in Nat \ {0} /\ x \in 0 .. FLD_SZ - 1 /\ y \in 0 .. FLD_SZ - 1
    BY DEF FieldAssumption, Coord
  <2>2. FLD_SZ * y <= FLD_SZ * (FLD_SZ - 1) /\ FLD_SZ * (FLD_SZ - 1) = FLD_SZ * FLD_SZ - FLD_SZ
    BY <2>1
  <2>3. n \in 0 .. FLD_SZ * FLD_SZ - 1
    BY <2>1, <2>2
  <2>4. q \in Nat /\ r \in 0 .. FLD_SZ - 1 /\ n = FLD_SZ * q + r
    <3> HIDE DEF n
    <3> QED BY <2>1, <2>3
  <2> HIDE DEF q, r
  <2>5. q = y
    <3>1. CASE q >= y + 1
      <4>1. FLD_SZ * q >= FLD_SZ * (y + 1) /\ FLD_SZ * (y + 1) = FLD_SZ * y + FLD_SZ
        BY <2>1, <2>4, <3>1
      <4> QED BY <2>1, <2>4, <4>1
    <3>2. CASE y >= q + 1
      <4>1. FLD_SZ * y >= FLD_SZ * (q + 1) /\ FLD_SZ * (q + 1) = FLD_SZ * q + FLD_SZ
        BY <2>1, <2>4, <3>2
      <4> QED BY <2>1, <2>4, <4>1
    <3> QED BY <2>1, <2>4, <3>1, <3>2
  <2>6. r = x
    BY <2>1, <2>4, <2>5
  <2> QED BY <2>3, <2>5, <2>6 DEF Position, q, r
<1>3. ASSUME NEW c \in Cell PROVE \E n \in 0 .. FLD_SZ * FLD_SZ - 1 : Position(n) = c
  <2>1. PICK x \in Coord, y \in Coord : c = <<x, y>>
    BY DEF Cell
  <2> QED BY <1>2, <2>1, Zenon
<1> QED BY <1>1, <1>3, Zenon

\* What the scan has found after n cells, as long as nothing was wrong: `rest' is
\* what is left of the board, and the ships noted share out what is gone.
ScanInv(f, n, s) ==
    /\ s \in [rest : Field, ships : Seq(FoundShip), ok : BOOLEAN]
    /\ \A c \in Cell : s.rest[c] \in {f[c], "EMPTY"}
    /\ \A c \in Cell : s.rest[c] = "EMPTY" <=>
           f[c] = "EMPTY" \/ \E i \in 1 .. Len(s.ships) : c \in ship_cells(s.ships[i])
    /\ \A i \in 1 .. Len(s.ships) : ship_cells(s.ships[i]) \subseteq Taken(f)
    /\ \A i, j \in 1 .. Len(s.ships) :
           i # j => ship_cells(s.ships[i]) \cap ship_cells(s.ships[j]) = {}
    /\ \A k \in 0 .. n - 1 : s.rest[Position(k)] = "EMPTY"

\* One cell further, whatever was found.
LEMMA ScanCell ==
    ASSUME FieldAssumption, NEW s \in ScanState, NEW point \in Cell
    PROVE  /\ scan_cell(point)[s] =
                  IF ~s.ok \/ ~occupied(s.rest, point) THEN s
                  ELSE IF Ship(s.rest, point).len > Len(Fleet) \/ Len(s.ships) = SHIP_COUNT
                         THEN [s EXCEPT !.ok = FALSE]
                         ELSE [rest  |-> remove_ship(s.rest, Ship(s.rest, point)),
                               ships |-> Append(s.ships, Ship(s.rest, point)),
                               ok    |-> TRUE]
           /\ scan_cell(point)[s] \in ScanState
<1> DEFINE t    == scan_cell(point)[s]
           ship == Ship(s.rest, point)
<1>1. t = IF ~s.ok \/ ~occupied(s.rest, point) THEN s
          ELSE IF ship.len > Len(Fleet) \/ Len(s.ships) = SHIP_COUNT
                 THEN [s EXCEPT !.ok = FALSE]
                 ELSE [rest |-> remove_ship(s.rest, ship), ships |-> Append(s.ships, ship),
                       ok |-> TRUE]
  BY SMT DEF scan_cell
<1>2. s.rest \in Field /\ s.ships \in Seq(FoundShip)
  BY DEF ScanState
<1>3. ASSUME ~s.ok \/ ~occupied(s.rest, point) PROVE t \in ScanState
  <2> HIDE DEF t
  <2> QED BY <1>1, <1>3, Zenon
<1>4. ASSUME occupied(s.rest, point), ship.len > Len(Fleet) \/ Len(s.ships) = SHIP_COUNT, s.ok
      PROVE  t \in ScanState
  <2>1. [s EXCEPT !.ok = FALSE] \in ScanState
    BY DEF ScanState
  <2> HIDE DEF t, ship
  <2> QED BY <1>1, <1>4, <2>1, Zenon
<1>5. ASSUME s.ok, occupied(s.rest, point), ~(ship.len > Len(Fleet)), Len(s.ships) # SHIP_COUNT
      PROVE  t \in ScanState
  <2>1. s.rest[point] # "EMPTY"
    BY <1>5 DEF occupied, get_state, contains
  <2>2. ship \in [head : Cell, delta : {<<1, 0>>, <<0, 1>>}, len : 1 .. FLD_SZ]
    BY <1>2, <2>1, ShipAtHead
  <2> HIDE DEF ship
  <2>3. ship \in FoundShip
    BY <1>5, <2>2 DEF FoundShip, FieldAssumption
  <2>4. remove_ship(s.rest, ship) \in Field
    BY <1>2 DEF remove_ship, Field, CellState
  <2>5. Append(s.ships, ship) \in Seq(FoundShip)
    BY <1>2, <2>3
  <2>6. t = [rest |-> remove_ship(s.rest, ship), ships |-> Append(s.ships, ship), ok |-> TRUE]
    <3> HIDE DEF t
    <3> QED BY <1>1, <1>5, Zenon
  <2> HIDE DEF t
  <2> QED BY <2>4, <2>5, <2>6 DEF ScanState
<1>6. t \in ScanState
  <2> HIDE DEF t, ship
  <2> QED BY <1>3, <1>4, <1>5, Zenon
<1> QED BY <1>1, <1>6, Zenon

\* One cell further.
LEMMA ScanOneCell ==
    ASSUME FieldAssumption, NEW f \in Field, NEW n \in 0 .. FLD_SZ * FLD_SZ - 1, NEW s,
           s.ok, ScanInv(f, n, s), scan_cell(Position(n))[s].ok
    PROVE  ScanInv(f, n + 1, scan_cell(Position(n))[s])
<1> DEFINE point == Position(n)
           t     == scan_cell(point)[s]
<1>1. point \in Cell /\ s \in ScanState
  BY EveryPosition DEF ScanInv, ScanState
<1>2. \A k \in 0 .. (n + 1) - 1 : k \in 0 .. n - 1 \/ k = n
  OBVIOUS
<1>3. CASE ~occupied(s.rest, point)
  <2>1. t = s
    BY <1>1, <1>3, ScanCell, Zenon
  <2>2. s.rest[point] = "EMPTY"
    BY <1>1, <1>3 DEF occupied, get_state, contains
  <2>3. \A k \in 0 .. (n + 1) - 1 : s.rest[Position(k)] = "EMPTY"
    BY <1>2, <2>2 DEF ScanInv
  <2>4. ScanInv(f, n + 1, s)
    BY <2>3, Zenon DEF ScanInv
  <2> QED BY <2>1, <2>4, Zenon
<1>4. CASE occupied(s.rest, point)
  <2> DEFINE ship == Ship(s.rest, point)
             L    == Len(s.ships)
  <2>1. s.rest \in Field /\ s.ships \in Seq(FoundShip) /\ s \in [rest : Field, ships : Seq(FoundShip), ok : BOOLEAN]
    BY DEF ScanInv
  <2>2. s.rest[point] # "EMPTY"
    BY <1>1, <1>4 DEF occupied, get_state, contains
  <2>3. /\ ship \in [head : Cell, delta : {<<1, 0>>, <<0, 1>>}, len : 1 .. FLD_SZ]
        /\ ship_cells(ship) \subseteq Taken(s.rest)
        /\ point \in ship_cells(ship)
    BY <1>1, <2>1, <2>2, ShipAtHead
  <2> HIDE DEF ship
  <2>4. /\ ~(ship.len > Len(Fleet))
        /\ t = [rest |-> remove_ship(s.rest, ship), ships |-> Append(s.ships, ship), ok |-> TRUE]
    <3>1. t = IF ship.len > Len(Fleet) \/ Len(s.ships) = SHIP_COUNT
              THEN [s EXCEPT !.ok = FALSE]
              ELSE [rest |-> remove_ship(s.rest, ship), ships |-> Append(s.ships, ship), ok |-> TRUE]
      BY <1>1, <1>4, ScanCell, Zenon DEF ship
    <3>2. [s EXCEPT !.ok = FALSE].ok = FALSE
      BY <2>1
    <3>3. t # [s EXCEPT !.ok = FALSE]
      BY <3>2
    <3> HIDE DEF t
    <3> QED BY <3>1, <3>3, Zenon
  <2>5. /\ t.rest = remove_ship(s.rest, ship)
        /\ t.ships = Append(s.ships, ship)
        /\ t.ok = TRUE
    BY <2>4
  <2>6. ship \in FoundShip
    BY <2>3, <2>4 DEF FoundShip, FieldAssumption
  <2>7. t \in [rest : Field, ships : Seq(FoundShip), ok : BOOLEAN]
    <3>1. remove_ship(s.rest, ship) \in Field
      BY <2>1 DEF remove_ship, Field, CellState
    <3>2. Append(s.ships, ship) \in Seq(FoundShip)
      BY <2>1, <2>6
    <3> QED BY <2>4, <3>1, <3>2
  <2>8. /\ L \in Nat
        /\ Len(t.ships) = L + 1
        /\ \A i \in 1 .. L : t.ships[i] = s.ships[i]
        /\ t.ships[L + 1] = ship
        /\ \A i \in 1 .. L + 1 : i \in 1 .. L \/ i = L + 1
        /\ 1 .. L \subseteq 1 .. L + 1 /\ L + 1 \in 1 .. L + 1
    BY <2>1, <2>5, <2>6
  <2>9. \A c \in Cell : t.rest[c] = IF c \in ship_cells(ship) THEN "EMPTY" ELSE s.rest[c]
    BY <2>5 DEF remove_ship
  <2> HIDE DEF t, L
  <2>10. \A c \in Cell : t.rest[c] \in {f[c], "EMPTY"}
    BY <2>9 DEF ScanInv
  <2>11. \A c \in Cell : t.rest[c] = "EMPTY" <=>
             f[c] = "EMPTY" \/ \E i \in 1 .. Len(t.ships) : c \in ship_cells(t.ships[i])
    <3> SUFFICES ASSUME NEW c \in Cell
                 PROVE  t.rest[c] = "EMPTY" <=>
                            f[c] = "EMPTY" \/ \E i \in 1 .. L + 1 : c \in ship_cells(t.ships[i])
      BY <2>8
    <3>1. s.rest[c] = "EMPTY" <=>
             f[c] = "EMPTY" \/ \E i \in 1 .. L : c \in ship_cells(s.ships[i])
      BY DEF ScanInv, L
    <3>2. (\E i \in 1 .. L + 1 : c \in ship_cells(t.ships[i])) <=>
              (\E i \in 1 .. L : c \in ship_cells(s.ships[i])) \/ c \in ship_cells(ship)
      BY <2>8, Zenon
    <3> QED BY <2>9, <3>1, <3>2
  <2>12. ship_cells(ship) \subseteq Taken(f)
    BY <2>3 DEF ScanInv, Taken
  <2>13. \A i \in 1 .. L + 1 : ship_cells(t.ships[i]) \subseteq Taken(f)
    <3>1. \A i \in 1 .. L : ship_cells(s.ships[i]) \subseteq Taken(f)
      BY Zenon DEF ScanInv, L
    <3> QED BY <2>8, <2>12, <3>1, Zenon
  <2>14. \A i \in 1 .. L : ship_cells(s.ships[i]) \cap ship_cells(ship) = {}
    <3> SUFFICES ASSUME NEW i \in 1 .. L, NEW c, c \in ship_cells(s.ships[i]), c \in ship_cells(ship)
                 PROVE  FALSE
      OBVIOUS
    <3>1. c \in Cell /\ s.rest[c] # "EMPTY"
      BY <2>3 DEF Taken
    <3> QED BY <3>1 DEF ScanInv, L
  <2>15. \A i, j \in 1 .. L + 1 :
             i # j => ship_cells(t.ships[i]) \cap ship_cells(t.ships[j]) = {}
    <3>1. \A i, j \in 1 .. L : i # j => ship_cells(s.ships[i]) \cap ship_cells(s.ships[j]) = {}
      BY Zenon DEF ScanInv, L
    <3> SUFFICES ASSUME NEW i \in 1 .. L + 1, NEW j \in 1 .. L + 1, i # j
                 PROVE  ship_cells(t.ships[i]) \cap ship_cells(t.ships[j]) = {}
      OBVIOUS
    <3>2. CASE i \in 1 .. L /\ j \in 1 .. L
      BY <2>8, <3>1, <3>2, Zenon
    <3>3. CASE i \in 1 .. L /\ j = L + 1
      BY <2>8, <2>14, <3>3
    <3>4. CASE i = L + 1 /\ j \in 1 .. L
      BY <2>8, <2>14, <3>4
    <3> QED BY <2>8, <3>2, <3>3, <3>4, Zenon
  <2>16. \A k \in 0 .. (n + 1) - 1 : t.rest[Position(k)] = "EMPTY"
    <3> SUFFICES ASSUME NEW k \in 0 .. (n + 1) - 1 PROVE t.rest[Position(k)] = "EMPTY"
      OBVIOUS
    <3>1. k \in 0 .. FLD_SZ * FLD_SZ - 1
      <4>1. FLD_SZ * FLD_SZ \in Nat
        BY DEF FieldAssumption
      <4> QED BY <4>1
    <3>2. Position(k) \in Cell
      BY <3>1, EveryPosition
    <3>3. k \in 0 .. n - 1 => s.rest[Position(k)] = "EMPTY"
      BY DEF ScanInv
    <3> QED BY <1>2, <2>3, <2>9, <3>2, <3>3 DEF point
  <2> QED BY <2>7, <2>8, <2>10, <2>11, <2>13, <2>15, <2>16, Zenon DEF ScanInv, t
<1> QED BY <1>3, <1>4

\* The scan begins with nothing found.
LEMMA NothingFound ==
    ASSUME NEW f \in Field
    PROVE  ScanInv(f, 0, FirstScan(f))
<1> DEFINE first == FirstScan(f)
<1>1. /\ first \in [rest : Field, ships : Seq(FoundShip), ok : BOOLEAN]
      /\ first.rest = f
      /\ first.ships = <<>>
  BY DEF FirstScan
<1>2. Len(<<>>) = 0 /\ 1 .. 0 = {} /\ 0 .. 0 - 1 = {}
  OBVIOUS
<1>3. 1 .. Len(first.ships) = {}
  BY <1>1, <1>2, Zenon
<1> HIDE DEF first
<1>4. \A c \in Cell : first.rest[c] \in {f[c], "EMPTY"}
  BY <1>1
<1>5. /\ \A c \in Cell : first.rest[c] = "EMPTY" <=>
             f[c] = "EMPTY" \/ \E i \in {} : c \in ship_cells(first.ships[i])
      /\ \A i \in {} : ship_cells(first.ships[i]) \subseteq Taken(f)
      /\ \A i, j \in {} : i # j => ship_cells(first.ships[i]) \cap ship_cells(first.ships[j]) = {}
      /\ \A k \in {} : first.rest[Position(k)] = "EMPTY"
  BY <1>1, Zenon
<1> QED BY <1>1, <1>2, <1>3, <1>4, <1>5, Zenon DEF ScanInv, first

\* The whole scan.
LEMMA ScanOfAll ==
    ASSUME FieldAssumption, NEW f \in Field, scan_ships(f).ok
    PROVE  ScanInv(f, FLD_SZ * FLD_SZ, scan_ships(f))
<1> DEFINE N     == FLD_SZ * FLD_SZ
           at(n) == scanned(f)[n]
           Right == {n \in Nat : n <= N => at(n) \in ScanState /\ (at(n).ok => ScanInv(f, n, at(n)))}
<1>1. N \in Nat
  BY DEF FieldAssumption
<1> HIDE DEF N, at
<1>2. ScanInv(f, 0, at(0))
  BY NothingFound, ScanByCells DEF at
<1>3. 0 \in Right
  BY <1>2 DEF ScanInv, ScanState
<1>4. ASSUME NEW n \in Right, n \in Nat PROVE n + 1 \in Right
  <2> SUFFICES ASSUME n + 1 <= N
               PROVE  at(n + 1) \in ScanState /\ (at(n + 1).ok => ScanInv(f, n + 1, at(n + 1)))
    OBVIOUS
  <2>1. n + 1 \in 1 .. N /\ n \in 0 .. N - 1 /\ (n + 1) - 1 = n
    BY <1>1
  <2>2. at(n + 1) = scan_cell(Position(n))[at(n)]
    BY <2>1, ScanByCells DEF N, at
  <2>3. at(n) \in ScanState /\ Position(n) \in Cell
    BY <1>1, <2>1, EveryPosition DEF N
  <2>4. at(n + 1) \in ScanState
    BY <2>2, <2>3, ScanCell, Zenon
  <2>5. ASSUME at(n + 1).ok PROVE ScanInv(f, n + 1, at(n + 1))
    <3>1. at(n).ok
      BY <2>2, <2>3, <2>5, ScanCell, Zenon
    <3>2. ScanInv(f, n, at(n))
      BY <1>1, <2>1, <3>1
    <3> QED BY <2>1, <2>2, <2>5, <3>1, <3>2, ScanOneCell DEF N
  <2> QED BY <2>4, <2>5
<1>5. N \in Right
  <2> HIDE DEF Right
  <2> QED BY <1>1, <1>3, <1>4, ByCounting
<1> QED BY <1>1, <1>5 DEF scan_ships, N, at

-----------------------------------------------------------------------------
(***************************************************************************)
(* The scan follows the rules                                              *)
(***************************************************************************)

\* From a cell of a ship one walks to any other over cells of the ship.
LEMMA ShipsAreStraight ==
    ASSUME FieldAssumption, NEW S \in Segments, NEW c \in S, NEW d \in S
    PROVE  \E dir \in Directions, k \in Nat :
               /\ d = Step(c, dir, k)
               /\ \A j \in 0 .. k : Step(c, dir, j) \in S
<1>1. PICK head \in Cell, delta \in {<<1, 0>>, <<0, 1>>}, n \in DOMAIN Fleet :
          S = {Step(head, delta, j) : j \in 0 .. n - 1}
  <2>1. PICK ship \in [head : Cell, delta : {<<1, 0>>, <<0, 1>>}, len : DOMAIN Fleet] :
            S = ship_cells(ship)
    BY DEF Segments
  <2>2. ship.head \in Cell /\ ship.delta \in {<<1, 0>>, <<0, 1>>} /\ ship.len \in DOMAIN Fleet
    OBVIOUS
  <2> QED BY <2>1, <2>2, Zenon DEF ship_cells
<1>2. PICK a \in 0 .. n - 1 : c = Step(head, delta, a)
  BY <1>1
<1>3. PICK b \in 0 .. n - 1 : d = Step(head, delta, b)
  BY <1>1
<1>4. n \in Nat /\ head \in Int \X Int
  BY DEF FieldAssumption, Cell, Coord
<1>5. CASE a <= b
  <2>1. \A j \in 0 .. b - a : Step(c, delta, j) = Step(head, delta, a + j) /\ a + j \in 0 .. n - 1
    BY <1>2, <1>4, <1>5 DEF Step
  <2>2. delta \in Directions /\ b - a \in Nat /\ a + (b - a) = b /\ b - a \in 0 .. b - a
    BY <1>4, <1>5 DEF Directions
  <2> QED BY <1>1, <1>3, <2>1, <2>2
<1>6. CASE b < a
  <2> DEFINE back == <<-delta[1], -delta[2]>>
  <2>1. \A j \in 0 .. a - b : Step(c, back, j) = Step(head, delta, a - j) /\ a - j \in 0 .. n - 1
    <3>1. CASE delta = <<1, 0>>
      BY <1>2, <1>4, <1>6, <3>1 DEF Step
    <3>2. CASE delta = <<0, 1>>
      BY <1>2, <1>4, <1>6, <3>2 DEF Step
    <3> QED BY <3>1, <3>2
  <2>2. back \in Directions /\ a - b \in Nat /\ a - (a - b) = b /\ a - b \in 0 .. a - b
    BY <1>4, <1>6 DEF Directions
  <2> HIDE DEF back
  <2> QED BY <1>1, <1>3, <2>1, <2>2
<1> QED BY <1>4, <1>5, <1>6

\* A step leads to a cell that touches the one left.
LEMMA StepsTouch ==
    ASSUME FieldAssumption, NEW c \in Cell, NEW dir \in Directions, NEW k \in Nat \ {0}
    PROVE  /\ Step(c, dir, k) # Step(c, dir, k - 1)
           /\ Touching(Step(c, dir, k - 1), Step(c, dir, k))
           /\ Step(c, dir, k) = Step(Step(c, dir, k - 1), dir, 1)
           /\ Step(c, dir, 0) = c
  BY DEF Step, Directions, Cell, Coord, Touching, FieldAssumption

\* Whoever walks from a separate ship over taken cells stays on the ship.
LEMMA WalkStaysOnShip ==
    ASSUME FieldAssumption, NEW taken \in SUBSET Cell, NEW S \in SUBSET taken,
           \A c \in S, d \in taken \ S : ~Touching(c, d),
           NEW c \in S, NEW dir \in Directions, NEW k \in Nat,
           \A j \in 0 .. k : Step(c, dir, j) \in taken
    PROVE  \A j \in 0 .. k : Step(c, dir, j) \in S
<1> DEFINE Off == {j \in 0 .. k : Step(c, dir, j) \notin S}
<1> SUFFICES ASSUME Off # {} PROVE FALSE
  OBVIOUS
<1>1. PICK j \in Off : \A i \in Off : j <= i
  <2>1. Off \subseteq Nat
    OBVIOUS
  <2> HIDE DEF Off
  <2> QED BY <2>1, Smallest
<1>2. j # 0
  <2>1. Step(c, dir, 0) = c
    BY DEF Step, Directions, Cell, Coord
  <2> QED BY <1>1, <2>1
<1>3. j \in Nat \ {0} /\ j - 1 \in 0 .. k /\ ~(j <= j - 1)
  BY <1>1, <1>2
<1>4. Step(c, dir, j - 1) \in S
  BY <1>1, <1>3
<1>5. Touching(Step(c, dir, j - 1), Step(c, dir, j))
  BY <1>3, StepsTouch
<1> QED BY <1>1, <1>4, <1>5

\* Two separate ships with a common cell are one.
LEMMA ShipsAreSeparate ==
    ASSUME FieldAssumption, NEW taken \in SUBSET Cell, NEW S \in Ships(taken),
           NEW T \in Ships(taken), S \cap T # {}
    PROVE  S = T
<1>1. ASSUME NEW A \in Ships(taken), NEW B \in Ships(taken), NEW c \in A, c \in B PROVE A \subseteq B
  <2> SUFFICES ASSUME NEW d \in A PROVE d \in B
    OBVIOUS
  <2>1. A \in Segments /\ A \subseteq taken
    BY DEF Ships
  <2>2. PICK dir \in Directions, k \in Nat :
            /\ d = Step(c, dir, k)
            /\ \A j \in 0 .. k : Step(c, dir, j) \in A
    BY <2>1, ShipsAreStraight
  <2>3. B \subseteq taken /\ \A a \in B, b \in taken \ B : ~Touching(a, b)
    BY DEF Ships
  <2>4. Step(c, dir, k) \in B
    <3>1. \A j \in 0 .. k : Step(c, dir, j) \in taken
      BY <2>1, <2>2
    <3>2. B \in SUBSET taken
      BY <2>3
    <3>3. \A j \in 0 .. k : Step(c, dir, j) \in B
      BY <1>1, <2>3, <3>1, <3>2, WalkStaysOnShip, Zenon
    <3> QED BY <3>3
  <2> QED BY <2>2, <2>4
<1>2. PICK c \in S \cap T : TRUE
  OBVIOUS
<1>3. S \subseteq T
  BY <1>1, <1>2, Zenon
<1>4. T \subseteq S
  BY <1>1, <1>2, Zenon
<1> QED BY <1>3, <1>4

\* A ship has as many cells as it is long.
LEMMA CellsOfShip ==
    ASSUME FieldAssumption, NEW ship \in FoundShip
    PROVE  Cardinality(ship_cells(ship)) = ship.len
<1> DEFINE Nums == 0 .. ship.len - 1
           F    == [k \in Nums |-> Step(ship.head, ship.delta, k)]
<1>1. ship.len \in Nat /\ ship.head \in Int \X Int /\ ship.delta \in {<<1, 0>>, <<0, 1>>}
  BY DEF FoundShip, FieldAssumption, Cell, Coord
<1>2. IsFiniteSet(Nums) /\ Cardinality(Nums) = ship.len
  <2>1. 0 \in Int /\ ship.len - 1 \in Int
    BY <1>1
  <2>2. /\ IsFiniteSet(Nums)
        /\ Cardinality(Nums) = IF 0 > ship.len - 1 THEN 0 ELSE (ship.len - 1) - 0 + 1
    BY <2>1, FS_Interval, Zenon
  <2> QED BY <1>1, <2>2
<1>3. F \in Bijection(Nums, ship_cells(ship))
  <2>1. \A k \in Nums : F[k] \in ship_cells(ship)
    BY DEF ship_cells
  <2>2. \A j, k \in Nums : F[j] = F[k] => j = k
    BY <1>1 DEF Step
  <2>3. \A c \in ship_cells(ship) : \E k \in Nums : F[k] = c
    BY DEF ship_cells
  <2>4. F \in [Nums -> ship_cells(ship)]
    BY <2>1
  <2> QED BY <2>2, <2>3, <2>4, Zenon DEF Bijection, Injection, Surjection, IsInjective
<1> HIDE DEF Nums, F
<1>4. ExistsBijection(Nums, ship_cells(ship))
  BY <1>3, Zenon DEF ExistsBijection
<1> QED BY <1>2, <1>4, FS_Bijection

\* A field that is accepted has been shared out among the ships noted, and these
\* are the separate ships on it.
LEMMA FoundShips ==
    ASSUME FieldAssumption, NEW f \in Field, is_valid_start_field(f)
    PROVE  LET ships == scan_ships(f).ships
           IN  /\ ships \in Seq(FoundShip)
               /\ \A i \in DOMAIN ships : ship_cells(ships[i]) \in Ships(ShipCells(f))
               /\ \A c \in ShipCells(f) : \E i \in DOMAIN ships : c \in ship_cells(ships[i])
               /\ \A i, j \in DOMAIN ships :
                      i # j => ship_cells(ships[i]) \cap ship_cells(ships[j]) = {}
               /\ \A n \in DOMAIN Fleet :
                      Cardinality({i \in DOMAIN ships : ships[i].len = n}) = Fleet[n]
<1> DEFINE s     == scan_ships(f)
           ships == s.ships
           N     == FLD_SZ * FLD_SZ
<1>1. /\ s.ok
      /\ \A n \in DOMAIN Fleet : Cardinality({i \in DOMAIN ships : ships[i].len = n}) = Fleet[n]
      /\ \A i \in DOMAIN ships : \A c \in Cell \ ship_cells(ships[i]) :
             occupied(f, c) => \A d \in ship_cells(ships[i]) : ~Touching(c, d)
  BY Zenon DEF is_valid_start_field, is_valid_field
<1>2. ScanInv(f, N, s)
  BY <1>1, ScanOfAll, Zenon
<1> HIDE DEF s, N
<1>3. s \in [rest : Field, ships : Seq(FoundShip), ok : BOOLEAN]
  BY <1>2, Zenon DEF ScanInv
<1>4. ships \in Seq(FoundShip) /\ DOMAIN ships = 1 .. Len(ships)
  BY <1>3
<1>5. ShipCells(f) = Taken(f) /\ Taken(f) \subseteq Cell
  BY DEF is_valid_start_field, ShipCells, Taken
<1> HIDE DEF ships
<1>6. /\ \A i \in DOMAIN ships : ship_cells(ships[i]) \subseteq Taken(f)
      /\ \A i, j \in DOMAIN ships : i # j => ship_cells(ships[i]) \cap ship_cells(ships[j]) = {}
      /\ \A c \in Cell : s.rest[c] = "EMPTY" <=>
             f[c] = "EMPTY" \/ \E i \in DOMAIN ships : c \in ship_cells(ships[i])
      /\ \A k \in 0 .. N - 1 : s.rest[Position(k)] = "EMPTY"
  BY <1>2, <1>4, Zenon DEF ScanInv, ships
<1>7. ASSUME NEW i \in DOMAIN ships PROVE ship_cells(ships[i]) \in Ships(ShipCells(f))
  <2> DEFINE ship == ships[i]
  <2>1. ship \in FoundShip
    BY <1>4
  <2> HIDE DEF ship
  <2>2. ship \in [head : Cell, delta : {<<1, 0>>, <<0, 1>>}, len : DOMAIN Fleet]
    BY <2>1 DEF FoundShip, FieldAssumption
  <2>3. ship_cells(ship) \subseteq Cell
    BY <1>5, <1>6 DEF ship
  <2>4. ship_cells(ship) \in Segments
    BY <2>2, <2>3, Zenon DEF Segments
  <2>5. \A c \in ship_cells(ship), d \in ShipCells(f) \ ship_cells(ship) : ~Touching(c, d)
    <3> SUFFICES ASSUME NEW c \in ship_cells(ship), NEW d \in ShipCells(f) \ ship_cells(ship)
                 PROVE  ~Touching(c, d)
      OBVIOUS
    <3>1. d \in Cell /\ occupied(f, d)
      BY <1>5 DEF occupied, get_state, contains, Taken
    <3>2. ~Touching(d, c)
      BY <1>1, <3>1, Zenon DEF ship, ships
    <3>3. c \in Cell
      BY <2>3
    <3> QED BY <3>1, <3>2, <3>3 DEF Touching, Cell, Coord, FieldAssumption
  <2> QED BY <1>5, <1>6, <2>4, <2>5 DEF Ships, ship
<1>8. ASSUME NEW c \in ShipCells(f) PROVE \E i \in DOMAIN ships : c \in ship_cells(ships[i])
  <2>1. c \in Cell /\ f[c] # "EMPTY"
    BY <1>5 DEF Taken
  <2>2. s.rest[c] = "EMPTY"
    BY <1>6, <2>1, EveryPosition, Zenon DEF N
  <2> QED BY <1>6, <2>1, <2>2
<1> QED BY <1>1, <1>4, <1>6, <1>7, <1>8, Zenon DEF ships, s

\* Separate ships that cover the occupied cells are all the ships there are, and as
\* many of each length.
LEMMA SharedOut ==
    ASSUME FieldAssumption, NEW taken \in SUBSET Cell, NEW ships \in Seq(FoundShip),
           \A i \in DOMAIN ships : ship_cells(ships[i]) \in Ships(taken),
           \A c \in taken : \E i \in DOMAIN ships : c \in ship_cells(ships[i]),
           \A i, j \in DOMAIN ships :
               i # j => ship_cells(ships[i]) \cap ship_cells(ships[j]) = {}
    PROVE  /\ UNION Ships(taken) = taken
           /\ \A n \in DOMAIN Fleet :
                  Cardinality({i \in DOMAIN ships : ships[i].len = n})
                      = Cardinality({S \in Ships(taken) : Cardinality(S) = n})
<1> DEFINE at(i) == ship_cells(ships[i])
<1>1. \A S \in Ships(taken) : S \subseteq taken
  BY DEF Ships
<1>2. UNION Ships(taken) = taken
  BY <1>1
<1>3. ASSUME NEW i \in DOMAIN ships PROVE at(i) # {} /\ Cardinality(at(i)) = ships[i].len
  <2> DEFINE ship == ships[i]
  <2>1. ship \in FoundShip
    OBVIOUS
  <2> HIDE DEF ship
  <2>2. Cardinality(ship_cells(ship)) = ship.len
    BY <2>1, CellsOfShip
  <2>3. 0 \in 0 .. ship.len - 1
    BY <2>1 DEF FoundShip, FieldAssumption
  <2>4. Step(ship.head, ship.delta, 0) \in ship_cells(ship)
    BY <2>3 DEF ship_cells
  <2> QED BY <2>2, <2>4 DEF ship
<1>4. ASSUME NEW S \in Ships(taken) PROVE \E i \in DOMAIN ships : S = at(i)
  <2>1. S \in Segments
    BY DEF Ships
  <2>2. PICK ship \in [head : Cell, delta : {<<1, 0>>, <<0, 1>>}, len : DOMAIN Fleet] :
            S = ship_cells(ship)
    BY <2>1 DEF Segments
  <2>3. 0 \in 0 .. ship.len - 1
    BY <2>2 DEF FieldAssumption
  <2>4. PICK c \in S : TRUE
    BY <2>2, <2>3 DEF ship_cells
  <2>5. c \in taken
    BY <1>1
  <2>6. PICK i \in DOMAIN ships : c \in at(i)
    BY <2>5
  <2>7. at(i) \in Ships(taken) /\ S \cap at(i) # {}
    BY <2>4, <2>6
  <2> HIDE DEF at
  <2>8. S = at(i)
    BY <2>7, ShipsAreSeparate
  <2> QED BY <2>8
<1>5. ASSUME NEW n \in DOMAIN Fleet
      PROVE  Cardinality({i \in DOMAIN ships : ships[i].len = n})
                 = Cardinality({S \in Ships(taken) : Cardinality(S) = n})
  <2> DEFINE A == {i \in DOMAIN ships : ships[i].len = n}
             B == {S \in Ships(taken) : Cardinality(S) = n}
             F == [i \in A |-> at(i)]
  <2>0. /\ \A i \in DOMAIN ships : at(i) \in Ships(taken)
        /\ \A i, j \in DOMAIN ships : i # j => at(i) \cap at(j) = {}
    BY Zenon
  <2> HIDE DEF at
  <2>1. F \in [A -> B]
    BY <1>3, <2>0
  <2>2. \A i, j \in A : F[i] = F[j] => i = j
    BY <1>3, <2>0
  <2>3. \A S \in B : \E i \in A : F[i] = S
    BY <1>3, <1>4
  <2>4. F \in Bijection(A, B)
    <3> HIDE DEF A, B, F
    <3>1. IsInjective(F)
      BY <2>1, <2>2 DEF IsInjective
    <3> QED BY <2>1, <2>3, <3>1, Zenon DEF Bijection, Injection, Surjection
  <2>5. IsFiniteSet(A)
    <3>1. DOMAIN ships = 1 .. Len(ships) /\ Len(ships) \in Nat
      OBVIOUS
    <3>2. IsFiniteSet(1 .. Len(ships))
      BY <3>1, NumbersCounted
    <3> QED BY <3>1, <3>2, FS_Subset
  <2>6. Cardinality(B) = Cardinality(A)
    <3> HIDE DEF A, B, F
    <3> QED BY <2>4, <2>5, FS_Bijection, Zenon DEF ExistsBijection
  <2> QED BY <2>6
<1> QED BY <1>2, <1>5

\* What the server accepts is a legal start: the fleet as straight ships that do
\* not touch.
THEOREM AcceptedFieldsAreLegal ==
    ASSUME FieldAssumption, NEW f \in Field, is_valid_start_field(f)
    PROVE  LegalStart(f)
<1>1. ShipCells(f) \subseteq Cell /\ ShipCells(f) # {}
  BY DEF is_valid_start_field, is_empty, ShipCells
<1> DEFINE taken == ShipCells(f)
           ships == scan_ships(f).ships
<1>2. /\ ships \in Seq(FoundShip)
      /\ \A i \in DOMAIN ships : ship_cells(ships[i]) \in Ships(taken)
      /\ \A c \in taken : \E i \in DOMAIN ships : c \in ship_cells(ships[i])
      /\ \A i, j \in DOMAIN ships :
             i # j => ship_cells(ships[i]) \cap ship_cells(ships[j]) = {}
      /\ \A n \in DOMAIN Fleet :
             Cardinality({i \in DOMAIN ships : ships[i].len = n}) = Fleet[n]
  BY FoundShips, Zenon
<1> HIDE DEF taken, ships
<1>3. /\ UNION Ships(taken) = taken
      /\ \A n \in DOMAIN Fleet :
             Cardinality({i \in DOMAIN ships : ships[i].len = n})
                 = Cardinality({S \in Ships(taken) : Cardinality(S) = n})
  <2>1. taken \in SUBSET Cell
    BY <1>1 DEF taken
  <2> QED BY <1>2, <2>1, SharedOut, Zenon
<1>4. \A n \in DOMAIN Fleet :
          Cardinality({S \in Ships(taken) : Cardinality(S) = n}) = Fleet[n]
  BY <1>2, <1>3
<1> QED BY <1>1, <1>3, <1>4 DEF taken, LegalStart, is_valid_start_field

-----------------------------------------------------------------------------
(***************************************************************************)
(* The scan finds the ships of a legal start                               *)
(***************************************************************************)

\* The number of a cell in the order of the scan.
LEMMA NumberOfPosition ==
    ASSUME FieldAssumption, NEW n \in 0 .. FLD_SZ * FLD_SZ - 1
    PROVE  n = FLD_SZ * Position(n)[2] + Position(n)[1]
<1> DEFINE q == n \div FLD_SZ
           r == n % FLD_SZ
<1>1. FLD_SZ \in Nat \ {0} /\ n \in Nat
  BY DEF FieldAssumption
<1>2. n = FLD_SZ * q + r
  BY <1>1
<1> HIDE DEF q, r
<1>3. Position(n)[1] = r /\ Position(n)[2] = q
  BY DEF Position, q, r
<1> QED BY <1>2, <1>3

\* The cell of a ship that the scan reaches first is the head of the ship.
LEMMA FirstIsHead ==
    ASSUME FieldAssumption, NEW head \in Cell, NEW delta \in {<<1, 0>>, <<0, 1>>}, NEW a \in Nat,
           NEW n \in 0 .. FLD_SZ * FLD_SZ - 1, Position(n) = Step(head, delta, a),
           \A k \in 0 .. n - 1 : Position(k) # head
    PROVE  a = 0
<1>1. PICK k \in 0 .. FLD_SZ * FLD_SZ - 1 : Position(k) = head
  BY EveryPosition, Zenon
<1>2. n = FLD_SZ * Position(n)[2] + Position(n)[1]
  BY NumberOfPosition
<1>3. k = FLD_SZ * head[2] + head[1]
  BY <1>1, NumberOfPosition
<1>4. k \in Int /\ n \in Int /\ k >= n
  <2>1. FLD_SZ * FLD_SZ \in Nat
    BY DEF FieldAssumption
  <2>2. k \notin 0 .. n - 1
    BY <1>1
  <2> QED BY <2>1, <2>2
<1>5. FLD_SZ \in Nat \ {0} /\ head[1] \in Int /\ head[2] \in Int
  BY DEF FieldAssumption, Cell, Coord
<1>6. CASE delta = <<1, 0>>
  <2>1. Position(n)[1] = head[1] + a /\ Position(n)[2] = head[2]
    BY <1>5, <1>6 DEF Step
  <2> QED BY <1>2, <1>3, <1>4, <1>5, <2>1
<1>7. CASE delta = <<0, 1>>
  <2>1. Position(n)[1] = head[1] /\ Position(n)[2] = head[2] + a
    BY <1>5, <1>7 DEF Step
  <2>2. FLD_SZ * (head[2] + a) = FLD_SZ * head[2] + FLD_SZ * a
    BY <1>5
  <2>3. FLD_SZ * a >= a
    BY <1>5
  <2>4. n = FLD_SZ * head[2] + FLD_SZ * a + head[1]
    BY <1>2, <2>1, <2>2
  <2> DEFINE p == FLD_SZ * head[2]
             q == FLD_SZ * a
  <2>5. p \in Int /\ q \in Int
    BY <1>5
  <2>6. k = p + head[1] /\ n = p + q + head[1] /\ q >= a
    BY <1>3, <2>3, <2>4
  <2> HIDE DEF p, q
  <2> QED BY <1>4, <1>5, <2>5, <2>6
<1> QED BY <1>6, <1>7

\* A run from a cell of a separate ship consists of its cells, and ends with it.
LEMMA RunIsOnShip ==
    ASSUME FieldAssumption, NEW rest \in Field, NEW taken \in SUBSET Cell,
           Taken(rest) \subseteq taken,
           NEW S \in Ships(taken), S \subseteq Taken(rest), NEW head \in S,
           NEW dir \in {<<1, 0>>, <<0, 1>>}
    PROVE  /\ RunLength(rest, head, dir) \in Nat \ {0}
           /\ \A k \in 0 .. RunLength(rest, head, dir) - 1 : Step(head, dir, k) \in S
           /\ Step(head, dir, RunLength(rest, head, dir)) \notin S
<1> DEFINE len == RunLength(rest, head, dir)
           last == len - 1
<1>1. head \in Cell /\ rest[head] # "EMPTY"
  BY DEF Taken
<1>2. /\ len \in 1 .. FLD_SZ
      /\ \A k \in 0 .. len - 1 : occupied(rest, Step(head, dir, k))
      /\ ~occupied(rest, Step(head, dir, len))
  BY <1>1, LengthOfRun
<1> HIDE DEF len
<1>3. \A c : occupied(rest, c) <=> c \in Taken(rest)
  BY DEF occupied, get_state, contains, Taken
<1>4. S \in SUBSET taken /\ \A c \in S, d \in taken \ S : ~Touching(c, d)
  BY DEF Ships
<1>5. last \in Nat /\ dir \in Directions
  BY <1>2 DEF FieldAssumption, Directions
<1>6. \A k \in 0 .. last : Step(head, dir, k) \in taken
  BY <1>2, <1>3
<1> HIDE DEF last
<1>7. \A k \in 0 .. last : Step(head, dir, k) \in S
  BY <1>4, <1>5, <1>6, WalkStaysOnShip, Zenon
<1>8. len \in Nat \ {0}
  BY <1>2 DEF FieldAssumption
<1> QED BY <1>2, <1>3, <1>7, <1>8, Zenon DEF last, len

\* At the head of a separate ship the scan finds this ship.
LEMMA HeadFindsShip ==
    ASSUME FieldAssumption, NEW rest \in Field, NEW taken \in SUBSET Cell,
           Taken(rest) \subseteq taken,
           NEW S \in Ships(taken), S \subseteq Taken(rest),
           NEW ship \in FoundShip, S = ship_cells(ship)
    PROVE  /\ ship_cells(Ship(rest, ship.head)) = S
           /\ Ship(rest, ship.head).len = ship.len
<1> DEFINE head     == ship.head
           delta    == ship.delta
           m        == ship.len
           len(dir) == RunLength(rest, head, dir)
<1>1. /\ m \in Nat \ {0} /\ head \in Int \X Int
      /\ delta \in {<<1, 0>>, <<0, 1>>}
      /\ S = {Step(head, delta, j) : j \in 0 .. m - 1}
  BY DEF FoundShip, ship_cells, FieldAssumption, Cell, Coord
<1> SUFFICES ship_cells(Ship(rest, head)) = S /\ Ship(rest, head).len = m
  OBVIOUS
<1> HIDE DEF head, delta, m
<1>2. Step(head, delta, 0) = head /\ head \in S
  <2>1. Step(head, delta, 0) = head /\ 0 \in 0 .. m - 1
    BY <1>1 DEF Step
  <2> QED BY <1>1, <2>1
<1>3. \A dir \in {<<1, 0>>, <<0, 1>>} :
          /\ len(dir) \in Nat \ {0}
          /\ \A k \in 0 .. len(dir) - 1 : Step(head, dir, k) \in S
          /\ Step(head, dir, len(dir)) \notin S
  BY <1>2, RunIsOnShip
<1>4. /\ \A dir \in {<<1, 0>>, <<0, 1>>} : len(dir) \in Nat \ {0}
      /\ \A dir \in {<<1, 0>>, <<0, 1>>} : \A k \in 0 .. len(dir) - 1 : Step(head, dir, k) \in S
  BY <1>3, Zenon
<1> HIDE DEF len
<1>5. len(delta) = m
  <2>1. len(delta) \in Nat \ {0}
    BY <1>1, <1>4
  <2>2. ~(len(delta) < m)
    <3> SUFFICES ASSUME len(delta) \in 0 .. m - 1 PROVE FALSE
      BY <1>1, <2>1
    <3>1. Step(head, delta, len(delta)) \in S
      BY <1>1
    <3> QED BY <1>1, <1>3, <3>1, Zenon
  <2>3. ~(len(delta) > m)
    <3> SUFFICES ASSUME m \in 0 .. len(delta) - 1 PROVE FALSE
      BY <1>1, <2>1
    <3>1. Step(head, delta, m) \in S
      BY <1>1, <1>4
    <3>2. PICK j \in 0 .. m - 1 : Step(head, delta, m) = Step(head, delta, j)
      BY <1>1, <3>1
    <3> QED BY <1>1, <3>2 DEF Step
  <2> QED BY <1>1, <2>1, <2>2, <2>3
<1>6. ASSUME NEW dir \in {<<1, 0>>, <<0, 1>>}, dir # delta PROVE len(dir) = 1
  <2>1. len(dir) \in Nat \ {0}
    BY <1>4
  <2>2. CASE len(dir) > 1
    <3>1. 1 \in 0 .. len(dir) - 1
      BY <2>1, <2>2
    <3>2. Step(head, dir, 1) \in S
      BY <1>4, <3>1
    <3>3. PICK j \in 0 .. m - 1 : Step(head, dir, 1) = Step(head, delta, j)
      BY <1>1, <3>2
    <3>4. head[1] \in Int /\ head[2] \in Int /\ j \in Int
      BY <1>1
    <3>5. /\ head[1] + 1 * dir[1] = head[1] + j * delta[1]
          /\ head[2] + 1 * dir[2] = head[2] + j * delta[2]
      BY <3>3 DEF Step
    <3>6. CASE dir = <<1, 0>> /\ delta = <<0, 1>>
      BY <3>4, <3>5, <3>6
    <3>7. CASE dir = <<0, 1>> /\ delta = <<1, 0>>
      BY <3>4, <3>5, <3>7
    <3> QED BY <1>1, <1>6, <3>6, <3>7
  <2> QED BY <2>1, <2>2
<1> DEFINE across == len(<<1, 0>>)
           down   == len(<<0, 1>>)
<1>7. Ship(rest, head) = IF across > 1 THEN [head |-> head, delta |-> <<1, 0>>, len |-> across]
                         ELSE [head |-> head, delta |-> <<0, 1>>, len |-> down]
  BY DEF Ship, len
<1>8. ASSUME NEW d, NEW l
       PROVE  LET found == [head |-> head, delta |-> d, len |-> l]
              IN  ship_cells(found) = {Step(head, d, j) : j \in 0 .. l - 1} /\ found.len = l
  BY DEF ship_cells
<1>9. CASE delta = <<1, 0>> /\ m > 1
  <2>1. Ship(rest, head) = [head |-> head, delta |-> delta, len |-> m]
    BY <1>5, <1>7, <1>9
  <2> QED BY <1>1, <1>8, <2>1
<1>10. CASE delta = <<0, 1>>
  <2>1. across = 1
    BY <1>6, <1>10
  <2>2. Ship(rest, head) = [head |-> head, delta |-> delta, len |-> m]
    BY <1>5, <1>7, <1>10, <2>1
  <2> QED BY <1>1, <1>8, <2>2
<1>11. CASE delta = <<1, 0>> /\ m = 1
  <2>1. across = 1 /\ down = 1
    BY <1>5, <1>6, <1>11
  <2>2. Ship(rest, head) = [head |-> head, delta |-> <<0, 1>>, len |-> m]
    BY <1>7, <1>11, <2>1
  <2>3. \A j \in 0 .. m - 1 : Step(head, delta, j) = Step(head, <<0, 1>>, j)
    BY <1>1, <1>11 DEF Step
  <2>4. {Step(head, delta, j) : j \in 0 .. m - 1} = {Step(head, <<0, 1>>, j) : j \in 0 .. m - 1}
    BY <2>3
  <2>5. S = {Step(head, <<0, 1>>, j) : j \in 0 .. m - 1}
    BY <1>1, <2>4
  <2> QED BY <1>8, <2>2, <2>5
<1> QED BY <1>1, <1>9, <1>10, <1>11

-----------------------------------------------------------------------------
(***************************************************************************)
(* The scan accepts every legal start                                      *)
(***************************************************************************)

\* The ships of all lengths are counted length by length.
LEMMA ShipsUpToByLength ==
    ASSUME FieldAssumption
    PROVE  /\ ShipsUpTo[0] = 0
           /\ \A n \in 1 .. Len(Fleet) : ShipsUpTo[n] = ShipsUpTo[n - 1] + Fleet[n]
<1> DEFINE Next(h, n) == IF n = 0 THEN 0 ELSE h[n - 1] + Fleet[n]
           Sums(m, h) == h = [n \in 0 .. m |-> Next(h, n)]
           Summed == {m \in Nat : \E h : Sums(m, h)}
<1>1. 0 \in Summed
  <2> DEFINE h == [n \in 0 .. 0 |-> 0]
  <2>1. \A n \in 0 .. 0 : Next(h, n) = 0
    OBVIOUS
  <2>2. Sums(0, h)
    BY <2>1, Zenon
  <2> QED BY <2>2
<1>2. ASSUME NEW m \in Summed PROVE m + 1 \in Summed
  <2>1. PICK h : Sums(m, h)
    BY <1>2
  <2> DEFINE g == [n \in 0 .. m + 1 |-> IF n = m + 1 THEN Next(h, n) ELSE h[n]]
  <2> HIDE DEF Next
  <2>2. ASSUME NEW n \in 0 .. m + 1 PROVE g[n] = Next(g, n)
    <3>1. n = 0 \/ g[n - 1] = h[n - 1]
      BY SMT
    <3>2. Next(g, n) = Next(h, n)
      BY <3>1, SMT DEF Next
    <3>3. n # m + 1 => h[n] = Next(h, n)
      <4>1. n # m + 1 => n \in 0 .. m
        BY SMT
      <4> QED BY <2>1, <4>1, Zenon
    <3> QED BY <3>2, <3>3, SMT
  <2>3. g = [n \in 0 .. m + 1 |-> g[n]]
    BY Zenon
  <2>4. Sums(m + 1, g)
    BY <2>2, <2>3, Zenon
  <2> QED BY <2>4, SMT
<1>3. Len(Fleet) \in Summed
  <2>1. Len(Fleet) \in Nat
    BY DEF FieldAssumption
  <2> HIDE DEF Summed
  <2> QED BY <1>1, <1>2, <2>1, ByCounting
<1>4. Sums(Len(Fleet), ShipsUpTo)
  <2>1. PICK h : Sums(Len(Fleet), h)
    BY <1>3
  <2>2. ShipsUpTo = CHOOSE g : Sums(Len(Fleet), g)
    BY Zenon DEF ShipsUpTo
  <2> QED BY <2>1, <2>2, Zenon
<1>5. \A n \in 0 .. Len(Fleet) : ShipsUpTo[n] = Next(ShipsUpTo, n)
  BY <1>4, Zenon
<1> HIDE DEF Sums
<1> QED BY <1>5 DEF FieldAssumption

\* A ship is straight and as long as one of the fleet.
LEMMA ShapeOfShip ==
    ASSUME FieldAssumption, NEW taken, NEW S \in Ships(taken)
    PROVE  /\ Cardinality(S) \in DOMAIN Fleet
           /\ \E ship \in FoundShip : S = ship_cells(ship)
<1>1. PICK ship \in [head : Cell, delta : {<<1, 0>>, <<0, 1>>}, len : DOMAIN Fleet] :
          S = ship_cells(ship)
  BY DEF Ships, Segments
<1>2. ship \in FoundShip
  BY <1>1 DEF FoundShip, FieldAssumption
<1>3. Cardinality(S) = ship.len
  BY <1>1, <1>2, CellsOfShip
<1>4. ship.len \in DOMAIN Fleet
  BY <1>1
<1> QED BY <1>1, <1>2, <1>3, <1>4, Zenon

\* A legal start has SHIP_COUNT ships.
LEMMA CountOfShips ==
    ASSUME FieldAssumption, NEW f \in Field, LegalStart(f)
    PROVE  /\ IsFiniteSet(Ships(ShipCells(f)))
           /\ Cardinality(Ships(ShipCells(f))) = SHIP_COUNT
<1> DEFINE All     == Ships(ShipCells(f))
           Of(n)   == {S \in All : Cardinality(S) = n}
           UpTo(n) == {S \in All : Cardinality(S) \in 1 .. n}
<1>1. Len(Fleet) \in Nat /\ DOMAIN Fleet = 1 .. Len(Fleet)
      /\ \A n \in 1 .. Len(Fleet) : Fleet[n] \in Nat
  BY DEF FieldAssumption
<1>2. IsFiniteSet(All)
  <2>1. IsFiniteSet(Coord)
    BY NumbersCounted DEF FieldAssumption, Coord
  <2>2. IsFiniteSet(Cell)
    BY <2>1, FS_Product DEF Cell
  <2>3. IsFiniteSet(SUBSET Cell)
    BY <2>2, FS_SUBSET
  <2>4. All \in SUBSET (SUBSET Cell)
    BY DEF Ships, Segments
  <2> QED BY <2>3, <2>4, FS_Subset
<1>3. \A S \in All : Cardinality(S) \in 1 .. Len(Fleet)
  BY <1>1, ShapeOfShip
<1>4. \A n \in 1 .. Len(Fleet) : Cardinality(Of(n)) = Fleet[n]
  BY <1>1 DEF LegalStart
<1> HIDE DEF All
<1>5. \A n : IsFiniteSet(Of(n)) /\ IsFiniteSet(UpTo(n))
  BY <1>2, FS_Subset
<1> DEFINE Counted == {n \in Nat : n <= Len(Fleet) => Cardinality(UpTo(n)) = ShipsUpTo[n]}
<1>6. 0 \in Counted
  <2>1. UpTo(0) = {}
    OBVIOUS
  <2> QED BY <2>1, ShipsUpToByLength, FS_EmptySet
<1>7. ASSUME NEW n \in Counted PROVE n + 1 \in Counted
  <2> SUFFICES ASSUME n + 1 <= Len(Fleet)
               PROVE  Cardinality(UpTo(n + 1)) = ShipsUpTo[n + 1]
    OBVIOUS
  <2>1. n + 1 \in 1 .. Len(Fleet) /\ (n + 1) - 1 = n /\ n <= Len(Fleet)
    BY <1>1
  <2>2. Cardinality(UpTo(n)) = ShipsUpTo[n] /\ Cardinality(Of(n + 1)) = Fleet[n + 1]
    BY <1>4, <2>1
  <2>3. UpTo(n + 1) = UpTo(n) \cup Of(n + 1) /\ UpTo(n) \cap Of(n + 1) = {}
    BY <1>3
  <2> HIDE DEF UpTo, Of
  <2>4. Cardinality(UpTo(n) \cup Of(n + 1))
            = Cardinality(UpTo(n)) + Cardinality(Of(n + 1)) - Cardinality({})
    BY <1>5, <2>3, FS_Union
  <2>5. Cardinality({}) = 0 /\ Cardinality(UpTo(n)) \in Nat /\ Cardinality(Of(n + 1)) \in Nat
    BY <1>5, FS_EmptySet, FS_CardinalityType
  <2>6. ShipsUpTo[n + 1] = ShipsUpTo[n] + Fleet[n + 1]
    BY <2>1, ShipsUpToByLength
  <2>7. \A a, b \in Nat : a + b - 0 = a + b
    OBVIOUS
  <2>8. Cardinality(UpTo(n + 1)) = Cardinality(UpTo(n)) + Cardinality(Of(n + 1))
    BY <2>3, <2>4, <2>5, <2>7, Zenon
  <2> QED BY <2>2, <2>6, <2>8, Zenon
<1>8. Len(Fleet) \in Counted
  <2> HIDE DEF Counted
  <2> QED BY <1>1, <1>6, <1>7, ByCounting
<1>9. UpTo(Len(Fleet)) = All
  BY <1>3
<1>10. Cardinality(UpTo(Len(Fleet))) = ShipsUpTo[Len(Fleet)]
  BY <1>1, <1>8
<1> HIDE DEF UpTo
<1> QED BY <1>2, <1>9, <1>10, Zenon DEF All, SHIP_COUNT

\* On a legal start nothing is wrong so far and all ships noted are ships.
LegalInv(f, n, s) ==
    /\ s.ok
    /\ ScanInv(f, n, s)
    /\ \A i \in DOMAIN s.ships : ship_cells(s.ships[i]) \in Ships(ShipCells(f))

\* The ships noted are fewer than those of the fleet, as long as one is missing.
LEMMA RoomForShip ==
    ASSUME FieldAssumption, NEW f \in Field, LegalStart(f),
           NEW ships \in Seq(FoundShip),
           \A i \in DOMAIN ships : ship_cells(ships[i]) \in Ships(ShipCells(f)),
           \A i, j \in DOMAIN ships :
               i # j => ship_cells(ships[i]) \cap ship_cells(ships[j]) = {},
           NEW S \in Ships(ShipCells(f)),
           \A i \in DOMAIN ships : ship_cells(ships[i]) # S
    PROVE  Len(ships) # SHIP_COUNT
<1> DEFINE All    == Ships(ShipCells(f))
           Others == All \ {S}
           at(i)  == ship_cells(ships[i])
           F      == [i \in DOMAIN ships |-> at(i)]
<1>1. IsFiniteSet(All) /\ Cardinality(All) = SHIP_COUNT /\ S \in All
  BY CountOfShips
<1>2. Len(ships) \in Nat /\ DOMAIN ships = 1 .. Len(ships)
  OBVIOUS
<1>3. \A i \in DOMAIN ships : at(i) # {}
  <2> SUFFICES ASSUME NEW i \in DOMAIN ships PROVE at(i) # {}
    OBVIOUS
  <2> DEFINE ship == ships[i]
  <2>1. ship \in FoundShip
    OBVIOUS
  <2> HIDE DEF ship
  <2>2. 0 \in 0 .. ship.len - 1
    BY <2>1 DEF FoundShip, FieldAssumption
  <2> QED BY <2>2 DEF ship_cells, ship
<1>4. /\ \A i \in DOMAIN ships : at(i) \in Others
      /\ \A i, j \in DOMAIN ships : i # j => at(i) \cap at(j) = {}
  BY Zenon
<1> HIDE DEF All, Others, at
<1>5. F \in Injection(DOMAIN ships, Others)
  <2>1. F \in [DOMAIN ships -> Others]
    BY <1>4
  <2>2. \A i, j \in DOMAIN ships : F[i] = F[j] => i = j
    BY <1>3, <1>4
  <2> HIDE DEF F
  <2>3. IsInjective(F)
    BY <2>1, <2>2 DEF IsInjective
  <2> QED BY <2>1, <2>3, Zenon DEF Injection
<1>6. IsFiniteSet(Others) /\ Cardinality(Others) = Cardinality(All) - 1
  BY <1>1, FS_RemoveElement DEF Others
<1>7. Cardinality(DOMAIN ships) = Len(ships)
  BY <1>2, NumbersCounted
<1>8. Cardinality(DOMAIN ships) <= Cardinality(Others)
  <2> HIDE DEF F
  <2> QED BY <1>5, <1>6, FS_Injection
<1>9. Cardinality(All) \in Nat
  BY <1>1, FS_CardinalityType
<1> QED BY <1>1, <1>2, <1>6, <1>7, <1>8, <1>9

\* The scan notes another ship of a legal start, and no more.
LEMMA LegalScanOneCell ==
    ASSUME FieldAssumption, NEW f \in Field, LegalStart(f),
           NEW n \in 0 .. FLD_SZ * FLD_SZ - 1, NEW s, LegalInv(f, n, s)
    PROVE  LegalInv(f, n + 1, scan_cell(Position(n))[s])
<1> DEFINE point == Position(n)
           taken == ShipCells(f)
           t     == scan_cell(point)[s]
           ship  == Ship(s.rest, point)
<1>1. point \in Cell /\ s.ok /\ ScanInv(f, n, s) /\ s \in ScanState
  BY EveryPosition DEF LegalInv, ScanInv, ScanState
<1>2. t.ok => ScanInv(f, n + 1, t)
  BY <1>1, ScanOneCell
<1>3. CASE ~occupied(s.rest, point)
  <2>1. t = s
    BY <1>1, <1>3, ScanCell, Zenon
  <2> QED BY <1>1, <1>2, <2>1 DEF LegalInv
<1>4. CASE occupied(s.rest, point)
  <2>1. /\ s.rest \in Field /\ s.ships \in Seq(FoundShip)
        /\ s \in [rest : Field, ships : Seq(FoundShip), ok : BOOLEAN]
    BY <1>1 DEF ScanInv
  <2>2. taken \in SUBSET Cell /\ Taken(f) = taken /\ UNION Ships(taken) = taken
    BY DEF ShipCells, Taken, LegalStart
  <2>3. Taken(s.rest) \subseteq taken
    <3> SUFFICES ASSUME NEW c \in Cell, s.rest[c] # "EMPTY" PROVE c \in taken
      BY DEF Taken
    <3>1. f[c] # "EMPTY"
      BY <1>1 DEF ScanInv
    <3> QED BY <2>2, <3>1 DEF Taken
  <2>4. point \in Taken(s.rest)
    BY <1>4 DEF occupied, get_state, contains, Taken
  <2>5. PICK S \in Ships(taken) : point \in S
    BY <2>2, <2>3, <2>4
  <2>6. S \subseteq taken
    BY DEF Ships
  <2>7. \A i \in DOMAIN s.ships : ship_cells(s.ships[i]) \cap S = {}
    <3> SUFFICES ASSUME NEW i \in DOMAIN s.ships, ship_cells(s.ships[i]) \cap S # {} PROVE FALSE
      OBVIOUS
    <3>1. ship_cells(s.ships[i]) \in Ships(taken)
      BY DEF LegalInv
    <3>2. ship_cells(s.ships[i]) = S
      BY <2>2, <3>1, ShipsAreSeparate
    <3>3. i \in 1 .. Len(s.ships)
      BY <2>1
    <3>4. s.rest[point] = "EMPTY"
      BY <1>1, <2>5, <3>2, <3>3 DEF ScanInv
    <3> QED BY <2>4, <3>4 DEF Taken
  <2>8. S \subseteq Taken(s.rest)
    <3> SUFFICES ASSUME NEW c \in S PROVE c \in Taken(s.rest)
      OBVIOUS
    <3>1. c \in Cell /\ f[c] # "EMPTY"
      BY <2>2, <2>6 DEF Taken
    <3>2. DOMAIN s.ships = 1 .. Len(s.ships)
      BY <2>1
    <3>3. s.rest[c] # "EMPTY"
      BY <1>1, <2>7, <3>1, <3>2 DEF ScanInv
    <3> QED BY <3>1, <3>3 DEF Taken
  <2>9. PICK own \in FoundShip : S = ship_cells(own)
    BY ShapeOfShip, Zenon
  <2> DEFINE head  == own.head
             delta == own.delta
             m     == own.len
  <2>10. PICK a \in 0 .. m - 1 : point = Step(head, delta, a)
    BY <2>5, <2>9 DEF ship_cells
  <2>11. /\ m \in Nat \ {0} /\ a \in Nat /\ 0 \in 0 .. m - 1 /\ m <= Len(Fleet)
         /\ head \in Cell /\ delta \in {<<1, 0>>, <<0, 1>>}
    BY DEF FoundShip, FieldAssumption
  <2>12. Step(head, delta, 0) = head
    BY <2>11 DEF Step, Cell, Coord
  <2>13. head \in S
    BY <2>9, <2>11, <2>12 DEF ship_cells
  <2>14. \A k \in 0 .. n - 1 : Position(k) # head
    <3> SUFFICES ASSUME NEW k \in 0 .. n - 1, Position(k) = head PROVE FALSE
      OBVIOUS
    <3>1. s.rest[head] = "EMPTY"
      BY <1>1 DEF ScanInv
    <3> QED BY <2>8, <2>13, <3>1 DEF Taken
  <2> HIDE DEF head, delta, m
  <2>15. point = head
    <3>1. a = 0
      BY <2>10, <2>11, <2>14, FirstIsHead
    <3> QED BY <2>10, <2>12, <3>1
  <2> HIDE DEF point, taken
  <2>16. ship_cells(ship) = S /\ ship.len = m
    <3>1. ship_cells(Ship(s.rest, own.head)) = S /\ Ship(s.rest, own.head).len = own.len
      BY <2>1, <2>2, <2>3, <2>8, <2>9, HeadFindsShip, Zenon
    <3> QED BY <2>15, <3>1, Zenon DEF ship, head, m
  <2>17. Len(s.ships) # SHIP_COUNT
    <3>1. \A i \in DOMAIN s.ships : ship_cells(s.ships[i]) \in Ships(ShipCells(f))
      BY DEF LegalInv
    <3>2. DOMAIN s.ships = 1 .. Len(s.ships)
      BY <2>1
    <3>3. \A i, j \in DOMAIN s.ships :
              i # j => ship_cells(s.ships[i]) \cap ship_cells(s.ships[j]) = {}
      BY <1>1, <3>2, Zenon DEF ScanInv
    <3>4. \A i \in DOMAIN s.ships : ship_cells(s.ships[i]) # S
      BY <2>5, <2>7
    <3> QED BY <2>1, <3>1, <3>3, <3>4, RoomForShip DEF taken
  <2> HIDE DEF ship
  <2>18. t = [rest |-> remove_ship(s.rest, ship), ships |-> Append(s.ships, ship), ok |-> TRUE]
    <3>1. ~(ship.len > Len(Fleet))
      BY <2>11, <2>16 DEF FieldAssumption
    <3> QED BY <1>1, <1>4, <2>17, <3>1, ScanCell, Zenon DEF ship
  <2>19. t.ok /\ t.ships = Append(s.ships, ship)
    BY <2>18
  <2>20. ScanInv(f, n + 1, t)
    BY <1>2, <2>19
  <2>21. \A i \in DOMAIN t.ships : (i \in DOMAIN s.ships /\ t.ships[i] = s.ships[i]) \/ t.ships[i] = ship
    <3>1. ship \in FoundShip
      <4>1. t.ships \in Seq(FoundShip)
        BY <2>20 DEF ScanInv
      <4>2. t.ships[Len(s.ships) + 1] = ship /\ Len(s.ships) + 1 \in DOMAIN t.ships
        BY <2>1, <2>19
      <4> QED BY <4>1, <4>2
    <3> QED BY <2>1, <2>19, <3>1
  <2> HIDE DEF t
  <2>22. \A i \in DOMAIN t.ships : ship_cells(t.ships[i]) \in Ships(taken)
    BY <2>16, <2>21 DEF LegalInv, taken
  <2> QED BY <2>19, <2>20, <2>22, Zenon DEF LegalInv, taken, t, point
<1> QED BY <1>3, <1>4

\* Two cells touch each other.
LEMMA TouchingIsMutual ==
    ASSUME FieldAssumption, NEW c \in Cell, NEW d \in Cell
    PROVE  Touching(c, d) <=> Touching(d, c)
  BY DEF Touching, Cell, Coord, FieldAssumption

\* A legal start is accepted.
THEOREM LegalFieldsAreAccepted ==
    ASSUME FieldAssumption, NEW f \in Field, LegalStart(f)
    PROVE  is_valid_start_field(f)
<1> DEFINE N     == FLD_SZ * FLD_SZ
           at(n) == scanned(f)[n]
           s     == scan_ships(f)
           Right == {n \in Nat : n <= N => LegalInv(f, n, at(n))}
<1>1. N \in Nat
  BY DEF FieldAssumption
<1> HIDE DEF N, at
<1>2. LegalInv(f, 0, at(0))
  <2>1. at(0) = FirstScan(f)
    BY ScanByCells DEF at
  <2>2. FirstScan(f).ok /\ FirstScan(f).ships = <<>> /\ DOMAIN <<>> = {}
    BY DEF FirstScan
  <2> QED BY <2>1, <2>2, NothingFound DEF LegalInv
<1>3. 0 \in Right
  BY <1>2
<1>4. ASSUME NEW n \in Right, n \in Nat PROVE n + 1 \in Right
  <2> SUFFICES ASSUME n + 1 <= N PROVE LegalInv(f, n + 1, at(n + 1))
    OBVIOUS
  <2>1. n + 1 \in 1 .. N /\ n \in 0 .. N - 1 /\ (n + 1) - 1 = n /\ n <= N
    BY <1>1
  <2>2. at(n + 1) = scan_cell(Position(n))[at(n)]
    BY <2>1, ScanByCells DEF N, at
  <2>3. LegalInv(f, n, at(n))
    BY <2>1
  <2> QED BY <2>1, <2>2, <2>3, LegalScanOneCell DEF N
<1>5. N \in Right
  <2> HIDE DEF Right
  <2> QED BY <1>1, <1>3, <1>4, ByCounting
<1>6. LegalInv(f, N, s)
  BY <1>1, <1>5 DEF scan_ships, N, at
<1> DEFINE taken == ShipCells(f)
           ships == s.ships
<1> HIDE DEF s
<1>7. /\ s.ok /\ ScanInv(f, N, s)
      /\ \A i \in DOMAIN ships : ship_cells(ships[i]) \in Ships(taken)
  BY <1>6 DEF LegalInv
<1>8. s \in [rest : Field, ships : Seq(FoundShip), ok : BOOLEAN]
  BY <1>7, Zenon DEF ScanInv
<1>9. ships \in Seq(FoundShip) /\ DOMAIN ships = 1 .. Len(ships)
  BY <1>8
<1> HIDE DEF ships
<1>10. /\ \A i, j \in DOMAIN ships : i # j => ship_cells(ships[i]) \cap ship_cells(ships[j]) = {}
       /\ \A c \in Cell : s.rest[c] = "EMPTY" <=>
              f[c] = "EMPTY" \/ \E i \in DOMAIN ships : c \in ship_cells(ships[i])
       /\ \A k \in 0 .. N - 1 : s.rest[Position(k)] = "EMPTY"
  BY <1>7, <1>9, Zenon DEF ScanInv, ships
<1>11. taken \in SUBSET Cell /\ \A c \in Cell : f[c] # "EMPTY" <=> c \in taken
  BY DEF LegalStart, ShipCells
<1>12. \A c \in taken : \E i \in DOMAIN ships : c \in ship_cells(ships[i])
  <2> SUFFICES ASSUME NEW c \in taken PROVE \E i \in DOMAIN ships : c \in ship_cells(ships[i])
    OBVIOUS
  <2>1. c \in Cell /\ f[c] # "EMPTY"
    BY <1>11
  <2>2. s.rest[c] = "EMPTY"
    BY <1>10, <2>1, EveryPosition, Zenon DEF N
  <2> QED BY <1>10, <2>1, <2>2
<1> HIDE DEF taken
<1>13. \A n \in DOMAIN Fleet :
           Cardinality({i \in DOMAIN ships : ships[i].len = n})
               = Cardinality({S \in Ships(taken) : Cardinality(S) = n})
  <2>1. \A i, j \in DOMAIN ships : i # j => ship_cells(ships[i]) \cap ship_cells(ships[j]) = {}
    BY <1>10, Zenon
  <2>2. \A i \in DOMAIN ships : ship_cells(ships[i]) \in Ships(taken)
    BY <1>7, Zenon
  <2>3. ships \in Seq(FoundShip) /\ taken \in SUBSET Cell
    BY <1>9, <1>11, Zenon
  <2> QED BY <1>12, <2>1, <2>2, <2>3, SharedOut, Zenon
<1>14. \A n \in DOMAIN Fleet : Cardinality({i \in DOMAIN ships : ships[i].len = n}) = Fleet[n]
  <2>1. \A n \in DOMAIN Fleet :
            Cardinality({S \in Ships(taken) : Cardinality(S) = n}) = Fleet[n]
    BY DEF LegalStart, taken
  <2> QED BY <1>13, <2>1
<1>15. \A i \in DOMAIN ships : \A c \in Cell \ ship_cells(ships[i]) :
           occupied(f, c) => \A d \in ship_cells(ships[i]) : ~Touching(c, d)
  <2> SUFFICES ASSUME NEW i \in DOMAIN ships, NEW c \in Cell, c \notin ship_cells(ships[i]),
                      occupied(f, c), NEW d \in ship_cells(ships[i])
               PROVE  ~Touching(c, d)
    OBVIOUS
  <2>1. c \in taken
    BY <1>11 DEF occupied, get_state, contains
  <2>2. ship_cells(ships[i]) \in Ships(taken)
    BY <1>7
  <2>3. d \in taken /\ ~Touching(d, c)
    BY <2>1, <2>2 DEF Ships
  <2>4. d \in Cell
    BY <1>11, <2>3
  <2> QED BY <2>3, <2>4, TouchingIsMutual, Zenon
<1>16. is_valid_field(f)
  BY <1>7, <1>14, <1>15, Zenon DEF is_valid_field, ships, s
<1>17. ~is_empty(f) /\ \A c \in Cell : f[c] \in {"EMPTY", "UNHARMED"}
  BY DEF LegalStart, ShipCells, is_empty
<1> QED BY <1>16, <1>17 DEF is_valid_start_field

-----------------------------------------------------------------------------
(***************************************************************************)
(* Shots follow the rules                                                  *)
(***************************************************************************)

\* What a hit does to a board that follows the rules: the four walks from it
\* cover the ship that is hit if that is now destroyed, and find an unharmed cell
\* of it otherwise.
LEMMA WalksFindShip ==
    ASSUME FieldAssumption, NEW g \in Field, NEW taken \in SUBSET Cell, NEW shots,
           \A c \in Cell : g[c] = "DAMAGED" <=> c \in taken /\ c \in shots,
           \A c \in Cell : g[c] = "UNHARMED" <=> c \in taken /\ c \notin shots,
           NEW S \in Ships(taken), NEW point \in S, point \in shots
    PROVE  /\ ship_destroyed(g, point) <=> S \subseteq shots
           /\ S \subseteq shots =>
                  UNION {DamagedRun(g, point, dir) : dir \in Directions} = S
<1> DEFINE Run(dir) == DamagedRun(g, point, dir)
<1>1. /\ S \in Segments /\ S \subseteq taken /\ taken \subseteq Cell
      /\ \A c \in S, d \in taken \ S : ~Touching(c, d)
  BY DEF Ships
<1>2. point \in Cell /\ g[point] = "DAMAGED" /\ get_state(g, point) = "DAMAGED"
  BY <1>1 DEF get_state, contains
<1>3. \A c : /\ get_state(g, c) = "DAMAGED" <=> c \in taken /\ c \in shots
             /\ get_state(g, c) = "UNHARMED" <=> c \in taken /\ c \notin shots
  BY <1>1 DEF get_state, contains
<1>4. ASSUME NEW dir \in Directions, NEW c \in Run(dir)
      PROVE  c \in S /\ \E k \in Nat : c = Step(point, dir, k) /\ Step(c, dir, 1) = Step(point, dir, k + 1)
  <2>1. PICK k \in Coord : /\ c = Step(point, dir, k)
                           /\ \A j \in 0 .. k : get_state(g, Step(point, dir, j)) = "DAMAGED"
    BY <1>4 DEF DamagedRun
  <2>2. k \in Nat /\ k \in 0 .. k
    BY DEF Coord, FieldAssumption
  <2>3. \A j \in 0 .. k : Step(point, dir, j) \in taken
    BY <1>3, <2>1
  <2>4. S \in SUBSET taken
    BY <1>1
  <2>5. \A j \in 0 .. k : Step(point, dir, j) \in S
    BY <1>1, <2>2, <2>3, <2>4, WalkStaysOnShip, Zenon
  <2>6. k + 1 \in Nat \ {0} /\ (k + 1) - 1 = k
    BY <2>2
  <2>7. Step(point, dir, k + 1) = Step(Step(point, dir, k), dir, 1)
    BY <1>2, <2>6, StepsTouch
  <2> QED BY <2>1, <2>2, <2>5, <2>7
<1>5. ASSUME NEW c \in S, NEW dir \in Directions, NEW k \in Nat, c = Step(point, dir, k),
             \A j \in 0 .. k : Step(point, dir, j) \in S /\ Step(point, dir, j) \in shots
      PROVE  c \in Run(dir)
  <2>1. k \in Coord
    <3>1. c \in Cell
      BY <1>1
    <3>2. k < FLD_SZ
      BY <1>2, <1>5, <3>1, StepsOnBoard
    <3> QED BY <3>2 DEF Coord, FieldAssumption
  <2>2. \A j \in 0 .. k : get_state(g, Step(point, dir, j)) = "DAMAGED"
    BY <1>1, <1>3, <1>5
  <2> QED BY <1>5, <2>1, <2>2 DEF DamagedRun
<1>6. ASSUME S \subseteq shots PROVE ship_destroyed(g, point)
  <2> SUFFICES ASSUME NEW dir \in Directions, NEW c \in Run(dir)
               PROVE  get_state(g, Step(c, dir, 1)) # "UNHARMED"
    BY <1>2 DEF ship_destroyed
  <2>1. c \in S /\ c \in Cell
    BY <1>1, <1>4
  <2>2. Touching(c, Step(c, dir, 1))
    BY <2>1 DEF Touching, Step, Directions, Cell, Coord, FieldAssumption
  <2> QED BY <1>1, <1>3, <1>6, <2>1, <2>2
<1>7. ASSUME ~(S \subseteq shots) PROVE ~ship_destroyed(g, point)
  <2>1. PICK d \in S : d \notin shots
    BY <1>7
  <2>2. PICK dir \in Directions, n \in Nat :
            d = Step(point, dir, n) /\ \A j \in 0 .. n : Step(point, dir, j) \in S
    BY <1>1, ShipsAreStraight
  <2> DEFINE Unharmed == {j \in 0 .. n : Step(point, dir, j) \notin shots}
  <2>3. n \in Unharmed /\ Unharmed \subseteq Nat
    BY <2>1, <2>2
  <2>4. PICK k \in Unharmed : \A j \in Unharmed : k <= j
    <3> HIDE DEF Unharmed
    <3> QED BY <2>3, Smallest
  <2>5. k # 0
    <3>1. Step(point, dir, 0) = point
      BY <1>2 DEF Step, Cell, Coord, Directions
    <3> QED BY <2>4, <3>1
  <2>6. k \in Nat \ {0} /\ k - 1 \in Nat /\ k \in 0 .. n /\ k - 1 \in 0 .. n
    BY <2>4, <2>5
  <2>7. \A j \in 0 .. k - 1 : Step(point, dir, j) \in S /\ Step(point, dir, j) \in shots
    <3>1. \A j \in 0 .. k - 1 : j \in 0 .. n /\ ~(k <= j)
      BY <2>6
    <3> QED BY <2>2, <2>4, <3>1
  <2>8. Step(point, dir, k - 1) \in Run(dir)
    BY <1>5, <2>2, <2>6, <2>7
  <2>9. Step(Step(point, dir, k - 1), dir, 1) = Step(point, dir, k)
    BY <1>2, <2>6, StepsTouch
  <2>10. get_state(g, Step(point, dir, k)) = "UNHARMED"
    BY <1>1, <1>3, <2>2, <2>4, <2>6
  <2> QED BY <2>8, <2>9, <2>10, Zenon DEF ship_destroyed
<1>8. ASSUME S \subseteq shots, NEW c \in S PROVE \E dir \in Directions : c \in Run(dir)
  <2>1. PICK dir \in Directions, k \in Nat :
            c = Step(point, dir, k) /\ \A j \in 0 .. k : Step(point, dir, j) \in S
    BY <1>1, ShipsAreStraight
  <2> QED BY <1>5, <1>8, <2>1
<1>9. S \subseteq shots => UNION {Run(dir) : dir \in Directions} = S
  <2> HIDE DEF Run
  <2> QED BY <1>4, <1>8
<1> QED BY <1>6, <1>7, <1>9

\* register_shot does what the rules say, whatever was shot at before: on a board
\* with a legal start, of any size and with any fleet.
THEOREM ShotFollowsRules ==
    ASSUME FieldAssumption, NEW start \in Field, LegalStart(start), NEW shots \in SUBSET Cell,
           NEW point
    PROVE  register_shot(BoardAfter(start, shots), point)
               = BoardAfter(start, IF contains(point) THEN shots \cup {point} ELSE shots)
<1> DEFINE taken  == ShipCells(start)
           sunk(s) == UNION {S \in Ships(taken) : S \subseteq s}
           f      == BoardAfter(start, shots)
           after  == shots \cup {point}
           g      == [f EXCEPT ![point] = "DAMAGED"]
           At(s, c) == IF c \in taken
                         THEN IF c \in s THEN "DAMAGED" ELSE "UNHARMED"
                         ELSE IF c \in s \/ \E d \in sunk(s) : Touching(c, d)
                                THEN "MISSED" ELSE "EMPTY"
<1>1. \A s : BoardAfter(start, s) = [c \in Cell |-> At(s, c)]
  BY DEF BoardAfter
<1>2. taken \subseteq Cell /\ UNION Ships(taken) = taken
  BY DEF ShipCells, LegalStart
<1> HIDE DEF taken
<1>3. f \in Field /\ \A c \in Cell : f[c] = At(shots, c)
  <2> HIDE DEF f
  <2>1. f = [c \in Cell |-> At(shots, c)]
    BY <1>1 DEF f
  <2>2. \A c \in Cell : At(shots, c) \in CellState
    BY DEF CellState
  <2> HIDE DEF At
  <2> QED BY <2>1, <2>2 DEF Field
<1>4. CASE point \notin Cell
  <2>1. shot_result(f, point) = "EMPTY"
    BY <1>3, <1>4, ResultOfShot
  <2> QED BY <1>4, <2>1 DEF register_shot, contains
<1>5. ASSUME point \in Cell, point \notin taken \/ point \in shots
      PROVE  \A S \in Ships(taken) : S \subseteq after => S \subseteq shots
  BY <1>5 DEF Ships
<1>6. CASE point \in Cell /\ (point \notin taken \/ point \in shots)
  <2>1. sunk(after) = sunk(shots)
    BY <1>5, <1>6
  <2>2. \A c \in Cell \ {point} : At(after, c) = At(shots, c)
    BY <2>1
  <2>3. contains(point) /\ get_state(f, point) = f[point] /\ f[point] = At(shots, point)
    BY <1>3, <1>6 DEF contains, get_state
  <2>4. register_shot(f, point) = [c \in Cell |-> At(after, c)]
    <3>1. CASE f[point] = "EMPTY"
      <4>1. register_shot(f, point) = [f EXCEPT ![point] = "MISSED"]
        <5>1. shot_result(f, point) = "MISSED"
          BY <1>3, <1>6, <3>1, ResultOfShot
        <5> HIDE DEF f
        <5> QED BY <5>1 DEF register_shot
      <4>2. At(after, point) = "MISSED"
        BY <1>6, <2>3, <3>1
      <4> HIDE DEF f, At
      <4> QED BY <1>3, <2>2, <4>1, <4>2 DEF Field
    <3>2. CASE f[point] # "EMPTY"
      <4>1. f[point] \in {"DAMAGED", "MISSED"}
        BY <1>6, <2>3, <3>2
      <4>2. register_shot(f, point) = f
        <5>1. shot_result(f, point) = "EMPTY"
          BY <1>3, <4>1, ResultOfShot
        <5> QED BY <5>1 DEF register_shot
      <4>3. At(after, point) = At(shots, point)
        BY <1>6, <2>1, <2>3, <3>2
      <4> HIDE DEF f, At
      <4> QED BY <1>3, <2>2, <4>2, <4>3 DEF Field
    <3> QED BY <3>1, <3>2
  <2> QED BY <1>1, <2>3, <2>4
<1>7. CASE point \in Cell /\ point \in taken /\ point \notin shots
  <2>1. f[point] = "UNHARMED" /\ get_state(f, point) = "UNHARMED" /\ contains(point)
    BY <1>3, <1>7 DEF contains, get_state
  <2>2. register_shot(f, point) = IF ship_destroyed(g, point)
                                    THEN mark_destroyed_ship_boundary(g, point) ELSE g
    <3>1. shot_result(f, point) = "DAMAGED"
      BY <1>3, <1>7, <2>1, ResultOfShot
    <3> HIDE DEF f
    <3> QED BY <3>1 DEF register_shot
  <2>3. /\ g \in Field
        /\ \A c \in Cell : g[c] = IF c = point THEN "DAMAGED" ELSE At(shots, c)
    <3> HIDE DEF f, At
    <3> QED BY <1>3, <1>7 DEF Field, CellState
  <2> HIDE DEF f, g
  <2>4. /\ \A c \in Cell : g[c] = "DAMAGED" <=> c \in taken /\ c \in after
        /\ \A c \in Cell : g[c] = "UNHARMED" <=> c \in taken /\ c \notin after
        /\ \A c \in Cell : c \notin taken =>
               g[c] = IF c \in after \/ \E d \in sunk(shots) : Touching(c, d)
                        THEN "MISSED" ELSE "EMPTY"
    BY <1>7, <2>3
  <2>5. PICK S \in Ships(taken) : point \in S
    BY <1>2, <1>7
  <2>6. /\ ship_destroyed(g, point) <=> S \subseteq after
        /\ S \subseteq after => UNION {DamagedRun(g, point, dir) : dir \in Directions} = S
    <3>1. point \in after
      OBVIOUS
    <3> HIDE DEF after
    <3> QED BY <1>2, <2>3, <2>4, <2>5, <3>1, WalksFindShip
  <2>7. \A T \in Ships(taken) : point \in T => T = S
    BY <1>2, <2>5, ShipsAreSeparate
  <2>8. \A T \in Ships(taken) : T \subseteq after => T = S \/ T \subseteq shots
    BY <2>7
  <2>9. sunk(after) = IF S \subseteq after THEN sunk(shots) \cup S ELSE sunk(shots)
    <3>1. sunk(shots) \subseteq sunk(after)
      OBVIOUS
    <3>2. S \subseteq after => S \subseteq sunk(after)
      OBVIOUS
    <3>3. \A c \in sunk(after) : c \in sunk(shots) \/ (c \in S /\ S \subseteq after)
      BY <2>8
    <3> HIDE DEF sunk, after
    <3> QED BY <3>1, <3>2, <3>3
  <2> HIDE DEF after, sunk
  <2>10. CASE S \subseteq after
    <3>1. register_shot(f, point) = mark_destroyed_ship_boundary(g, point)
      BY <2>2, <2>6, <2>10
    <3>2. mark_destroyed_ship_boundary(g, point) =
              [c \in Cell |-> IF g[c] = "EMPTY" /\ \E h \in S : Touching(c, h)
                                THEN "MISSED" ELSE g[c]]
      BY <2>6, <2>10, Zenon DEF mark_destroyed_ship_boundary
    <3>3. ASSUME NEW c \in Cell
          PROVE  (IF g[c] = "EMPTY" /\ \E h \in S : Touching(c, h) THEN "MISSED" ELSE g[c])
                     = At(after, c)
      <4>1. CASE c \in taken
        BY <2>4, <4>1
      <4>2. CASE c \notin taken
        <5>1. (\E d \in sunk(after) : Touching(c, d)) <=>
                  (\E d \in sunk(shots) : Touching(c, d)) \/ (\E h \in S : Touching(c, h))
          BY <2>9, <2>10
        <5> QED BY <2>4, <4>2, <5>1
      <4> QED BY <4>1, <4>2
    <3> HIDE DEF At
    <3>4. register_shot(f, point) = [c \in Cell |-> At(after, c)]
      BY <3>1, <3>2, <3>3, Zenon
    <3> QED BY <1>1, <2>1, <3>4, Zenon DEF f, after
  <2>11. CASE ~(S \subseteq after)
    <3>1. register_shot(f, point) = g
      BY <2>2, <2>6, <2>11
    <3>2. \A c \in Cell : g[c] = At(after, c)
      BY <2>4, <2>9, <2>11
    <3>3. register_shot(f, point) = [c \in Cell |-> At(after, c)]
      <4> HIDE DEF At
      <4> QED BY <2>3, <3>1, <3>2 DEF Field
    <3> QED BY <1>1, <2>1, <3>3, Zenon DEF f, after
  <2> QED BY <2>10, <2>11
<1> QED BY <1>4, <1>6, <1>7

=============================================================================
