--------------------------- MODULE FieldShotsProofs ---------------------------
(***************************************************************************)
(* What the preparation and shots do to a board, for every board size,     *)
(* fleet and number of shots.                                              *)
(***************************************************************************)
EXTENDS FieldShots, GameFieldProofs, FiniteSetTheorems

-----------------------------------------------------------------------------

\* A board stays a board, and the cells fired at are cells.
THEOREM BoardsStayBoards == Spec => []TypeOK
<1>1. Init => TypeOK
  BY DEF Init, TypeOK, EmptyField, Field, CellState
<1>2. TypeOK /\ [Next]_vars => TypeOK'
  <2>1. ASSUME TypeOK, NEW point \in Target, Shot(point) PROVE TypeOK'
    BY <2>1, EffectOfShot DEF Shot, TypeOK, contains
  <2>2. ASSUME TypeOK, NEW pos \in Cell, process_enter_input(pos) PROVE TypeOK'
    BY <2>2 DEF process_enter_input, TypeOK, Field, CellState
  <2>3. ASSUME TypeOK, Accept PROVE TypeOK'
    BY <2>3 DEF Accept, TypeOK
  <2> QED BY <2>1, <2>2, <2>3 DEF Next, vars, TypeOK
<1> QED BY <1>1, <1>2, PTL DEF Spec

\* What the opponent sees as untouched is exactly what he can still shoot at.
THEOREM TargetsAreOpen == Spec => []EnemyTargetsAreOpen
<1>1. TypeOK => EnemyTargetsAreOpen
  <2> SUFFICES ASSUME TypeOK, NEW c \in Cell
               PROVE  get_for_enemy(field)[c] = "EMPTY" <=> shot_result(field, c) # "EMPTY"
    BY DEF EnemyTargetsAreOpen
  <2>1. get_for_enemy(field)[c] = "EMPTY" <=> field[c] \in {"EMPTY", "UNHARMED"}
    BY DEF get_for_enemy, TypeOK
  <2> QED BY <2>1, ResultOfShot DEF TypeOK
<1> QED BY <1>1, BoardsStayBoards, PTL

\* A shot damages at most the cell it falls on and leaves every mark alone.
THEOREM MarksStay == Spec => MarksAreFinal
<1> DEFINE hurt  == {c \in Cell : field[c] = "UNHARMED" /\ field'[c] # "UNHARMED"}
           Final == accepted =>
                    /\ \A c \in Cell :
                          field[c] \in {"DAMAGED", "MISSED"} => field'[c] = field[c]
                    /\ Cardinality(hurt) <= 1
<1>1. TypeOK /\ [Next]_vars => [Final]_vars
  <2> SUFFICES ASSUME TypeOK, NEW point \in Target, Shot(point) PROVE Final
    BY DEF Next, process_enter_input, Accept
  <2>1. field' = register_shot(field, point) /\ field \in Field
    BY DEF Shot, TypeOK
  <2>2. \A c \in Cell \ {point} :
            field'[c] = field[c] \/ (field[c] = "EMPTY" /\ field'[c] = "MISSED")
    BY <2>1, EffectOfShot
  <2>3. point \in Cell /\ field[point] \in {"DAMAGED", "MISSED"} => field' = field
    BY <2>1, EffectOfShot, ResultOfShot
  <2>4. hurt = {} \/ hurt = {point}
    BY <2>2
  <2>5. Cardinality({}) = 0 /\ Cardinality({point}) = 1
    BY FS_EmptySet, FS_Singleton
  <2> HIDE DEF hurt
  <2>6. Cardinality(hurt) <= 1
    BY <2>4, <2>5
  <2> QED BY <2>2, <2>3, <2>6
<1> QED BY <1>1, BoardsStayBoards, PTL DEF Spec, MarksAreFinal

-----------------------------------------------------------------------------
(***************************************************************************)
(* The board and the rules                                                 *)
(***************************************************************************)

\* While a player prepares his field, the scan tells the legal ones from the others:
\* it finds all the ships of a legal start, and accepts nothing that it has not
\* shared out among the ships of the fleet.
THEOREM ScanFollowsRules == Spec => []ScanAcceptsLegalFields
<1>1. TypeOK => ScanAcceptsLegalFields
  BY FieldAssumption, AcceptedFieldsAreLegal, LegalFieldsAreAccepted
     DEF TypeOK, ScanAcceptsLegalFields
<1> QED BY <1>1, BoardsStayBoards, PTL

\* Before the first shot a legal board shows nothing but its ships.
LEMMA NothingShotYet ==
    ASSUME FieldAssumption, NEW f \in Field, LegalStart(f)
    PROVE  BoardAfter(f, {}) = f
<1>1. \A S \in Ships(ShipCells(f)) : S # {}
  <2> SUFFICES ASSUME NEW S \in Ships(ShipCells(f)) PROVE S # {}
    OBVIOUS
  <2>1. PICK ship \in [head : Cell, delta : {<<1, 0>>, <<0, 1>>}, len : DOMAIN Fleet] :
            S = ship_cells(ship)
    BY DEF Ships, Segments
  <2>2. 0 \in 0 .. ship.len - 1
    BY <2>1 DEF FieldAssumption
  <2> QED BY <2>1, <2>2 DEF ship_cells
<1>2. UNION {S \in Ships(ShipCells(f)) : S \subseteq {}} = {}
  BY <1>1
<1>3. \A c \in Cell : c \in ShipCells(f) <=> f[c] = "UNHARMED"
  BY DEF ShipCells
<1>4. \A c \in Cell : f[c] \in {"EMPTY", "UNHARMED"}
  BY DEF LegalStart
<1> QED BY <1>2, <1>3, <1>4 DEF BoardAfter, Field

\* From the accepted field on, the board shows what the rules say of the cells
\* that were fired at: the start is legal because the scan accepts nothing else,
\* and every shot then does what the rules say.
THEOREM BoardsFollowRules == Spec => []BoardFollowsRules
<1> DEFINE Started == IF accepted
                      THEN LegalStart(start) /\ field = BoardAfter(start, shots)
                      ELSE shots = {}
<1>1. Init => Started
  BY DEF Init
<1>2. TypeOK /\ Started /\ [Next]_vars => Started'
  <2>1. ASSUME TypeOK, Started, NEW point \in Target, Shot(point) PROVE Started'
    <3>1. /\ accepted' = accepted /\ accepted
          /\ LegalStart(start) /\ start' = start
          /\ field = BoardAfter(start, shots) /\ field' = register_shot(field, point)
          /\ shots' = IF contains(point) THEN shots \cup {point} ELSE shots
      BY <2>1 DEF Shot
    <3>2. start \in Field /\ shots \in SUBSET Cell
      BY <2>1 DEF TypeOK
    <3>3. field' = BoardAfter(start, shots')
      BY <3>1, <3>2, FieldAssumption, ShotFollowsRules
    <3> QED BY <3>1, <3>3
  <2>2. ASSUME TypeOK, Started, NEW pos \in Cell, process_enter_input(pos) PROVE Started'
    BY <2>2 DEF process_enter_input
  <2>3. ASSUME TypeOK, Started, Accept PROVE Started'
    <3>1. accepted' /\ start' = field /\ field' = field /\ shots' = {}
      BY <2>3 DEF Accept
    <3>2. LegalStart(field)
      BY <2>3, FieldAssumption, AcceptedFieldsAreLegal DEF Accept, TypeOK
    <3>3. BoardAfter(field, {}) = field
      BY <2>3, <3>2, FieldAssumption, NothingShotYet DEF TypeOK
    <3> QED BY <3>1, <3>2, <3>3
  <2> QED BY <2>1, <2>2, <2>3 DEF Next, vars
<1>3. Started => BoardFollowsRules
  BY DEF BoardFollowsRules
<1> QED BY <1>1, <1>2, <1>3, BoardsStayBoards, PTL DEF Spec

=============================================================================
