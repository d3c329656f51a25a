-------------------------- MODULE FittablePosProofs --------------------------
(***************************************************************************)
(* Proofs about FittablePos for every grid, every size of the new panels   *)
(* and every dashboard without overlaps.                                   *)
(***************************************************************************)
EXTENDS FittablePos, SequenceTheorems, WellFoundedInduction, TLAPS

\* A nonempty set of numbers has a least element, and Min (FiniteSetsExt) is that
\* element: the index of the first panel in the way, at which the loop stops.
LEMMA MinOfNats ==
  ASSUME NEW S \in SUBSET Nat, S # {}
  PROVE  Min(S) \in S /\ \A y \in S : Min(S) <= y
<1>1. PICK x \in S : \A y \in S : ~(<<y, x>> \in OpToRel(<, Nat))
  BY NatLessThanWellFounded, WFMin
<1>2. OpToRel(<, Nat) = {p \in Nat \X Nat : p[1] < p[2]}
  BY DEF OpToRel
<1>3. ASSUME NEW y \in S  PROVE x <= y
  <2>1. ~(<<y, x>> \in {p \in Nat \X Nat : p[1] < p[2]})
    BY <1>1, <1>2, Zenon
  <2>2. ~(y < x)
    BY <2>1
  <2> QED
    BY <2>2
<1> QED
  BY <1>3 DEF Min

\* Panels that share a cell intersect.
LEMMA SharedCellsIntersect ==
  ASSUME NEW p \in Panel, NEW q \in Panel, Cells(p) \cap Cells(q) # {}
  PROVE  intersects(p, q)
<1>1. PICK cell \in Cells(p) : cell \in Cells(q)
  OBVIOUS
<1>2. PICK c \in p.Col .. p.Col + p.Size_x - 1, r \in p.Row .. p.Row + p.Size_y - 1 :
        cell = <<c, r>>
  BY <1>1 DEF Cells
<1>3. c \in q.Col .. q.Col + q.Size_x - 1 /\ r \in q.Row .. q.Row + q.Size_y - 1
  BY <1>1, <1>2 DEF Cells
<1> QED
  BY <1>2, <1>3 DEF intersects, Panel, Positive

\* The panel in the way is one of the dashboard's, and the jump over it goes on.
LEMMA JumpAdvances ==
  ASSUME TypeOK, Overlaps(panels, tempPanel) # {}
  PROVE  /\ Jump(panels[Min(Overlaps(panels, tempPanel))]) \in Positive
         /\ Jump(panels[Min(Overlaps(panels, tempPanel))]) > tempPanel.Col
<1> DEFINE S == Overlaps(panels, tempPanel)
           m == Min(S)
<1>1. S \in SUBSET (1..Len(panels)) /\ Len(panels) \in Nat
  BY LenProperties DEF Overlaps, TypeOK
<1>2. m \in S
  BY <1>1, MinOfNats
<1> HIDE DEF m
<1>3. panels[m] \in Panel
  BY <1>1, <1>2, ElementOfSeq DEF TypeOK
<1>4. panels[m].Size_x \in Positive /\ tempPanel.Col \in Positive
  BY <1>3 DEF Panel, TypeOK
<1> QED
  BY <1>4 DEF Jump, Positive, m

\* A panel that is moved to another position stays a panel of its size and id.
LEMMA MovedPanel ==
  ASSUME NEW p \in Panel, NEW col \in Positive, NEW row \in Positive
  PROVE  /\ [p EXCEPT !.Col = col] \in Panel
         /\ [p EXCEPT !.Row = row, !.Col = col] \in Panel
         /\ p.Col \in Positive /\ p.Row \in Positive
BY DEF Panel

\* CreateNode's panel is a panel.
LEMMA NewPanelIsPanel ==
  ASSUME NEW id \in PanelId
  PROVE  NewPanel(id) \in Panel
<1>1. sizeX \in Positive /\ sizeY \in Positive
  BY GridAssumption DEF Positive
<1> QED
  BY <1>1 DEF NewPanel, Panel, Positive

\* The variables keep their types: the search stays on rows and columns from 1
\* on, and what is written back is a sequence of panels.
THEOREM PlaceTypeCorrect == Spec => []TypeOK
<1>1. Init => TypeOK
  <2> SUFFICES ASSUME Init  PROVE TypeOK
    OBVIOUS
  <2>1. (CHOOSE id \in PanelId : TRUE) \in PanelId
    BY GridAssumption
  <2>2. tempPanel \in Panel
    BY <2>1, NewPanelIsPanel DEF Init
  <2> QED
    BY <2>2, GridAssumption DEF Init, TypeOK
<1>2. TypeOK => /\ tempPanel \in Panel
                /\ tempPanel.Col \in Positive /\ tempPanel.Row \in Positive
  BY DEF TypeOK, Panel
<1>3. TypeOK /\ [Next]_vars => TypeOK'
  <2> SUFFICES ASSUME TypeOK, [Next]_vars  PROVE TypeOK'
    OBVIOUS
  <2>1. ASSUME NEW id \in PanelId, Put(id)  PROVE TypeOK'
    BY <2>1, NewPanelIsPanel DEF TypeOK, Put, Present
  <2>2. CASE TryPosition
    <3>1. CASE Overlaps(panels, tempPanel) # {}
      <4> DEFINE col == Jump(panels[Min(Overlaps(panels, tempPanel))])
      <4>1. tempPanel' = [tempPanel EXCEPT !.Col = col] /\ UNCHANGED <<panels, pc>>
        BY <2>2, <3>1 DEF TryPosition
      <4>2. col \in Positive
        BY <3>1, JumpAdvances
      <4> HIDE DEF col
      <4>3. tempPanel' \in Panel
        BY <1>2, <4>1, <4>2, MovedPanel
      <4> QED
        BY <4>1, <4>3 DEF TypeOK
    <3>2. CASE Overlaps(panels, tempPanel) = {}
      <4>1. tempPanel' \in {tempPanel, [tempPanel EXCEPT !.Col = tempPanel.Col + 1]}
        BY <2>2, <3>2 DEF TryPosition
      <4>2. tempPanel.Col + 1 \in Positive
        BY <1>2 DEF Positive
      <4>3. tempPanel' \in Panel
        BY <1>2, <4>1, <4>2, MovedPanel
      <4> QED
        BY <2>2, <3>2, <4>3 DEF TypeOK, TryPosition
    <3> QED
      BY <3>1, <3>2
  <2>3. CASE NextRow
    <3>1. tempPanel.Row + 1 \in Positive /\ 1 \in Positive
      BY <1>2 DEF Positive
    <3>2. tempPanel' \in Panel
      BY <1>2, <2>3, <3>1, MovedPanel DEF NextRow, FirstColumn
    <3> QED
      BY <2>3, <3>2 DEF TypeOK, NextRow, FirstColumn
  <2>4. CASE GiveUp
    <3>1. 1 \in Positive
      BY DEF Positive
    <3>2. tempPanel' \in Panel
      BY <1>2, <2>4, <3>1, MovedPanel DEF GiveUp
    <3> QED
      BY <2>4, <3>2 DEF TypeOK, GiveUp
  <2>5. CASE Store
    BY <2>5, AppendProperties DEF TypeOK, Store
  <2>6. CASE UNCHANGED vars
    BY <2>6 DEF TypeOK, vars
  <2> QED
    BY <2>1, <2>2, <2>3, <2>4, <2>5, <2>6 DEF Next, Scan
<1> QED
  BY <1>1, <1>3, PTL DEF Spec

\* Every step of the search goes on, so that the search is never at the same
\* place twice: with the bounds of the loops, this is why it ends.
THEOREM PlaceAdvances == Spec => ScanAdvances
<1> DEFINE Later == pc = "scan" /\ pc' = "scan" =>
                      \/ tempPanel'.Row > tempPanel.Row
                      \/ tempPanel'.Row = tempPanel.Row /\ tempPanel'.Col > tempPanel.Col
<1>1. TypeOK /\ [Next]_vars => [Later]_vars
  <2> SUFFICES ASSUME TypeOK, Next, pc = "scan", pc' = "scan"  PROVE Later
    OBVIOUS
  <2>1. CASE TryPosition
    <3>1. CASE Overlaps(panels, tempPanel) # {}
      <4>1. tempPanel' = [tempPanel EXCEPT !.Col =
                            Jump(panels[Min(Overlaps(panels, tempPanel))])]
        BY <2>1, <3>1 DEF TryPosition
      <4> QED
        BY <4>1, <3>1, JumpAdvances DEF TypeOK, Panel
    <3>2. CASE Overlaps(panels, tempPanel) = {}
      BY <2>1, <3>2 DEF TypeOK, TryPosition, Panel, Positive
    <3> QED
      BY <3>1, <3>2
  <2>2. CASE NextRow
    BY <2>2 DEF TypeOK, NextRow, FirstColumn, Panel, Positive
  <2> QED
    BY <2>1, <2>2 DEF Next, Scan, Put, Present, GiveUp, Store
<1> QED
  BY <1>1, PlaceTypeCorrect, PTL DEF Spec, ScanAdvances

\* Every step of the search keeps the id and the size of the panel.
LEMMA MovesKeepPanel ==
  ASSUME TypeOK, TryPosition \/ NextRow \/ GiveUp
  PROVE  /\ tempPanel'.Id = tempPanel.Id
         /\ tempPanel'.Size_x = tempPanel.Size_x
         /\ tempPanel'.Size_y = tempPanel.Size_y
         /\ pc = "scan" /\ panels' = panels
BY DEF TypeOK, Panel, TryPosition, NextRow, FirstColumn, GiveUp

\* A panel in column 1 below all the others is placed there.
LEMMA RoomIsTaken ==
  ASSUME TypeOK, ScanInv, TryPosition,
         NEW b \in 1..(maxSizeY - sizeY),
         \A i \in DOMAIN panels : panels[i].Row + panels[i].Size_y <= b,
         tempPanel.Row = b, tempPanel.Col = 1
  PROVE  pc' = "placed"
<1>1. tempPanel.Size_x = sizeX /\ tempPanel.Size_y = sizeY
  BY DEF ScanInv, TryPosition
<1>2. Overlaps(panels, tempPanel) = {}
  <2> SUFFICES ASSUME NEW i \in DOMAIN panels, intersects(panels[i], tempPanel)
               PROVE  FALSE
    BY DEF Overlaps
  <2>1. panels[i] \in Panel /\ tempPanel \in Panel
    BY ElementOfSeq, LenProperties DEF TypeOK
  <2>2. panels[i].Row + panels[i].Size_y <= tempPanel.Row
    OBVIOUS
  <2> QED
    BY <2>1, <2>2 DEF intersects, Panel, Positive
<1>3. InGrid(tempPanel)
  BY <1>1, GridAssumption DEF InGrid
<1> QED
  BY <1>2, <1>3 DEF TryPosition

\* The search places a panel that is new to the dashboard, does not pass a row
\* below which everything is free, and chooses only free places.
THEOREM SearchCorrect == Spec => [](ScanInv /\ PlacedInv)
<1>1. Init => ScanInv /\ PlacedInv
  BY DEF Init, ScanInv, PlacedInv
<1>2. TypeOK /\ ScanInv /\ PlacedInv /\ [Next]_vars => PlacedInv'
  <2> SUFFICES ASSUME TypeOK, PlacedInv, [Next]_vars,
                      pc' = "placed", tempPanel'.Row < maxSizeY
               PROVE  Overlaps(panels, tempPanel)' = {}
    BY DEF PlacedInv
  <2>1. ASSUME NEW id \in PanelId, Put(id)  PROVE Overlaps(panels, tempPanel)' = {}
    <3>1. panels' = <<>>
      BY <2>1 DEF Put, Present
    <3> QED
      BY <3>1 DEF Overlaps
  <2>2. CASE TryPosition
    BY <2>2 DEF TryPosition, Overlaps
  <2>3. ~NextRow /\ ~Store
    BY DEF NextRow, FirstColumn, Store
  <2>4. CASE GiveUp
    <3>1. tempPanel'.Row = tempPanel.Row
      BY <2>4 DEF GiveUp, TypeOK, Panel
    <3> QED
      BY <2>4, <3>1, GridAssumption DEF GiveUp, TypeOK, Panel, Positive
  <2>5. CASE UNCHANGED vars
    BY <2>5 DEF vars, PlacedInv, Overlaps
  <2> QED
    BY <2>1, <2>2, <2>3, <2>4, <2>5 DEF Next, Scan
<1>3. TypeOK /\ ScanInv /\ [Next]_vars => ScanInv'
  <2> SUFFICES ASSUME TypeOK, ScanInv, [Next]_vars  PROVE ScanInv'
    OBVIOUS
  <2> DEFINE Room(b) == \A i \in DOMAIN panels : panels[i].Row + panels[i].Size_y <= b
             NotPast(b) == tempPanel.Row < b \/ (tempPanel.Row = b /\ tempPanel.Col = 1)
  <2>1. ASSUME NEW id \in PanelId, Put(id)  PROVE ScanInv'
    <3>1. /\ tempPanel'.Id = id /\ tempPanel'.Row = 1 /\ tempPanel'.Col = 1
          /\ tempPanel'.Size_x = sizeX /\ tempPanel'.Size_y = sizeY
          /\ panels' = panels
      BY <2>1 DEF Put, Present, NewPanel
    <3>2. pc' # "idle" => \A i \in DOMAIN panels : panels[i].Id # id
      BY <2>1 DEF Put, Present
    <3>3. \A b \in 1..(maxSizeY - sizeY) : 1 < b \/ 1 = b
      BY GridAssumption
    <3> QED
      BY <3>1, <3>2, <3>3 DEF ScanInv
  <2>2. ASSUME TryPosition \/ NextRow \/ GiveUp,
               \A b \in 1..(maxSizeY - sizeY) : pc' = "scan" /\ Room(b) => NotPast(b)'
        PROVE  ScanInv'
    <3>1. /\ tempPanel'.Id = tempPanel.Id
          /\ tempPanel'.Size_x = tempPanel.Size_x
          /\ tempPanel'.Size_y = tempPanel.Size_y
          /\ pc = "scan" /\ panels' = panels
      BY <2>2, MovesKeepPanel
    <3> QED
      BY <2>2, <3>1 DEF ScanInv
  <2>3. ASSUME NEW b \in 1..(maxSizeY - sizeY), TryPosition, pc' = "scan", Room(b)
        PROVE  NotPast(b)'
    <3>1. NotPast(b)
      BY <2>3 DEF ScanInv, TryPosition
    <3>2. ~(tempPanel.Row = b /\ tempPanel.Col = 1)
      BY <2>3, RoomIsTaken
    <3>3. tempPanel'.Row = tempPanel.Row
      BY <2>3 DEF TryPosition, TypeOK, Panel
    <3> QED
      BY <3>1, <3>2, <3>3
  <2>4. ASSUME NEW b \in 1..(maxSizeY - sizeY), NextRow, Room(b)
        PROVE  NotPast(b)'
    <3>1. NotPast(b)
      BY <2>4 DEF ScanInv, NextRow, FirstColumn
    <3>2. tempPanel.Col # 1
      BY <2>4, GridAssumption DEF NextRow, FirstColumn
    <3>3. tempPanel'.Row = tempPanel.Row + 1 /\ tempPanel'.Col = 1
      BY <2>4 DEF NextRow, FirstColumn, TypeOK, Panel
    <3>4. tempPanel.Row \in Nat /\ b \in Nat
      BY GridAssumption DEF TypeOK, Panel, Positive
    <3> QED
      BY <3>1, <3>2, <3>3, <3>4
  <2>5. CASE Store
    BY <2>5 DEF Store, ScanInv
  <2>6. CASE UNCHANGED vars
    BY <2>6 DEF vars, ScanInv
  <2>7. GiveUp => pc' # "scan"
    BY DEF GiveUp
  <2> QED
    BY <2>1, <2>2, <2>3, <2>4, <2>5, <2>6, <2>7 DEF Next, Scan
<1> QED
  BY <1>1, <1>2, <1>3, PlaceTypeCorrect, PTL DEF Spec

\* fittablePos answers the position below the grid only if the new panel does
\* not fit below the panels that are there.
THEOREM GivenUpCorrect == Spec => []GivenUpMeansFull
<1>1. Init => GivenUpMeansFull
  BY DEF Init, GivenUpMeansFull
<1>2. TypeOK /\ ScanInv /\ GivenUpMeansFull /\ [Next]_vars => GivenUpMeansFull'
  <2> SUFFICES ASSUME TypeOK, ScanInv, GivenUpMeansFull, [Next]_vars,
                      pc' = "placed", tempPanel'.Row >= maxSizeY
               PROVE  (\E i \in DOMAIN panels :
                         panels[i].Row + panels[i].Size_y + sizeY > maxSizeY)'
    BY DEF GivenUpMeansFull
  <2>1. ASSUME NEW id \in PanelId, Put(id)  PROVE FALSE
    BY <2>1, GridAssumption DEF Put, Present, NewPanel
  <2>2. ~TryPosition /\ ~NextRow /\ ~Store
    <3>1. TryPosition => tempPanel' = tempPanel
      BY DEF TryPosition
    <3>2. TryPosition => FALSE
      BY <3>1, GridAssumption DEF TryPosition, TypeOK, Panel, Positive
    <3> QED
      BY <3>2 DEF NextRow, FirstColumn, Store
  <2>3. CASE GiveUp
    <3> DEFINE b == maxSizeY - sizeY
    <3>1. b \in 1..(maxSizeY - sizeY) /\ b < maxSizeY
      BY GridAssumption
    <3>2. tempPanel.Row \in Nat /\ tempPanel.Row >= maxSizeY /\ pc = "scan"
      BY <2>3 DEF GiveUp, TypeOK, Panel, Positive
    <3>3. ~(tempPanel.Row < b \/ (tempPanel.Row = b /\ tempPanel.Col = 1))
      BY <3>1, <3>2, GridAssumption
    <3>4. PICK i \in DOMAIN panels : ~(panels[i].Row + panels[i].Size_y <= b)
      BY <3>1, <3>2, <3>3 DEF ScanInv
    <3>5. panels[i] \in Panel
      BY ElementOfSeq, LenProperties DEF TypeOK
    <3>6. panels[i].Row + panels[i].Size_y + sizeY > maxSizeY
      BY <3>4, <3>5, GridAssumption DEF Panel, Positive
    <3> QED
      BY <2>3, <3>6 DEF GiveUp
  <2>4. CASE UNCHANGED vars
    BY <2>4 DEF vars, GivenUpMeansFull
  <2> QED
    BY <2>1, <2>2, <2>3, <2>4 DEF Next, Scan
<1> QED
  BY <1>1, <1>2, PlaceTypeCorrect, SearchCorrect, PTL DEF Spec

\* What Store leaves alone, and what the appended dashboard looks like.
LEMMA Stored ==
  ASSUME TypeOK, [Next]_vars, panels' # panels
  PROVE  /\ pc = "placed"
         /\ panels' = Append(panels, tempPanel)
         /\ Len(panels) \in Nat /\ DOMAIN panels = 1..Len(panels)
         /\ DOMAIN panels' = 1..(Len(panels) + 1)
         /\ panels'[Len(panels) + 1] = tempPanel
         /\ \A i \in 1..Len(panels) : panels'[i] = panels[i]
<1>1. Store
  BY DEF Next, Scan, Put, Present, TryPosition, NextRow, FirstColumn, GiveUp, vars
<1>2. pc = "placed" /\ panels' = Append(panels, tempPanel)
  BY <1>1 DEF Store
<1> QED
  BY <1>2, AppendProperties, LenProperties DEF TypeOK

\* No panel covers another one, on every grid and for every sequence of puts,
\* unless it stands below the grid.
THEOREM NoOverlapCorrect == Spec => []NoOverlap
<1>1. Init => NoOverlap
  BY GridAssumption DEF Init, NoOverlap
<1>2. TypeOK /\ PlacedInv /\ NoOverlap /\ [Next]_vars => NoOverlap'
  <2> SUFFICES ASSUME TypeOK, PlacedInv, NoOverlap, [Next]_vars, panels' # panels
               PROVE  NoOverlap'
    BY DEF NoOverlap
  <2> SUFFICES ASSUME NEW i \in DOMAIN panels', NEW j \in DOMAIN panels', i < j,
                      Cells(panels'[i]) \cap Cells(panels'[j]) # {}
               PROVE  panels'[j].Row >= maxSizeY
    BY DEF NoOverlap, NoneOverlap, Cells
  <2>1. CASE j \in 1..Len(panels)
    <3>1. i \in 1..Len(panels)
      BY <2>1, Stored
    <3> QED
      BY <2>1, <3>1, Stored DEF NoOverlap, NoneOverlap
  <2>2. CASE j = Len(panels) + 1
    <3>1. i \in DOMAIN panels /\ panels'[i] = panels[i] /\ panels'[j] = tempPanel
      BY <2>2, Stored
    <3>2. Overlaps(panels, tempPanel) # {}
      <4>1. panels[i] \in Panel /\ tempPanel \in Panel
        BY <3>1, ElementOfSeq, LenProperties DEF TypeOK
      <4>2. intersects(panels[i], tempPanel)
        BY <3>1, <4>1, SharedCellsIntersect
      <4> QED
        BY <3>1, <4>2 DEF Overlaps
    <3>3. ~(tempPanel.Row < maxSizeY)
      BY <3>2, Stored DEF PlacedInv
    <3> QED
      BY <3>1, <3>3, GridAssumption DEF TypeOK, Panel, Positive
  <2> QED
    BY <2>1, <2>2, Stored
<1> QED
  BY <1>1, <1>2, PlaceTypeCorrect, SearchCorrect, PTL DEF Spec
-----------------------------------------------------------------------------
(* The first free place *)

\* Free, said of the columns and rows alone.
FreeIn(ps, col, row) ==
  /\ col + sizeX <= maxSizeX /\ row + sizeY <= maxSizeY
  /\ \A i \in DOMAIN ps :
       Cells(ps[i]) \cap ((col .. col + sizeX - 1) \X (row .. row + sizeY - 1)) = {}

NewSize(p) == p.Size_x = sizeX /\ p.Size_y = sizeY

LEMMA FreeMeaning ==
  ASSUME NEW p \in Panel, NewSize(p), NEW col, NEW row
  PROVE  LET q == [p EXCEPT !.Col = col, !.Row = row] IN
           /\ InGrid(q) <=> col + sizeX <= maxSizeX /\ row + sizeY <= maxSizeY
           /\ Cells(q) = (col .. col + sizeX - 1) \X (row .. row + sizeY - 1)
<1> DEFINE q == [p EXCEPT !.Col = col, !.Row = row]
<1>1. q.Col = col /\ q.Row = row /\ q.Size_x = sizeX /\ q.Size_y = sizeY
  BY DEF Panel, NewSize
<1> HIDE DEF q
<1>2. /\ InGrid(q) <=> col + sizeX <= maxSizeX /\ row + sizeY <= maxSizeY
      /\ Cells(q) = (col .. col + sizeX - 1) \X (row .. row + sizeY - 1)
  BY <1>1 DEF InGrid, Cells
<1> QED
  BY <1>2 DEF q

\* The first column is on the grid, and so is the one after a panel on it.
LEMMA GridGoesOn ==
  /\ OnGrid(1)
  /\ \A c \in Positive : OnGrid(c) => OnGrid(c + sizeX)
<1>1. sizeX \in Nat /\ sizeX >= 1
  BY GridAssumption
<1>2. OnGrid(1)
  <2>1. 0 \in 0..1 /\ 1 = 1 + 0 * sizeX
    BY <1>1
  <2> QED
    BY <2>1 DEF OnGrid
<1>3. ASSUME NEW c \in Positive, OnGrid(c)  PROVE OnGrid(c + sizeX)
  <2>1. PICK k \in 0..c : c = 1 + k * sizeX
    BY <1>3 DEF OnGrid
  <2>2. k \in Nat /\ k + 1 \in 0..(c + sizeX)
    BY <1>1, <2>1 DEF Positive
  <2>3. (k + 1) * sizeX = k * sizeX + sizeX
    BY <1>1, <2>2
  <2>4. k * sizeX \in Nat
    BY <1>1, <2>2
  <2>5. c + sizeX = 1 + (k + 1) * sizeX
    BY <1>1, <2>1, <2>3, <2>4
  <2> QED
    BY <2>2, <2>5 DEF OnGrid
<1> QED
  BY <1>2, <1>3

\* Two columns of the grid are the same one or a panel's width apart.
LEMMA GridColumns ==
  ASSUME NEW c \in Positive, NEW d \in Positive, OnGrid(c), OnGrid(d), c < d
  PROVE  c + sizeX <= d
<1>1. sizeX \in Nat /\ sizeX >= 1
  BY GridAssumption
<1>2. PICK k \in 0..c : c = 1 + k * sizeX
  BY DEF OnGrid
<1>3. PICK j \in 0..d : d = 1 + j * sizeX
  BY DEF OnGrid
<1>4. k \in Nat /\ j \in Nat
  BY <1>2, <1>3
<1>5. \A m, n, s \in Nat : m >= n => m * s >= n * s
  OBVIOUS
<1>6. k < j
  <2> SUFFICES ASSUME j <= k  PROVE FALSE
    BY <1>4
  <2>1. k * sizeX >= j * sizeX /\ k * sizeX \in Nat /\ j * sizeX \in Nat
    BY <1>1, <1>4, <1>5
  <2> QED
    BY <1>2, <1>3, <2>1
<1>7. j * sizeX >= (k + 1) * sizeX
  BY <1>1, <1>4, <1>5, <1>6
<1>8. (k + 1) * sizeX = k * sizeX + sizeX /\ k * sizeX \in Nat /\ j * sizeX \in Nat
  BY <1>1, <1>4
<1> QED
  BY <1>1, <1>2, <1>3, <1>7, <1>8

\* A panel in the way of a position of the grid is in the way of all positions
\* that the jump over it passes.
LEMMA PassedIsTaken ==
  ASSUME NEW p \in Panel, NewSize(p), OnGrid(p.Col),
         NEW q \in Panel, q.Size_x = sizeX, OnGrid(q.Col), intersects(q, p),
         NEW col \in p.Col .. p.Col + sizeX - 1
  PROVE  Cells(q) \cap ((col .. col + sizeX - 1) \X (p.Row .. p.Row + sizeY - 1)) # {}
<1>1. /\ p.Col \in Positive /\ q.Col \in Positive
      /\ p.Row \in Positive /\ q.Row \in Positive /\ q.Size_y \in Positive
      /\ sizeX \in Positive /\ sizeY \in Positive
      /\ p.Size_x = sizeX /\ p.Size_y = sizeY
  BY GridAssumption DEF Panel, NewSize, Positive
<1>2. /\ q.Col + sizeX > p.Col /\ q.Col < p.Col + sizeX
      /\ q.Row + q.Size_y > p.Row /\ q.Row < p.Row + sizeY
  BY <1>1 DEF intersects, Positive
<1>3. q.Col = p.Col
  BY <1>1, <1>2, GridColumns DEF Positive
<1> DEFINE row == IF p.Row < q.Row THEN q.Row ELSE p.Row
<1>4. /\ row \in p.Row .. p.Row + sizeY - 1
      /\ row \in q.Row .. q.Row + q.Size_y - 1
  BY <1>1, <1>2 DEF Positive
<1>5. col \in col .. col + sizeX - 1 /\ col \in q.Col .. q.Col + sizeX - 1
  BY <1>1, <1>3 DEF Positive
<1> HIDE DEF row
<1>6. <<col, row>> \in Cells(q)
  BY <1>4, <1>5 DEF Cells
<1> QED
  BY <1>4, <1>5, <1>6

\* NoneFreeBefore, said of the columns and rows alone.
NoneFreeUpTo(ps, r, c) ==
  \A row \in 1..r, col \in 1..maxSizeX : row < r \/ col < c => ~FreeIn(ps, col, row)

LEMMA NoneFreeMeaning ==
  /\ tempPanel \in Panel /\ NewSize(tempPanel) =>
       (NoneFreeBefore <=> NoneFreeUpTo(panels, tempPanel.Row, tempPanel.Col))
  /\ tempPanel' \in Panel /\ NewSize(tempPanel') =>
       (NoneFreeBefore' <=> NoneFreeUpTo(panels', tempPanel'.Row, tempPanel'.Col))
<1>1. ASSUME tempPanel \in Panel, NewSize(tempPanel), NEW col, NEW row
      PROVE  Free(col, row) <=> FreeIn(panels, col, row)
  BY <1>1, FreeMeaning DEF Free, FreeIn
<1>2. ASSUME tempPanel' \in Panel, NewSize(tempPanel'), NEW col, NEW row
      PROVE  Free(col, row)' <=> FreeIn(panels', col, row)
  BY <1>2, FreeMeaning DEF Free, FreeIn
<1> QED
  BY <1>1, <1>2 DEF NoneFreeBefore, NoneFreeUpTo

\* The search goes on in a row past columns that are not free.
LEMMA RowGoesOn ==
  ASSUME NEW ps, NEW r \in Positive, NEW c \in Positive, NEW d \in Positive,
         NoneFreeUpTo(ps, r, c), \A col \in c .. d - 1 : ~FreeIn(ps, col, r)
  PROVE  NoneFreeUpTo(ps, r, d)
<1> SUFFICES ASSUME NEW row \in 1..r, NEW col \in 1..maxSizeX, row < r \/ col < d
             PROVE  ~FreeIn(ps, col, row)
  BY DEF NoneFreeUpTo
<1>1. col \in Nat /\ row \in Nat /\ r \in Nat /\ c \in Nat /\ d \in Nat
  BY GridAssumption DEF Positive
<1>2. CASE row < r \/ col < c
  BY <1>2 DEF NoneFreeUpTo
<1>3. CASE row = r /\ col >= c
  <2>1. col \in c .. d - 1
    BY <1>1, <1>3
  <2> QED
    BY <1>3, <2>1
<1> QED
  BY <1>1, <1>2, <1>3

LEMMA StepFit == TypeOK /\ TypeOK' /\ ScanInv /\ FitInv /\ [Next]_vars => FitInv'
<1> SUFFICES ASSUME TypeOK, TypeOK', ScanInv, FitInv, [Next]_vars  PROVE FitInv'
  OBVIOUS
<1> DEFINE r == tempPanel.Row
           c == tempPanel.Col
<1>1. /\ r \in Positive /\ c \in Positive /\ tempPanel \in Panel /\ tempPanel' \in Panel
      /\ sizeX \in Positive /\ sizeY \in Positive /\ maxSizeX \in Nat /\ maxSizeY \in Nat
  BY GridAssumption DEF TypeOK, Panel, Positive
<1>2. pc # "idle" => NewSize(tempPanel)
  BY DEF ScanInv, NewSize
<1>3. panels' = panels => Aligned' = Aligned
  BY DEF Aligned
<1>4. ASSUME NEW id \in PanelId, Put(id)  PROVE FitInv'
  <2>1. /\ tempPanel'.Row = 1 /\ tempPanel'.Col = 1 /\ NewSize(tempPanel')
        /\ panels' = panels
    BY <1>4 DEF Put, Present, NewPanel, NewSize
  <2>2. NoneFreeUpTo(panels', 1, 1)
    BY <1>1 DEF NoneFreeUpTo
  <2>3. NoneFreeBefore'
    BY <1>1, <2>1, <2>2, NoneFreeMeaning
  <2> QED
    BY <2>1, <2>3, GridGoesOn DEF FitInv
<1>5. ASSUME TryPosition \/ NextRow \/ GiveUp, Aligned,
             NEW r2, NEW c2, r2 = tempPanel'.Row, c2 = tempPanel'.Col,
             NoneFreeUpTo(panels, r2, c2)
      PROVE  NoneFreeBefore'
  <2>1. NewSize(tempPanel') /\ panels' = panels
    BY <1>2, <1>5, MovesKeepPanel DEF NewSize
  <2> QED
    BY <1>1, <1>5, <2>1, NoneFreeMeaning
<1>6. pc = "scan" /\ Aligned => NoneFreeUpTo(panels, r, c) /\ NewSize(tempPanel)
  BY <1>1, <1>2, NoneFreeMeaning DEF FitInv
<1>7. CASE TryPosition
  <2> SUFFICES ASSUME Aligned
               PROVE  /\ pc' = "scan" => OnGrid(tempPanel'.Col) \/ ~InGrid(tempPanel')
                      /\ NoneFreeBefore'
    BY <1>3, <1>7 DEF FitInv, TryPosition, OnGrid, InGrid
  <2>1. /\ pc = "scan" /\ panels' = panels /\ NoneFreeUpTo(panels, r, c)
        /\ tempPanel.Size_x = sizeX /\ tempPanel.Size_y = sizeY
        /\ OnGrid(c) \/ ~InGrid(tempPanel)
    BY <1>6, <1>7 DEF TryPosition, FitInv, NewSize
  <2>2. ~InGrid(tempPanel) <=> c + sizeX > maxSizeX \/ r + sizeY > maxSizeY
    BY <1>1, <2>1 DEF InGrid, Positive
  <2>3. ASSUME NEW col \in Nat, col >= c, ~InGrid(tempPanel)  PROVE ~FreeIn(panels, col, r)
    BY <1>1, <2>2, <2>3 DEF FreeIn, Positive
  <2>4. ASSUME NEW d \in Positive, d >= c, tempPanel' = [tempPanel EXCEPT !.Col = d],
               \A col \in c .. d - 1 : ~FreeIn(panels, col, r),
               OnGrid(d) \/ ~InGrid(tempPanel)
        PROVE  (OnGrid(tempPanel'.Col) \/ ~InGrid(tempPanel')) /\ NoneFreeBefore'
    <3>1. tempPanel'.Row = r /\ tempPanel'.Col = d
          /\ tempPanel'.Size_x = sizeX /\ tempPanel'.Size_y = sizeY
      BY <1>1, <2>1, <2>4 DEF Panel
    <3>2. ~InGrid(tempPanel) => ~InGrid(tempPanel')
      BY <1>1, <2>2, <2>4, <3>1 DEF InGrid, Positive
    <3>3. NoneFreeUpTo(panels, r, d)
      BY <1>1, <2>1, <2>4, RowGoesOn
    <3>4. NoneFreeBefore'
      BY <1>5, <1>7, <3>1, <3>3
    <3> QED
      BY <2>4, <3>1, <3>2, <3>4
  <2>5. CASE Overlaps(panels, tempPanel) # {}
    <3> DEFINE m == Min(Overlaps(panels, tempPanel))
               q == panels[m]
    <3>1. tempPanel' = [tempPanel EXCEPT !.Col = Jump(q)]
      BY <1>7, <2>5 DEF TryPosition
    <3>2. m \in DOMAIN panels /\ intersects(q, tempPanel) /\ q \in Panel
      <4>1. Overlaps(panels, tempPanel) \in SUBSET Nat /\ DOMAIN panels = 1..Len(panels)
        BY LenProperties DEF Overlaps, TypeOK
      <4>2. m \in Overlaps(panels, tempPanel)
        BY <2>5, <4>1, MinOfNats
      <4> HIDE DEF m
      <4> QED
        BY <4>1, <4>2, ElementOfSeq DEF Overlaps, TypeOK
    <3> HIDE DEF m
    <3>3. q.Size_x = sizeX /\ OnGrid(q.Col)
      BY <3>2 DEF Aligned
    <3> HIDE DEF q
    <3>4. Jump(q) = c + sizeX
      BY <3>3 DEF Jump
    <3>5. c + sizeX \in Positive /\ c + sizeX >= c
      BY <1>1 DEF Positive
    <3>6. OnGrid(c + sizeX) \/ ~InGrid(tempPanel)
      BY <1>1, <2>1, GridGoesOn
    <3>7. ASSUME NEW col \in c .. (c + sizeX) - 1  PROVE ~FreeIn(panels, col, r)
      <4>1. CASE OnGrid(c)
        <5>1. /\ q \in Panel /\ q.Size_x = sizeX /\ OnGrid(q.Col) /\ intersects(q, tempPanel)
          BY <3>2, <3>3
        <5>2. tempPanel \in Panel /\ NewSize(tempPanel) /\ OnGrid(tempPanel.Col)
          BY <1>1, <2>1, <4>1 DEF NewSize
        <5>3. col \in tempPanel.Col .. tempPanel.Col + sizeX - 1
          BY <1>1, <3>7 DEF Positive
        <5>4. Cells(q) \cap ((col .. col + sizeX - 1) \X (r .. r + sizeY - 1)) # {}
          BY <5>1, <5>2, <5>3, PassedIsTaken
        <5> QED
          BY <3>2, <5>4 DEF FreeIn, q
      <4>2. CASE ~InGrid(tempPanel)
        <5>1. col \in Nat /\ col >= c
          BY <1>1 DEF Positive
        <5> QED
          BY <2>3, <4>2, <5>1
      <4> QED
        BY <2>1, <4>1, <4>2
    <3> QED
      BY <2>4, <3>1, <3>4, <3>5, <3>6, <3>7
  <2>6. CASE Overlaps(panels, tempPanel) = {} /\ InGrid(tempPanel)
    <3>1. tempPanel' = tempPanel /\ pc' = "placed"
      BY <1>7, <2>6 DEF TryPosition
    <3> QED
      BY <1>5, <1>7, <2>1, <3>1
  <2>7. CASE Overlaps(panels, tempPanel) = {} /\ ~InGrid(tempPanel)
    <3>1. tempPanel' = [tempPanel EXCEPT !.Col = c + 1]
      BY <1>7, <2>7 DEF TryPosition
    <3>2. c + 1 \in Positive /\ c + 1 >= c /\ \A col \in c .. (c + 1) - 1 : col \in Nat /\ col >= c
      BY <1>1 DEF Positive
    <3> QED
      BY <2>3, <2>4, <2>7, <3>1, <3>2
  <2> QED
    BY <2>5, <2>6, <2>7
<1>8. CASE NextRow
  <2>1. /\ pc = "scan" /\ panels' = panels /\ c >= maxSizeX
        /\ tempPanel'.Row = r + 1 /\ tempPanel'.Col = 1
    BY <1>1, <1>8 DEF NextRow, FirstColumn, Panel
  <2>2. Aligned => NoneFreeUpTo(panels, r + 1, 1)
    <3> SUFFICES ASSUME Aligned, NEW row \in 1..(r + 1), NEW col \in 1..maxSizeX,
                        row < r + 1 \/ col < 1
                 PROVE  ~FreeIn(panels, col, row)
      BY DEF NoneFreeUpTo
    <3>1. row \in 1..r
      BY <1>1 DEF Positive
    <3>2. CASE col < c
      BY <1>6, <2>1, <3>1, <3>2 DEF NoneFreeUpTo
    <3>3. CASE col >= c
      BY <1>1, <2>1, <3>3 DEF FreeIn, Positive
    <3> QED
      BY <1>1, <3>2, <3>3 DEF Positive
  <2>3. Aligned => NoneFreeBefore'
    BY <1>5, <1>8, <2>1, <2>2
  <2> QED
    BY <1>3, <2>1, <2>3, GridGoesOn DEF FitInv
<1>9. CASE GiveUp
  <2>1. /\ pc = "scan" /\ pc' = "placed" /\ panels' = panels
        /\ tempPanel'.Row = r /\ tempPanel'.Col = 1
    BY <1>1, <1>9 DEF GiveUp, Panel
  <2>2. Aligned => NoneFreeUpTo(panels, r, 1)
    BY <1>1, <1>6, <2>1 DEF NoneFreeUpTo
  <2>3. Aligned => NoneFreeBefore'
    BY <1>5, <1>9, <2>1, <2>2
  <2> QED
    BY <1>3, <2>1, <2>3 DEF FitInv
<1>10. CASE Store
  BY <1>10 DEF Store, FitInv
<1>11. CASE UNCHANGED vars
  BY <1>11 DEF vars, FitInv, Aligned, InGrid, NoneFreeBefore, Free
<1> QED
  BY <1>4, <1>7, <1>8, <1>9, <1>10, <1>11 DEF Next, Scan

\* On a dashboard of equally wide, aligned panels no place before the one that is
\* chosen is free, on every grid and for every number of panels.
THEOREM FirstFitCorrect == Spec => [](FitInv /\ FirstFit)
<1>1. Init => FitInv
  BY DEF Init, FitInv
<1>2. FitInv => FirstFit
  BY DEF FitInv, FirstFit
<1> QED
  BY <1>1, <1>2, StepFit, PlaceTypeCorrect, SearchCorrect, PTL DEF Spec
-----------------------------------------------------------------------------
\* All that the proofs above rest on, as one inductive invariant of the search.
THEOREM PlaceInvariant == Spec => []IInv
<1>1. (ScanInv /\ PlacedInv) /\ NoOverlap /\ GivenUpMeansFull /\ FitInv => IInv
  BY DEF IInv
<1> QED
  BY <1>1, SearchCorrect, NoOverlapCorrect, GivenUpCorrect, FirstFitCorrect, PTL
=============================================================================
