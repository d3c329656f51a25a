----------------------------- MODULE FittablePos -----------------------------
(***************************************************************************)
(* Where a new panel goes on the Kibana dashboard: put and fittablePos of  *)
(* utils/comm/db/elasticsearch_kibana.go, as the state machine of the two  *)
(* nested loops, with one step per candidate position.                     *)
(*                                                                         *)
(* One collector adds its visualizations one after the other to a          *)
(* dashboard that may hold panels of any size already.  What happens when  *)
(* several collectors do so at the same time is left out.                  *)
(*                                                                         *)
(* Rows and columns count from 1.  The panels have positive sizes, as the  *)
(* ones that Kibana and this program write do.                             *)
(***************************************************************************)
EXTENDS Integers, Sequences, FiniteSetsExt

CONSTANTS
  PanelId,      \* the ids of visualizations
  maxSizeX,     \* maxSizeXKibanaDashboard: one more than the last column
  maxSizeY,     \* maxSizeYKibanaDashboard: one more than the last row
  sizeX, sizeY, \* the size of the panels that CreateNode adds
  Dashboards    \* the contents of the dashboard before

Positive == Nat \ {0}
Panel == [Id : PanelId, Col : Positive, Row : Positive, Size_x : Positive, Size_y : Positive]

\* Faulty variant of intersects: only the corner of the other panel counts.
intersectsCorner(p, other) ==
  ~ \/ other.Col < p.Col
    \/ other.Row < p.Row
    \/ other.Col >= p.Col + p.Size_x
    \/ other.Row >= p.Row + p.Size_y

\* Two panels intersect unless one is beside, above or below the other.
intersects(p, other) ==
  ~ \/ other.Col + other.Size_x <= p.Col
    \/ other.Row + other.Size_y <= p.Row
    \/ other.Col >= p.Col + p.Size_x
    \/ other.Row >= p.Row + p.Size_y

Overlaps(ps, p) == {i \in DOMAIN ps : intersects(ps[i], p)}

\* Faulty variant of InGrid: the last row is not used.
InGridStrict(p) == p.Col + p.Size_x <= maxSizeX /\ p.Row + p.Size_y < maxSizeY

InGrid(p) == p.Col + p.Size_x <= maxSizeX /\ p.Row + p.Size_y <= maxSizeY

\* The cells of the grid that a panel covers.
Cells(p) == (p.Col .. p.Col + p.Size_x - 1) \X (p.Row .. p.Row + p.Size_y - 1)

\* A panel covers a cell of an earlier one only where the search has given up.
NoneOverlap(ps) ==
  \A i, j \in DOMAIN ps :
    i < j /\ Cells(ps[i]) \cap Cells(ps[j]) # {} => ps[j].Row >= maxSizeY

DistinctIds(ps) == \A i, j \in DOMAIN ps : ps[i].Id = ps[j].Id => i = j

ASSUME GridAssumption ==
  /\ PanelId # {}
  /\ maxSizeX \in Nat /\ maxSizeY \in Nat
  /\ sizeX \in 1..(maxSizeX - 1) /\ sizeY \in 1..(maxSizeY - 1)
  /\ Dashboards \subseteq Seq(Panel)
  /\ \A ps \in Dashboards : NoneOverlap(ps) /\ DistinctIds(ps)

VARIABLES
  panels,     \* kdb.Panels, the panels of the stored dashboard
  tempPanel,  \* the panel to place, at the position tried
  pc          \* "idle", "scan" in the loops, "placed" once a position is chosen

vars == <<panels, tempPanel, pc>>
-----------------------------------------------------------------------------
NewPanel(id) == [Id |-> id, Col |-> 1, Row |-> 1, Size_x |-> sizeX, Size_y |-> sizeY]

Present(ps, id) == \E i \in DOMAIN ps : ps[i].Id = id

\* put: an empty dashboard takes the panel in its corner, one that has it is
\* left alone, in any other a position is searched.
Put(id) ==
  /\ pc = "idle"
  /\ tempPanel' = NewPanel(id)
  /\ \/ panels = <<>> /\ pc' = "placed"
     \/ /\ Present(panels, id)
        /\ pc' = "idle"
     \/ /\ panels # <<>>
        /\ ~Present(panels, id)
        /\ pc' = "scan"
  /\ UNCHANGED panels

\* Faulty variants of Jump: one column too many or too few, for the increment
\* of the loop; an assignment instead of an addition.
JumpTooFar(p) == tempPanel.Col + p.Size_x + 1
JumpTooShort(p) == tempPanel.Col + p.Size_x - 1
JumpToSize(p) == p.Size_x

\* The next column after an overlap with p: Col += Size_x - 1 in the body of the
\* loop, and Col++ of the loop itself.
Jump(p) == tempPanel.Col + p.Size_x

\* One candidate position: the first panel in the way decides how far to jump.
TryPosition ==
  /\ pc = "scan"
  /\ tempPanel.Row < maxSizeY
  /\ tempPanel.Col < maxSizeX
  /\ LET overlaps == Overlaps(panels, tempPanel) IN
     \/ /\ overlaps # {}
        /\ tempPanel' = [tempPanel EXCEPT !.Col = Jump(panels[Min(overlaps)])]
        /\ UNCHANGED pc
     \/ /\ overlaps = {} /\ InGrid(tempPanel)
        /\ pc' = "placed"
        /\ UNCHANGED tempPanel
     \/ /\ overlaps = {} /\ ~InGrid(tempPanel)
        /\ tempPanel' = [tempPanel EXCEPT !.Col = @ + 1]
        /\ UNCHANGED pc
  /\ UNCHANGED panels

\* Faulty variant of FirstColumn: columns count from 0.
FirstColumnZero == 0

FirstColumn == 1

\* Row++ of the outer loop, Col = 1 of the inner one.
NextRow ==
  /\ pc = "scan"
  /\ tempPanel.Row < maxSizeY
  /\ tempPanel.Col >= maxSizeX
  /\ tempPanel' = [tempPanel EXCEPT !.Row = @ + 1, !.Col = FirstColumn]
  /\ UNCHANGED <<panels, pc>>

\* No position was found: the panel goes below the grid, over whatever is there.
GiveUp ==
  /\ pc = "scan"
  /\ tempPanel.Row >= maxSizeY
  /\ tempPanel' = [tempPanel EXCEPT !.Col = 1]
  /\ pc' = "placed"
  /\ UNCHANGED panels

\* The dashboard is written back, or the request fails.
Store ==
  /\ pc = "placed"
  /\ \/ panels' = Append(panels, tempPanel)
     \/ UNCHANGED panels
  /\ pc' = "idle"
  /\ UNCHANGED tempPanel

Scan == TryPosition \/ NextRow \/ GiveUp

Init ==
  /\ panels \in Dashboards
  /\ tempPanel = NewPanel(CHOOSE id \in PanelId : TRUE)
  /\ pc = "idle"

Next == (\E id \in PanelId : Put(id)) \/ Scan \/ Store

\* The loop runs on, whatever else happens in the process.
Spec == Init /\ [][Next]_vars /\ WF_vars(Scan)
-----------------------------------------------------------------------------
TypeOK ==
  /\ panels \in Seq(Panel)
  /\ tempPanel \in Panel
  /\ pc \in {"idle", "scan", "placed"}

\* put never covers a panel with another one, unless the grid is used up and the
\* panel goes below it (fittablePos, last line).
NoOverlap == NoneOverlap(panels)

\* fittablePos gives up only if the panels reach so far down that the new one
\* does not fit below them: jumping over columns loses no free row.
GivenUpMeansFull ==
  pc = "placed" /\ tempPanel.Row >= maxSizeY =>
    \E i \in DOMAIN panels : panels[i].Row + panels[i].Size_y + sizeY > maxSizeY

\* A place in the grid where the new panel overlaps none.
Free(col, row) ==
  LET p == [tempPanel EXCEPT !.Col = col, !.Row = row] IN
    InGrid(p) /\ \A i \in DOMAIN panels : Cells(panels[i]) \cap Cells(p) = {}

\* The columns 1, 1 + sizeX, 1 + 2 * sizeX, ...
OnGrid(col) == \E k \in 0..col : col = 1 + k * sizeX

\* The panels are as wide as the new one and stand in its columns.
Aligned == \A i \in DOMAIN panels : panels[i].Size_x = sizeX /\ OnGrid(panels[i].Col)

\* No place in an earlier row is free, and none further left in the same row.
NoneFreeBefore ==
  \A row \in 1..tempPanel.Row, col \in 1..maxSizeX :
    row < tempPanel.Row \/ col < tempPanel.Col => ~Free(col, row)

\* On a dashboard of equally wide panels, the position that fittablePos finds is
\* the first free one, row by row: the jump over a panel skips no free place.
FirstFit ==
  pc = "placed" /\ Aligned => NoneFreeBefore

\* Every step of the search goes on to a later position, row by row.
ScanAdvances ==
  [][pc = "scan" /\ pc' = "scan" =>
       \/ tempPanel'.Row > tempPanel.Row
       \/ tempPanel'.Row = tempPanel.Row /\ tempPanel'.Col > tempPanel.Col]_vars

\* The search ends: the registry's lock, held around it, is released.
ScanEnds == pc = "scan" ~> pc = "placed"
-----------------------------------------------------------------------------
(* The inductive invariant *)

\* While the search runs the panel is new, and if there is room below row b, the
\* search has not gone past the start of row b.
ScanInv ==
  /\ pc # "idle" =>
       /\ tempPanel.Size_x = sizeX /\ tempPanel.Size_y = sizeY
       /\ \A i \in DOMAIN panels : panels[i].Id # tempPanel.Id
  /\ pc = "scan" =>
       \A b \in 1..(maxSizeY - sizeY) :
         (\A i \in DOMAIN panels : panels[i].Row + panels[i].Size_y <= b)
           => tempPanel.Row < b \/ (tempPanel.Row = b /\ tempPanel.Col = 1)

\* A position that was chosen is free, or the search has given up.
PlacedInv ==
  pc = "placed" /\ tempPanel.Row < maxSizeY => Overlaps(panels, tempPanel) = {}

\* In a row where the new panel can stand, the search stays on the grid of the
\* aligned panels; what it has gone past is not free.
FitInv ==
  /\ pc = "scan" /\ Aligned => OnGrid(tempPanel.Col) \/ ~InGrid(tempPanel)
  /\ pc # "idle" /\ Aligned => NoneFreeBefore

IInv == ScanInv /\ PlacedInv /\ NoOverlap /\ GivenUpMeansFull /\ FitInv
=============================================================================
