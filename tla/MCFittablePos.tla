---------------------------- MODULE MCFittablePos ----------------------------
(* FittablePos on a small grid, for TLC. *)
EXTENDS FittablePos

CONSTANT Old   \* the panels that may be on the dashboard before

\* Panels of several sizes anywhere in the grid.
OldPanels ==
  {p \in [Id : Old, Col : 1..maxSizeX, Row : 1..maxSizeY, Size_x : 1..3, Size_y : 1..2] :
     InGrid(p)}

\* At most two of them, not over one another, in either order.
SmallDashboards ==
  {ps \in {<<>>} \cup {<<p>> : p \in OldPanels}
                 \cup {<<p, q>> : p \in OldPanels, q \in OldPanels} :
     NoneOverlap(ps) /\ DistinctIds(ps)}

\* At most one panel.
TinyDashboards == {<<>>} \cup {<<p>> : p \in OldPanels}
=============================================================================
