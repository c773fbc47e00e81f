-------------------------------- MODULE ListsMC --------------------------------
(***************************************************************************)
(* The lists (Lists) and the data grid (Grid), which shares no code with   *)
(* them: a behaviour looks at one of the four.                             *)
(***************************************************************************)
EXTENDS Lists, Grid

CONSTANT Grids  \* whether the grid is looked at

ASSUME ListsMCAssumption == Grids \in BOOLEAN

everything == <<all, grid>>

(* What the cells of three items show.  The first column has numbers, two  *)
(* of them the same; the second is mixed.                                  *)
Ten == [text |-> 1, num |-> 10, numeric |-> TRUE]
TenA == [text |-> 2, num |-> 0, numeric |-> FALSE]
Nine == [text |-> 3, num |-> 9, numeric |-> TRUE]
TableCells ==
  [it \in Items |-> <<<<Nine, Ten, Ten>>[it], <<Ten, TenA, Nine>>[it]>>]

(* The order a list comes in: sorted already by a column or by neither.   *)
TableContents == {<<1, 2, 3>>, <<3, 1, 2>>, <<2, 3, 1>>}

(* The application's nodes: 2 and 4 are children of 1, 3 is a child of 2.  *)
TreeParents == <<0, 1, 2, 1>>

(* The grids of a run: rows that scroll, columns that scroll beside one    *)
(* that does not, and rows of two columns, over which merges may lie.      *)
GridShapes ==
  {[rows |-> 4, cols |-> 1, vis_rows |-> 3, npos |-> 1, frozen0 |-> 0, changes |-> 2],
   [rows |-> 1, cols |-> 4, vis_rows |-> 1, npos |-> 3, frozen0 |-> 1, changes |-> 2],
   [rows |-> 3, cols |-> 2, vis_rows |-> 2, npos |-> 2, frozen0 |-> 0, changes |-> 1]}

AllInit ==
  \/ LInit /\ grid = NoGrid
  \/ /\ Grids /\ form = "grid" /\ Init /\ kind = "single" /\ table = NoTable /\ tree = NoTree
     /\ \E shape \in Shapes, app \in Applications : grid = NewGrid(shape, app)

GridStep == form = "grid" /\ (GridUsed \/ GridProgrammed \/ GridChanged) /\ UNCHANGED all

AllNext == (LNext /\ UNCHANGED grid) \/ GridStep

AllSpec == AllInit /\ [][AllNext]_everything
=============================================================================
