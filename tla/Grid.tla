--------------------------------- MODULE Grid ---------------------------------
(***************************************************************************)
(* The data grid of ui/module.ae: a window of cell widgets over a model of *)
(* rows and columns, with leading ones frozen, some hidden, columns moved, *)
(* rows of their own height, merged cells, a selection and an editor that  *)
(* is laid over a cell.                                                    *)
(*                                                                         *)
(* The widgets are made once and show another cell after every scroll.  So *)
(* the cursor, the window, the editor and what is hidden are numbers of    *)
(* four kinds: model rows, model columns, view columns and places among    *)
(* those shown.  An event of a person or a call of the program is one      *)
(* operator from a grid to the next, run with all it calls; on_select and  *)
(* on_edit are the application's and run in the middle.  Rows and columns  *)
(* count from 0, -1 is none, and slots and positions count from 1.         *)
(***************************************************************************)
EXTENDS Integers, Sequences, SequencesExt, FiniteSets, FiniteSetsExt

CONSTANTS
  Shapes,     \* the grids looked at: [rows, cols, vis_rows, npos, frozen0,
              \* changes], the last a bound on what is done to one of them
  RowHeight,  \* the grid's height of a row
  OwnHeights  \* bound: those a row may be given

ASSUME GridAssumption ==
  /\ RowHeight \in Nat \ {0} /\ OwnHeights \subseteq Nat
  /\ \A s \in Shapes :
       /\ {s.rows, s.cols, s.vis_rows, s.npos} \subseteq Nat \ {0}
       /\ s.frozen0 \in 0 .. s.npos - 1 /\ s.vis_rows <= s.rows /\ s.npos <= s.cols
       /\ s.changes \in Nat

VARIABLE grid

NoEditor == [r |-> -1]

(* What the application does in on_select: nothing, or it opens an editor  *)
(* on the cell it is told of, "as a spreadsheet's point mode does".        *)
Applications == {"stores", "points"}

(* --- rows and columns that are not hidden --------------------------------- *)

(* Sequences in ascending order: how many come before x, and the i-th of   *)
(* them from 0 on.                                                         *)
Between(v, hi) == IF v < 0 THEN 0 ELSE IF v > hi THEN hi ELSE v
Rank(seq, x) == Cardinality({i \in DOMAIN seq : seq[i] < x})
Nth(seq, i) == IF i + 1 \in DOMAIN seq THEN seq[i + 1] ELSE -1
(* _datagrid_row_fix, _datagrid_col_fix: x if it is shown, else the next   *)
(* one that is, else the last.                                             *)
Nearest(seq, x, hi) == Nth(seq, Between(Rank(seq, Between(x, hi)), Len(seq) - 1))
(* _datagrid_row_step, _datagrid_col_step.                                 *)
Stepped(seq, x, hi, d) == Nth(seq, Between(Rank(seq, Nearest(seq, x, hi)) + d, Len(seq) - 1))

RowFix(g, r) == Nearest(g.vrows, r, g.rows - 1)
ColFix(g, c) == Nearest(g.vcols, c, g.cols - 1)
RowStep(g, r, d) == Stepped(g.vrows, r, g.rows - 1, d)
ColStep(g, c, d) == Stepped(g.vcols, c, g.cols - 1, d)

RowHidden(g, r) == r \in 0 .. g.rows - 1 \ ToSet(g.vrows)
ColHidden(g, c) == g.order[c] \in g.col_hid
VisCols(g) == g.npos - g.frozen
(* _datagrid_col_lists.                                                    *)
ColLists(g) ==
  LET all_cols == [i \in 1 .. g.cols |-> i - 1]
  IN  [g EXCEPT !.vcols = SelectSeq(all_cols, LAMBDA c : ~ColHidden(g, c)),
                !.scols = SelectSeq(all_cols, LAMBDA c : ~ColHidden(g, c) /\ c >= g.frozen)]

(* --- the window ------------------------------------------------------------ *)

RowH(g, r) == IF g.row_hs[r] > 0 THEN g.row_hs[r] ELSE RowHeight
Heights(g, from, to) ==
  LET rs == SelectSeq(g.vrows, LAMBDA r : from <= r /\ r <= to)
      upto[i \in 0 .. Len(rs)] == IF i = 0 THEN 0 ELSE upto[i - 1] + RowH(g, rs[i])
  IN  upto[Len(rs)]
FullH(g) ==
  LET full == g.vis_rows * RowHeight
  IN  IF g.height_px > 0 /\ g.height_px < full THEN g.height_px ELSE full

(* The height the rows that scroll have, and the first of these.           *)
ScrollBudget(g) == FullH(g) - Heights(g, 0, g.frozen_rows - 1)
VBase(g) == Rank(g.vrows, g.frozen_rows)

(* _datagrid_start_for: the earliest first row with which r still fits.    *)
StartFor(g, r) ==
  LET budget == ScrollBudget(g)
      fit == SelectSeq(g.vrows, LAMBDA p : p <= r /\ p >= g.frozen_rows
                                             /\ Heights(g, p, r) <= budget)
  IN  IF fit = <<>> THEN r ELSE Head(fit)

(* _datagrid_vplaces.                                                      *)
VPlaces(g) ==
  LET last == RowFix(g, g.rows - 1)
  IN  IF last < g.frozen_rows THEN 0
      ELSE Between(Rank(g.vrows, StartFor(g, last)) - VBase(g), g.rows)

Slots(g) == 1 .. g.vis_rows
Positions(g) == 1 .. g.npos
LastShown(g) ==
  LET filled == SelectSeq(SubSeq(g.slot_row, g.frozen_rows + 1, g.vis_rows), LAMBDA r : r >= 0)
  IN  IF filled = <<>> THEN g.first_row ELSE Last(filled)

(* The rows of _datagrid_layout: a row too tall for what is left takes a   *)
(* slot and shows nothing, and the one below is tried in the next.         *)
LaidRows(g) ==
  LET full == FullH(g)
      below == SelectSeq(g.vrows, LAMBDA r : r >= g.first_row)
      Tried(s) == IF s > g.frozen_rows THEN Nth(below, s - 1 - g.frozen_rows)
                  ELSE IF RowHidden(g, s - 1) THEN -1 ELSE s - 1
      laid[s \in 0 .. g.vis_rows] ==
        IF s = 0 THEN [used |-> 0, rows |-> <<>>]
        ELSE LET above == laid[s - 1]
                 row == Tried(s)
                 fits == row >= 0
                   /\ (s > g.frozen_rows + 1 => above.used + RowH(g, row) <= full)
             IN  [used |-> above.used + IF fits THEN RowH(g, row) ELSE 0,
                  rows |-> Append(above.rows, IF fits THEN row ELSE -1)]
  IN  laid[g.vis_rows].rows

LaidCols(g) ==
  [j \in Positions(g) |->
     IF j <= g.frozen THEN j - 1
     ELSE Nth(g.scols, Rank(g.scols, g.first_col) + j - 1 - g.frozen)]
PosOff(g, cols) ==
  {j \in Positions(g) : IF j <= g.frozen THEN ColHidden(g, j - 1) ELSE cols[j] = -1}

(* A position that goes or comes hides or shows its boxes whole, and no    *)
(* cell in it counts as hidden under a merge any more.                     *)
Column(g, J) == Slots(g) \X J
Layout(g) ==
  LET cols == LaidCols(g)
      off == PosOff(g, cols)
      turned == SymDiff(off, g.pos_off)
  IN  [g EXCEPT !.slot_row = LaidRows(g), !.slot_col = cols, !.pos_off = off,
                !.box_off = (@ \ Column(g, turned)) \cup Column(g, turned \cap off),
                !.cell_off = @ \ Column(g, turned)]

(* --- merges ---------------------------------------------------------------- *)

Covers(m, r, c) == r \in m.r0 .. m.r1 /\ c \in m.c0 .. m.c1
Merged(g, r, c) == \E m \in g.merges : Covers(m, r, c)
MergeAt(g, r, c) == CHOOSE m \in g.merges : Covers(m, r, c)

Live(g) == {x \in Slots(g) \X Positions(g) : g.slot_row[x[1]] >= 0 /\ x[2] \notin g.pos_off}
(* Role 3 of _datagrid_merge_role: not the first shown cell of its merge   *)
(* in its row.                                                             *)
Under(g, x) ==
  LET r == g.slot_row[x[1]]
  IN  \E m \in g.merges :
        /\ Covers(m, r, g.slot_col[x[2]])
        /\ \E k \in 1 .. x[2] - 1 : k \notin g.pos_off /\ Covers(m, r, g.slot_col[k])
(* _datagrid_spans, which asks cell_off what it hid.                       *)
Spans(g) ==
  LET live == Live(g)
      under == IF g.merges = {} THEN {} ELSE {x \in live : Under(g, x)}
      turned == SymDiff(under, live \cap g.cell_off)
      Turned(S) == (S \ turned) \cup (under \cap turned)
  IN  [g EXCEPT !.cell_off = Turned(@), !.box_off = Turned(@)]

Bind(g) == Spans(Layout(g))

(* --- the editor, the selection and scrolling ------------------------------- *)

(* _datagrid_edit_finish.  Whether the text is stored makes no difference  *)
(* to the grid.                                                            *)
Finish(g) ==
  IF g.edit = NoEditor THEN g
  ELSE Bind([g EXCEPT !.edit = NoEditor, !.fields = @ - 1])

(* datagrid_scroll_to: to a row with which, and with a column with which,  *)
(* the rest fills the window.                                              *)
OrElse(x, y) == IF x < 0 THEN y ELSE x
FirstRow(g, row) ==
  LET wanted == RowFix(g, IF row < g.frozen_rows THEN g.frozen_rows ELSE row)
      at == IF wanted < 0 THEN 0 ELSE Rank(g.vrows, wanted)
  IN  Nth(g.vrows, VBase(g) + Between(at - VBase(g), VPlaces(g)))
FirstCol(g, col) ==
  Nth(g.scols, Between(Rank(g.scols, col), Between(Len(g.scols) - VisCols(g), g.cols)))
Scrolled(g, row, col) ==
  Bind([g EXCEPT !.first_row = OrElse(FirstRow(g, row), g.frozen_rows),
                 !.first_col = OrElse(FirstCol(g, col), g.frozen)])
ScrollTo(g, row, col) == Scrolled(Finish(g), row, col)

(* What _datagrid_set scrolls to for a cursor at (r, c).                   *)
RowInView(g, r) ==
  IF r < g.frozen_rows THEN g.first_row
  ELSE IF r < g.first_row THEN r
  ELSE IF r > g.first_row /\ Rank(g.vrows, r) > Rank(g.vrows, LastShown(g)) THEN StartFor(g, r)
  ELSE g.first_row
(* MUTANT of ColInView: one position too wide.                             *)
ColInViewWide(g, c) ==
  LET ic == Rank(g.scols, c)
      first == Rank(g.scols, g.first_col)
  IN  IF c < g.frozen \/ (first <= ic /\ ic <= first + VisCols(g)) THEN g.first_col ELSE c
ColInView(g, c) ==
  LET ic == Rank(g.scols, c)
      first == Rank(g.scols, g.first_col)
  IN  IF c < g.frozen THEN g.first_col
      ELSE IF ic < first THEN c
      ELSE IF ic > first + VisCols(g) - 1 THEN Nth(g.scols, ic - VisCols(g) + 1)
      ELSE g.first_col

(* _datagrid_set up to on_select, for rows and columns that are shown.     *)
Placed(g, ar, ac, r, c) ==
  LET new == [g EXCEPT !.cur_r = r, !.cur_c = c, !.anc_r = ar, !.anc_c = ac]
      fr == RowInView(new, r)
      fc == ColInView(new, c)
  IN  IF fr # g.first_row \/ fc # g.first_col THEN ScrollTo(new, fr, fc) ELSE new

(* textfield(box): laid over the cell at (cur_r, cur_c), if it is shown.   *)
Opened(g) ==
  LET slots == {s \in Slots(g) : g.slot_row[s] = g.cur_r}
      places == {j \in Positions(g) \ g.pos_off : g.slot_col[j] = g.cur_c}
  IN  IF g.cur_r < 0 \/ slots = {} \/ places = {} THEN g
      ELSE [g EXCEPT !.fields = @ + 1,
                     !.edit = [r |-> g.cur_r, c |-> g.cur_c, slot |-> CHOOSE s \in slots : TRUE,
                               pos |-> CHOOSE j \in places : TRUE, model |-> g.order[g.cur_c]]]

RECURSIVE Select(_, _, _, _, _)
(* _datagrid_move without Shift: onto a merge, all of it is selected, with *)
(* the cursor on its top left.                                             *)
MoveTo(g, r, c) ==
  LET fr == RowFix(g, r)
      fc == ColFix(g, c)
  IN  IF Merged(g, fr, fc)
      THEN LET m == MergeAt(g, fr, fc) IN Select(g, m.r1, m.c1, m.r0, m.c0)
      ELSE Select(g, r, c, r, c)

(* MUTANT of EditBegin: the handler's editor stays open.                   *)
EditBeginOver(g, r, c) ==
  IF g.view_only THEN g ELSE Opened(MoveTo(Finish(g), r, c))
(* _datagrid_edit_begin: the move may have opened the handler's editor,    *)
(* which makes way.                                                        *)
EditBegin(g, r, c) ==
  IF g.view_only THEN g ELSE Opened(Finish(MoveTo(Finish(g), r, c)))

(* on_select, if the selection is another.                                 *)
Corners(g) == <<g.anc_r, g.anc_c, g.cur_r, g.cur_c>>
Told(g, new) ==
  IF g.app = "points" /\ Corners(new) # Corners(g) THEN EditBegin(new, new.cur_r, new.cur_c) ELSE new
(* _datagrid_set.                                                          *)
Select(g, ar, ac, r, c) ==
  LET nr == RowFix(g, r)
      nc == ColFix(g, c)
  IN  IF nr < 0 \/ nc < 0 THEN g ELSE Told(g, Placed(g, RowFix(g, ar), ColFix(g, ac), nr, nc))

(* _datagrid_move.                                                         *)
GridMove(g, r, c, extend) ==
  IF extend /\ g.cur_r >= 0 THEN Select(g, g.anc_r, g.anc_c, r, c) ELSE MoveTo(g, r, c)

(* --- what a person does ----------------------------------------------------- *)

(* _datagrid_clicked, on a cell whose box is shown.                        *)
CellClicked(g, s, j, extend) == GridMove(Finish(g), g.slot_row[s], g.slot_col[j], extend)
CellDoubleClicked(g, s, j) == EditBegin(g, g.slot_row[s], g.slot_col[j])

Arrows == {"Down", "Up", "Right", "Left"}
GridKeys == Arrows \cup {"Tab", "Shift+Tab", "Home", "End", "Page_Down", "Page_Up", "Ctrl+Home", "Ctrl+End"}

(* From a merge, Down and Right leave by its far edge.                     *)
FarEdge(g, k, extend) ==
  IF extend \/ ~Merged(g, g.cur_r, g.cur_c) THEN [r |-> g.cur_r, c |-> g.cur_c]
  ELSE LET m == MergeAt(g, g.cur_r, g.cur_c)
       IN  [r |-> IF k \in {"Down", "Page_Down"} THEN m.r1 ELSE g.cur_r,
            c |-> IF k = "Right" THEN m.c1 ELSE g.cur_c]

(* _datagrid_key without an editor.  The first key lands on the top left.  *)
Pressed(g, k, extend) ==
  LET from == FarEdge(g, k, extend)
      r == CASE k = "Down" -> RowStep(g, from.r, 1)
             [] k = "Up" -> RowStep(g, from.r, -1)
             [] k = "Page_Down" -> RowStep(g, from.r, g.vis_rows)
             [] k = "Page_Up" -> RowStep(g, from.r, -g.vis_rows)
             [] k = "Ctrl+Home" -> 0
             [] k = "Ctrl+End" -> g.rows - 1
             [] OTHER -> from.r
      c == CASE k \in {"Right", "Tab"} -> ColStep(g, from.c, 1)
             [] k \in {"Left", "Shift+Tab"} -> ColStep(g, from.c, -1)
             [] k \in {"Home", "Ctrl+Home"} -> 0
             [] k \in {"End", "Ctrl+End"} -> g.cols - 1
             [] OTHER -> from.c
  IN  IF g.cur_r < 0 THEN GridMove(g, g.first_row, 0, FALSE) ELSE GridMove(g, r, c, extend)

(* Return, Tab and Shift+Tab in an editor.                                 *)
Submitted(g) == MoveTo(Finish(g), RowStep(Finish(g), g.edit.r, 1), g.edit.c)
EditTab(g, dir) == MoveTo(Finish(g), g.edit.r, ColStep(Finish(g), g.edit.c, dir))

(* The two scrollbars, over the places there are to scroll to.             *)
ScrollRows(g, i) ==
  ScrollTo(g, Nth(g.vrows, Between(VBase(g) + i, Len(g.vrows) - 1)), g.first_col)
ScrollColumns(g, i) ==
  ScrollTo(g, g.first_row,
           IF g.scols = <<>> THEN g.first_col ELSE Nth(g.scols, Between(i, Len(g.scols) - 1)))

PersonDoes(g) ==
  \/ \E x \in Live(g) \ g.box_off :
       \/ \E extend \in BOOLEAN : grid' = CellClicked(g, x[1], x[2], extend)
       \/ grid' = CellDoubleClicked(g, x[1], x[2])
  \/ \E i \in 0 .. VPlaces(g) : grid' = ScrollRows(g, i)
  \/ \E i \in 0 .. g.cols - 1 : grid' = ScrollColumns(g, i)
  \/ /\ g.edit = NoEditor
     /\ \/ \E k \in GridKeys : grid' = Pressed(g, k, FALSE)
        \/ \E k \in Arrows : grid' = Pressed(g, k, TRUE)
        \/ g.cur_r >= 0 /\ grid' = EditBegin(g, g.cur_r, g.cur_c)
  \/ /\ g.edit # NoEditor
     /\ grid' = Submitted(g) \/ grid' = Finish(g) \/ \E dir \in {1, -1} : grid' = EditTab(g, dir)

(* --- what the program does -------------------------------------------------- *)

(* _datagrid_rehide.                                                       *)
Rehide(g) ==
  LET fixed == IF g.cur_r >= 0 THEN Select(g, g.anc_r, g.anc_c, g.cur_r, g.cur_c) ELSE g
  IN  ScrollTo(fixed, fixed.first_row, fixed.first_col)
HideRow(g, r) ==
  Rehide([Finish(g) EXCEPT !.vrows =
            SelectSeq([i \in 1 .. g.rows |-> i - 1], LAMBDA x : (x = r) = RowHidden(g, x))])
HideCol(g, c) == Rehide(ColLists([Finish(g) EXCEPT !.col_hid = SymDiff(@, {g.order[c]})]))

Again(g) == ScrollTo(g, g.first_row, g.first_col)
SetRowHeight(g, r, h) == Again([Finish(g) EXCEPT !.row_hs[r] = h])
SetHeight(g, px) == Again([g EXCEPT !.height_px = px])
FreezeRows(g, n) == Again([Finish(g) EXCEPT !.frozen_rows = n])
FreezeCols(g, n) ==
  LET new == ColLists([Finish(g) EXCEPT !.frozen = g.frozen0 + n])
  IN  ScrollTo(new, new.first_row, IF new.first_col < new.frozen THEN new.frozen ELSE new.first_col)

(* _datagrid_remerge.                                                      *)
Remerge(g) == Bind(IF g.cur_r >= 0 THEN MoveTo(g, g.cur_r, g.cur_c) ELSE g)
Overlap(a, b) == a.r0 <= b.r1 /\ b.r0 <= a.r1 /\ a.c0 <= b.c1 /\ b.c0 <= a.c1
Merge(g, m) ==
  Remerge([Finish(g) EXCEPT !.merges = {o \in @ : ~Overlap(o, m)} \cup {m}])
Unmerge(g, m) == Remerge([Finish(g) EXCEPT !.merges = @ \ {m}])

(* datagrid_move_col, which only shows the window again.                   *)
MoveCol(g, from, to) ==
  Bind(ColLists([Finish(g) EXCEPT
    !.order = [c \in DOMAIN @ |->
                 IF c = to THEN @[from]
                 ELSE IF from <= c /\ c < to THEN @[c + 1]
                 ELSE IF to < c /\ c <= from THEN @[c - 1]
                 ELSE @[c]]]))
SetViewOnly(g, on) == [Finish(g) EXCEPT !.view_only = on]

Rectangles(g) ==
  {m \in [r0 : 0 .. g.rows - 1, r1 : 0 .. g.rows - 1, c0 : 0 .. g.cols - 1, c1 : 0 .. g.cols - 1] :
     m.r0 <= m.r1 /\ m.c0 <= m.c1 /\ m.r1 - m.r0 <= 1 /\ m.c1 - m.c0 <= 1
       /\ <<m.r0, m.c0>> # <<m.r1, m.c1>>}

Changed(new) == grid' = [new EXCEPT !.changes = @ + 1]
ShapeChanges(g) ==
  \/ \E r \in 0 .. g.rows - 1 : Changed(HideRow(g, r))
  \/ \E c \in 0 .. g.cols - 1 : Changed(HideCol(g, c))
  \/ \E r \in 0 .. g.rows - 1, h \in OwnHeights : Changed(SetRowHeight(g, r, h))
  \/ \E px \in {0, (g.vis_rows - 1) * RowHeight} \ {g.height_px} : Changed(SetHeight(g, px))
  \/ \E n \in 0 .. g.vis_rows - 1 \ {g.frozen_rows} : Changed(FreezeRows(g, n))
  \/ \E n \in 0 .. g.npos - 1 - g.frozen0 \ {g.frozen - g.frozen0} : Changed(FreezeCols(g, n))
  \/ \E m \in Rectangles(g) \ g.merges : Changed(Merge(g, m))
  \/ \E m \in g.merges : Changed(Unmerge(g, m))
  \/ \E from, to \in g.frozen .. g.cols - 1 : from # to /\ Changed(MoveCol(g, from, to))
  \/ Changed(SetViewOnly(g, ~g.view_only))

(* It selects or edits a cell that is not to be seen (the others a person  *)
(* may click), selects all, as Ctrl+A does, or scrolls.                    *)
ProgramDoes(g) ==
  \/ \E r \in 0 .. g.rows - 1, c \in 0 .. g.cols - 1 :
       /\ ~\E x \in Live(g) : g.slot_row[x[1]] = r /\ g.slot_col[x[2]] = c
       /\ grid' = MoveTo(g, r, c) \/ grid' = EditBegin(g, r, c)
  \/ grid' = Select(g, 0, 0, g.rows - 1, g.cols - 1)
  \/ \E r \in 0 .. g.rows - 1 : grid' = ScrollTo(g, r, g.first_col)

(* --- steps ------------------------------------------------------------------ *)

(* datagrid().                                                             *)
NewGrid(shape, app) ==
  Bind(ColLists([rows |-> shape.rows, cols |-> shape.cols, vis_rows |-> shape.vis_rows,
        npos |-> shape.npos, frozen0 |-> shape.frozen0, frozen |-> shape.frozen0,
        first_row |-> 0, first_col |-> shape.frozen0, frozen_rows |-> 0, height_px |-> 0,
        cur_r |-> -1, cur_c |-> -1, anc_r |-> -1, anc_c |-> -1,
        order |-> [c \in 0 .. shape.cols - 1 |-> c], row_hs |-> [r \in 0 .. shape.rows - 1 |-> 0],
        vrows |-> [i \in 1 .. shape.rows |-> i - 1], vcols |-> <<>>, scols |-> <<>>,
        col_hid |-> {}, merges |-> {},
        slot_row |-> <<>>, slot_col |-> <<>>, pos_off |-> {}, box_off |-> {}, cell_off |-> {},
        edit |-> NoEditor, fields |-> 0, view_only |-> FALSE, app |-> app,
        changes |-> 0, bound |-> shape.changes]))
NoGrid == [rows |-> 0]

GridUsed == PersonDoes(grid)
GridProgrammed == ProgramDoes(grid)
GridChanged == grid.changes < grid.bound /\ ShapeChanges(grid)

(* --- properties -------------------------------------------------------------- *)

Identity(g) == \A c \in DOMAIN g.order : g.order[c] = c

(* "A hidden row or column is never the cursor or the anchor", while a     *)
(* cell is left to be one, and unless a column was moved with one hidden.  *)
HasCursor(g) == g.cur_r >= 0 /\ g.vrows # <<>> /\ g.vcols # <<>>
CursorIsShown(g) ==
  HasCursor(g) =>
    /\ {g.cur_r, g.anc_r} \subseteq ToSet(g.vrows)
    /\ Identity(g) \/ g.col_hid = {} => {g.cur_c, g.anc_c} \subseteq ToSet(g.vcols)

(* An open editor is the only one, lies over the cell that it edits, which *)
(* is to be seen, and would store what is typed where it came from.        *)
EditorHolds(g) ==
  /\ g.fields = IF g.edit = NoEditor THEN 0 ELSE 1
  /\ g.edit # NoEditor =>
       /\ g.slot_row[g.edit.slot] = g.edit.r /\ g.slot_col[g.edit.pos] = g.edit.c
       /\ g.edit.pos \notin g.pos_off /\ <<g.edit.slot, g.edit.pos>> \notin g.box_off
       /\ g.order[g.edit.c] = g.edit.model /\ ~g.view_only

(* The window never runs past the end: a row further up, the rest would    *)
(* not fit, and no position is empty that a column could have.             *)
WindowIsFull(g) ==
  LET above == Nth(g.vrows, Rank(g.vrows, g.first_row) - 1)
      before == Rank(g.scols, g.first_col)
  IN  /\ above >= g.frozen_rows => Heights(g, above, g.rows) > ScrollBudget(g)
      /\ Identity(g) \/ g.col_hid = {} => before = 0 \/ Len(g.scols) - before >= VisCols(g)

(* In every row a merge has one piece, and what it covers is hidden: what  *)
(* cell_off remembers is never what was hidden for another reason.         *)
MergesDrawn(g) == \A x \in Live(g) : x \in g.box_off <=> Under(g, x)

(* Down and Right leave a merge, if there is a row below or a column       *)
(* beside it.                                                              *)
KeysLeave(g) ==
  g.edit = NoEditor /\ HasCursor(g) /\ Merged(g, g.cur_r, g.cur_c) =>
    LET m == MergeAt(g, g.cur_r, g.cur_c)
    IN  /\ (\E r \in ToSet(g.vrows) : r > m.r1) => Pressed(g, "Down", FALSE).cur_r > m.r1
        /\ (\E c \in ToSet(g.vcols) : c > m.c1) => Pressed(g, "Right", FALSE).cur_c > m.c1

(* What a grid shows, edits and selects is what its numbers say.           *)
GridHolds ==
  grid # NoGrid =>
    CursorIsShown(grid) /\ EditorHolds(grid) /\ WindowIsFull(grid) /\ MergesDrawn(grid)
      /\ KeysLeave(grid)

(* "The cursor is always scrolled into view."                              *)
CursorInView(g) ==
  /\ \E s \in Slots(g) : g.slot_row[s] = g.cur_r
  /\ \E j \in Positions(g) \ g.pos_off : g.slot_col[j] = g.cur_c
(* The grid scrolls by height and counts its slots: a row too tall for the *)
(* slot it comes to is left out, a hidden frozen row, or rows lower than   *)
(* the grid's, leave fewer slots than would fit, and what was shown when a *)
(* row is hidden says nothing of rows of another height.                   *)
RowPerSlot(g) ==
  /\ \A r \in ToSet(g.vrows) : g.first_row <= r /\ r <= LastShown(g) =>
       \E s \in Slots(g) : g.slot_row[s] = r
  /\ \A r \in ToSet(g.vrows) : RowH(g, r) >= RowHeight
  /\ \A r \in 0 .. g.frozen_rows - 1 : ~RowHidden(g, r)
Alike(g) == \A r \in DOMAIN g.row_hs : g.row_hs[r] = 0
CursorAlwaysSeen ==
  [][grid # NoGrid /\ <<grid'.cur_r, grid'.cur_c>> # <<grid.cur_r, grid.cur_c>>
       /\ RowPerSlot(grid') /\ (grid'.vrows = grid.vrows \/ Alike(grid')) =>
         CursorInView(grid')]_grid
=============================================================================
