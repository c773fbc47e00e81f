--------------------------------- MODULE Layout ---------------------------------
(***************************************************************************)
(* How a container's extent is divided among its children: a stack's main  *)
(* axis on GTK4 (AeuiFlexLayout), Win32 (stack_do_layout) and Android      *)
(* (LayoutParams for a LinearLayout), and Win32's own flow, split and grid.*)
(* All are functions of what the children ask for; sizes are small         *)
(* integers, and a child of a stack is a record:                           *)
(*   nat, min   what it measures as, and its minimum (GTK alone has both), *)
(*   weight     0 or the share widget_weight gave it,                      *)
(*   spacer     it is a spacer(),                                          *)
(*   greedy     it takes slack unasked (a canvas, a scroll area),          *)
(*   margin     its two margins along the axis, together.                  *)
(***************************************************************************)
EXTENDS Integers, Sequences, FiniteSets, SequencesExt

Total(sizes) == FoldLeft(LAMBDA a, b : a + b, 0, sizes)
AtLeast(a, b) == IF a < b THEN b ELSE a

HasSpacer(kids) == \E i \in DOMAIN kids : kids[i].spacer

(* Who takes a share of what is left, and how big a one.                   *)
GtkWeight(kids, i) ==
  CASE kids[i].weight > 0 -> kids[i].weight
    [] kids[i].weight = 0 /\ kids[i].spacer -> 1
    [] OTHER -> IF kids[i].greedy /\ ~HasSpacer(kids) THEN 1 ELSE 0
Win32Weight(kids, i) ==
  CASE kids[i].spacer -> 0
    [] ~kids[i].spacer /\ kids[i].weight > 0 -> kids[i].weight
    [] OTHER -> IF kids[i].greedy /\ ~HasSpacer(kids) THEN 1 ELSE 0

(* Both divide what is left by the shares, hold a child whose part is less *)
(* than its minimum at that minimum, and divide again: round after round,  *)
(* child after child. pool and shares are what is left of each.            *)
Pin(kids, least, weight, s, i) ==
  IF weight[i] > 0 /\ i \notin s.pinned /\ s.shares > 0 /\ (s.pool * weight[i]) \div s.shares < least[i]
  THEN [pinned |-> s.pinned \cup {i}, pool |-> AtLeast(s.pool - least[i], 0),
        shares |-> s.shares - weight[i]]
  ELSE s
Round(kids, least, weight, s) ==
  FoldLeft(LAMBDA t, i : Pin(kids, least, weight, t, i), s, [i \in DOMAIN kids |-> i])
Clamped(kids, least, weight, pool) ==
  FoldLeft(LAMBDA s, n : Round(kids, least, weight, s),
           [pinned |-> {}, pool |-> pool, shares |-> Total([i \in DOMAIN kids |-> weight[i]])],
           [i \in DOMAIN kids |-> i])

(* The last of those not pinned takes what the division leaves over.       *)
Free(s, weight) == {i \in DOMAIN weight : weight[i] > 0 /\ i \notin s.pinned}
Share(s, least, weight, i) ==
  LET others == {j \in Free(s, weight) : j < i}
  IN CASE i \in s.pinned -> least[i]
       [] i \notin s.pinned /\ \E j \in Free(s, weight) : j > i -> (s.pool * weight[i]) \div s.shares
       [] OTHER -> s.pool - Total([j \in DOMAIN weight |->
                     IF j \in others THEN (s.pool * weight[j]) \div s.shares ELSE 0])

Gaps(kids, spacing) == IF kids = <<>> THEN 0 ELSE (Len(kids) - 1) * spacing

(* aeui_flex_layout_allocate; a measure has a widget's margins in it.      *)
GtkSizes(kids, axis, spacing) ==
  LET weight == [i \in DOMAIN kids |-> GtkWeight(kids, i)]
      least == [i \in DOMAIN kids |-> kids[i].min + kids[i].margin]
      fixed == Total([i \in DOMAIN kids |->
                 IF weight[i] > 0 THEN 0 ELSE kids[i].nat + kids[i].margin])
      clamp == Clamped(kids, least, weight, AtLeast(axis - fixed - Gaps(kids, spacing), 0))
  IN [i \in DOMAIN kids |->
        IF weight[i] > 0 THEN Share(clamp, least, weight, i) ELSE kids[i].nat + kids[i].margin]

(* stack_do_layout. A child that takes a share has its margins besides, and*)
(* they are not reserved. A size here is the child's with its margins.     *)
Win32Sizes(kids, axis, spacing) ==
  LET weight == [i \in DOMAIN kids |-> Win32Weight(kids, i)]
      least == [i \in DOMAIN kids |-> kids[i].nat]
      fixed == Total([i \in DOMAIN kids |-> IF weight[i] > 0 \/ kids[i].spacer THEN 0
                                             ELSE kids[i].nat + kids[i].margin])
      flex == AtLeast(axis - fixed - Gaps(kids, spacing), 0)
      clamp == Clamped(kids, least, weight, flex)
      spacers == Cardinality({i \in DOMAIN kids : kids[i].spacer})
      takers == Total([i \in DOMAIN kids |-> weight[i]]) > 0
  IN [i \in DOMAIN kids |->
        CASE kids[i].spacer -> IF takers THEN 0 ELSE flex \div spacers
          [] weight[i] > 0 -> Share(clamp, least, weight, i) + kids[i].margin
          [] OTHER -> kids[i].nat + kids[i].margin]

(* aeui_apply_lp: what a child asks of its LinearLayout, which gives every *)
(* child its length and then divides the rest, one weight after another.   *)
AndroidParams(kid, stated) ==
  CASE kid.spacer -> [length |-> 0, weight |-> 1]
    [] ~kid.spacer /\ kid.weight > 0 ->
         [length |-> IF stated THEN kid.nat ELSE 0, weight |-> kid.weight]
    [] OTHER -> IF kid.greedy /\ ~stated THEN [length |-> 0, weight |-> 1]
                ELSE [length |-> kid.nat, weight |-> 0]
LinearLayout(params, rest) ==
  FoldLeft(LAMBDA s, p :
             LET part == IF p.weight = 0 THEN 0 ELSE (s.rest * p.weight) \div s.weights
             IN [sizes |-> Append(s.sizes, AtLeast(p.length + part, 0)),
                 rest |-> s.rest - part, weights |-> s.weights - p.weight],
           [sizes |-> <<>>, rest |-> rest, weights |-> Total([i \in DOMAIN params |-> params[i].weight])],
           params).sizes
AndroidSizes(kids, axis, spacing) ==
  LET params == [i \in DOMAIN kids |-> AndroidParams(kids[i], FALSE)]
      used == Total([i \in DOMAIN kids |-> params[i].length + kids[i].margin])
      sizes == LinearLayout(params, axis - used - Gaps(kids, spacing))
  IN [i \in DOMAIN kids |-> sizes[i] + kids[i].margin]

Sharers(backend, kids) ==
  {i \in DOMAIN kids :
     CASE backend = "gtk" -> GtkWeight(kids, i) > 0
       [] backend = "win32" -> Win32Weight(kids, i) > 0
       [] backend = "android" -> AndroidParams(kids[i], FALSE).weight > 0}
Sizes(backend, kids, axis, spacing) ==
  CASE backend = "gtk" -> GtkSizes(kids, axis, spacing)
    [] backend = "win32" -> Win32Sizes(kids, axis, spacing)
    [] backend = "android" -> AndroidSizes(kids, axis, spacing)

-----------------------------------------------------------------------------
(* Win32's flow: left to right, a new row where the next would overflow.   *)
(* sizes are <<width, height>>; the layout places, the measure adds up.    *)
Flowed(s, size, width, spacing) ==
  LET wraps == s.x > 0 /\ s.x + size[1] > width
      x == IF wraps THEN 0 ELSE s.x
      y == IF wraps THEN s.y + s.row + spacing ELSE s.y
      row == IF wraps THEN 0 ELSE s.row
  IN [x |-> x + size[1] + spacing, y |-> y, row |-> AtLeast(row, size[2]),
      at |-> Append(s.at, <<x, y>>)]
Flow(sizes, width, spacing) ==
  FoldLeft(LAMBDA s, size : Flowed(s, size, width, spacing),
           [x |-> 0, y |-> 0, row |-> 0, at |-> <<>>], sizes)
(* w32_wrap_flow: before there is a width, one row.                        *)
Measured(s, size, width, spacing) ==
  LET wraps == width > 0 /\ s.x > 0 /\ s.x + size[1] > width
      x == IF wraps THEN 0 ELSE s.x
  IN [x |-> x + size[1] + spacing, y |-> IF wraps THEN s.y + s.row + spacing ELSE s.y,
      row |-> AtLeast(IF wraps THEN 0 ELSE s.row, size[2])]
FlowHeight(sizes, width, spacing) ==
  LET end == FoldLeft(LAMBDA s, size : Measured(s, size, width, spacing),
                      [x |-> 0, y |-> 0, row |-> 0], sizes)
  IN IF sizes = <<>> THEN 0 ELSE end.y + end.row

(* Win32's splitview: where the divider ends up (minA, minB: the panes'    *)
(* floors, the hard one where they set none), and the two panes.           *)
SplitAt(asked, extent, divider, minA, minB) ==
  LET raised == AtLeast(asked, minA)
      most == extent - divider - minB
  IN AtLeast(IF raised > most THEN most ELSE raised, 0)
Panes(asked, extent, divider, minA, minB) ==
  LET at == SplitAt(asked, extent, divider, minA, minB)
  IN <<at, AtLeast(extent - at - divider, 0)>>

-----------------------------------------------------------------------------
(* Grids: items at (row, col), which span rows and cols and ask for wide.  *)
(* there says whose widgets are still in the grid. GTK and Android know an *)
(* item by its child; Win32's table of items, of ItemsMax, keeps one for   *)
(* every placing, also of a child placed again or removed since.           *)
NewGrid(backend, cols) == [on |-> backend, cols |-> cols, items |-> <<>>, there |-> {}]
Item(id, row, col, rows, cols, wide) ==
  [id |-> id, row |-> row, col |-> col, rows |-> rows, cols |-> cols, wide |-> wide]

Placed(s, it) == [s EXCEPT !.items = Append(@, it), !.there = @ \cup {it.id}]
GtkPlace(s, it) == Placed([s EXCEPT !.items = SelectSeq(@, LAMBDA o : o.id # it.id)], it)
AndroidPlace(s, it) == Placed([s EXCEPT !.items = SelectSeq(@, LAMBDA o : o.id # it.id)], it)
Win32Place(s, it, itemsMax) == IF Len(s.items) >= itemsMax THEN s ELSE Placed(s, it)
Place(s, it, itemsMax) ==
  CASE s.on = "gtk" -> GtkPlace(s, it)
    [] s.on = "android" -> AndroidPlace(s, it)
    [] s.on = "win32" -> Win32Place(s, it, itemsMax)
RemoveItem(s, id) ==
  [s EXCEPT !.there = @ \ {id},
            !.items = IF s.on = "win32" THEN @ ELSE SelectSeq(@, LAMBDA o : o.id # id)]

Covers(it, r, c) ==
  r >= it.row /\ r < it.row + it.rows /\ c >= it.col /\ c < it.col + it.cols
CellTaken(s, r, c) == \E i \in DOMAIN s.items : Covers(s.items[i], r, c)
(* The next empty cell, row by row; bound: there is one among the first n. *)
NextCell(s, n) ==
  LET k == CHOOSE k \in 0 .. n : /\ ~CellTaken(s, k \div s.cols, k % s.cols)
                                 /\ \A j \in 0 .. k - 1 : CellTaken(s, j \div s.cols, j % s.cols)
  IN <<k \div s.cols, k % s.cols>>

(* w32_grid_tracks, the columns: first the children of one cell, then those*)
(* that span, the last track of each widened by what is missing.           *)
Spanning(it) == it.cols > 1 \/ it.rows > 1
Span(tracks, it, spacing) ==
  Total([k \in 1 .. it.cols |-> tracks[it.col + k - 1]]) + (it.cols - 1) * spacing
Widened(tracks, it, spacing) ==
  LET missing == AtLeast(it.wide - Span(tracks, it, spacing), 0)
  IN [tracks EXCEPT ![it.col + it.cols - 1] = @ + missing]
Tracks(s) ==
  LET ends == {s.items[i].col + s.items[i].cols : i \in {j \in DOMAIN s.items : s.items[j].id \in s.there}}
  IN IF ends = {} THEN 0 ELSE CHOOSE e \in ends : \A f \in ends : f <= e
Columns(s, spacing) ==
  LET here == SelectSeq(s.items, LAMBDA it : it.id \in s.there)
      None == [c \in 0 .. Tracks(s) - 1 |-> 0]
      singles == FoldLeft(LAMBDA t, it : IF Spanning(it) THEN t ELSE Widened(t, it, spacing), None, here)
  IN FoldLeft(LAMBDA t, it : IF Spanning(it) THEN Widened(t, it, spacing) ELSE t, singles, here)
=================================================================================
