------------------------------- MODULE CanvasMC -------------------------------
(* The figures and scenes of the canvas's run: an open line, a triangle, a *)
(* triangle and an open corner beside it, and a dot; and scenes of up to   *)
(* two rectangles over two cells.                                          *)
EXTENDS Canvas

To(k, p) == Cmd(k, p, 0)
Triangle == <<To("move", 1), To("line", 2), To("line", 3), To("close", 0)>>

MCFigures ==
  {<<To("move", 1), To("line", 2)>>, Triangle,
   Triangle \o <<To("move", 4), To("line", 5), To("line", 6)>>,
   <<To("move", 1), To("line", 1)>>}

Rect(cell, n) == Cmd("rect", cell, n)
MCScenes ==
  {<<Rect(1, 1)>>, <<Rect(1, 2)>>, <<Rect(1, 1), Rect(2, 1)>>}
=============================================================================
