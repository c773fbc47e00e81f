------------------------------ MODULE CanvasInk ------------------------------
(***************************************************************************)
(* What the backends make of one canvas command list.  The list is the     *)
(* same everywhere; what it means is written four times: for cairo (GTK4), *)
(* for Skia (Android), and on Win32 for GDI+ and for plain GDI.  cairo and *)
(* Skia keep a path while they go through the list; GDI and GDI+ keep none *)
(* and look back to the last BEGIN when a command needs one.               *)
(*                                                                         *)
(* A replay is a function of the list: the ink it leaves, one record per   *)
(* drawing with the command that drew it, its figures, its fill rule, the  *)
(* clips in force and the group layers it is composited through.  Colours, *)
(* widths, gradients' stops and fonts are those of the command.            *)
(***************************************************************************)
EXTENDS Integers, FiniteSets, SequencesExt, TLC

CONSTANTS
  GroupMax,   \* GRP_MAX: the layers the GDI+ replay can stack, 8 in the code
  LayerMax,   \* the bases the Android replay can stack, 64 in the code
  SavedMax    \* the clip regions the GDI replay can remember, 16 in the code

ASSUME InkAssumption == {GroupMax, LayerMax, SavedMax} \subseteq Nat \ {0}

(* A command: its kind, a point of the canvas (0: it has none) and a       *)
(* number: a fill rule, an alpha, a width, smoothing on or off, which      *)
(* gradient (1 linear, 2 radial), or, for an image, 1 if it is drawn larger*)
(* than its pixels in either direction.                                    *)
Cmd(k, at, n) == [k |-> k, at |-> at, n |-> n]

PathKinds == {"begin", "move", "line", "arc", "close"}
Painters  == {"stroke", "gstroke", "fill", "gfill"}
Consumers == Painters \cup {"clippath"}

-----------------------------------------------------------------------------
(* Figures: points in order, a circle being minus its centre.              *)

Figure(pts) == [pts |-> pts, closed |-> FALSE]

(* cairo_line_to, cairo_arc: on from the last point, from the start of a   *)
(* figure just closed, or a first point when there is none.                *)
Extended(path, p) ==
  IF path = <<>> THEN <<Figure(<<p>>)>>
  ELSE IF Last(path).closed THEN Append(path, Figure(<<Last(path).pts[1], p>>))
  ELSE [path EXCEPT ![Len(path)].pts = Append(@, p)]

Closed(path) == IF path = <<>> THEN path ELSE [path EXCEPT ![Len(path)].closed = TRUE]

(* The lines a stroke follows, and the outlines that enclose an area.      *)
Stroked(path) ==
  {IF f.closed THEN Append(f.pts, f.pts[1]) ELSE f.pts :
     f \in {g \in ToSet(path) : g.pts # <<>> /\ (Len(g.pts) > 1 \/ g.pts[1] < 0)}}
Filled(path) ==
  {f.pts : f \in {g \in ToSet(path) : g.pts # <<>> /\ (Len(g.pts) > 2 \/ g.pts[1] < 0)}}

-----------------------------------------------------------------------------
(* The state of a replay: the path so far, the clips in force, the clips   *)
(* saved by each save, the open groups by their BEGIN, the alpha each got, *)
(* whether images are smoothed, and the ink.                               *)

Blank(smooth) ==
  [path |-> <<>>, clips |-> {}, saves |-> <<>>, open |-> <<>>, alpha |-> <<>>,
   smooth |-> smooth, ink |-> <<>>]

(* The smoothing in force at a: the last command before it that set it.    *)
SmoothAt(list, a) ==
  LET j == SelectLastInSubSeq(list, 1, a - 1, LAMBDA c : c.k = "smooth")
  IN  IF j = 0 THEN 1 ELSE list[j].n

(* smooth says how an image was sampled: 1 filtered, 0 nearest.            *)
Inked(st, i, figs, rule, smooth) ==
  IF figs = {} THEN st
  ELSE [st EXCEPT !.ink = Append(@, [cmd |-> i, figs |-> figs, rule |-> rule,
                                     clips |-> st.clips, layers |-> st.open,
                                     smooth |-> smooth])]

Draw(st, i, figs, rule) == Inked(st, i, figs, rule, 1)
DrawImage(st, i, figs, smooth) == Inked(st, i, figs, 0, smooth)

Clip(st, i, figs, rule) ==
  [st EXCEPT !.clips = @ \cup {[by |-> i, figs |-> figs, rule |-> rule]}]

NoPath(st) == [st EXCEPT !.path = <<>>]
Saved(st)  == [st EXCEPT !.saves = Append(@, st.clips)]
Restored(st) == [st EXCEPT !.clips = Last(st.saves), !.saves = Front(@)]
Opened(st, i) == [st EXCEPT !.open = Append(@, i)]
ClosedAt(st, a) == [st EXCEPT !.alpha = (Last(st.open) :> a) @@ @, !.open = Front(@)]

(* The ink as it reaches the surface, each with the alphas it went through; *)
(* a group that was never closed has the alpha the renderer gives it, or    *)
(* (0) is never painted.                                                    *)
OnSurface(st, unclosed) ==
  LET alphas(k) == [j \in DOMAIN k.layers |->
                      IF k.layers[j] \in DOMAIN st.alpha THEN st.alpha[k.layers[j]] ELSE unclosed]
  IN  SelectSeq([j \in DOMAIN st.ink |-> [st.ink[j] EXCEPT !.layers = alphas(st.ink[j])]],
                LAMBDA k : 0 \notin ToSet(k.layers))

(* The state after the commands a .. b.                                    *)
ReplayOf(Step(_, _, _), list, a, b, start) ==
  LET after[i \in (a - 1) .. b] == IF i < a THEN start ELSE Step(after[i - 1], list, i)
  IN  after[b]

-----------------------------------------------------------------------------
(* cairo: canvas_replay_range of aether_ui_gtk4.c.  The path belongs to    *)
(* the context: rectangles are added to it and every drawing consumes it.  *)

CairoPath(st, c) ==
  [st EXCEPT !.path = CASE c.k = "begin" -> <<>>
                        [] c.k = "move"  -> Append(@, Figure(<<c.at>>))
                        [] c.k = "line"  -> Extended(@, c.at)
                        [] c.k = "arc"   -> Extended(@, -c.at)
                        [] c.k = "close" -> Closed(@)]

CairoFill(st, i, c) == NoPath(Draw(st, i, Filled(st.path), IF c.k = "fill" THEN c.n ELSE 0))

CairoStroke(st, i, c) ==
  NoPath(Draw(st, i, IF c.k = "stroke" /\ c.n = 0 THEN {} ELSE Stroked(st.path), 0))

CairoRect(st, i, c) == NoPath(Draw(st, i, Filled(st.path) \cup {<<c.at>>}, 0))
CairoText(st, i, c) == NoPath(Draw(st, i, {<<c.at>>}, 0))
CairoImage(st, i, c) == 
  NoPath(DrawImage(st, i, Filled(st.path) \cup {<<c.at>>}, st.smooth))

CairoClip(st, i, c) ==
  NoPath(Clip(st, i, Filled(st.path) \cup (IF c.k = "clip" THEN {<<c.at>>} ELSE {}),
              IF c.k = "clip" THEN 0 ELSE c.n))

(* RESET_CLIP: restored to the save of this scope, and saved anew.         *)
CairoReset(st) == NoPath(Saved(Restored(st)))

(* cairo_push_group saves, and so does the scope inside it.                *)
CairoBegin(st, i) == Opened(Saved(Saved(st)), i)
CairoEnd(st, c) == ClosedAt(Restored(Restored(st)), c.n)

CairoStep(st, list, i) ==
  LET c == list[i]
  IN  CASE c.k \in PathKinds              -> CairoPath(st, c)
        [] c.k \in {"fill", "gfill"}      -> CairoFill(st, i, c)
        [] c.k \in {"stroke", "gstroke"}  -> CairoStroke(st, i, c)
        [] c.k = "rect"                   -> CairoRect(st, i, c)
        [] c.k \in {"text", "outline"}    -> CairoText(st, i, c)
        [] c.k = "image"                  -> CairoImage(st, i, c)
        [] c.k \in {"clip", "clippath"}   -> CairoClip(st, i, c)
        [] c.k = "reset"                  -> CairoReset(st)
        [] c.k = "group"                  -> CairoBegin(st, i)
        [] c.k = "end"                    -> CairoEnd(st, c)
        [] c.k = "smooth"                 -> [st EXCEPT !.smooth = c.n]
        [] OTHER                          -> st

CairoReplay(list, a, b) ==
  Restored(ReplayOf(CairoStep, list, a, b, Saved(Blank(SmoothAt(list, a)))))

CairoInk(list) == OnSurface(CairoReplay(list, 1, Len(list)), 0)

-----------------------------------------------------------------------------
(* Skia: canvas_replay_range of aether_ui_android.c.  The path is an       *)
(* object of the replay's own, and nothing but a path command adds to it.  *)

(* Whether the path has a current point (cur).                             *)
HasPoint(st) == st.path # <<>>

SkiaPath(st, c) ==
  [st EXCEPT !.path = CASE c.k = "begin" -> <<>>
                        [] c.k = "move"  -> Append(@, Figure(<<c.at>>))
                        [] c.k = "line"  -> IF HasPoint(st) THEN Extended(@, c.at)
                                            ELSE <<Figure(<<c.at>>)>>
                        [] c.k = "close" -> Closed(@)
                        [] OTHER         -> @]

(* cv_arc: joined to the current point if there is one.                    *)
SkiaArc(st, c) ==
  [st EXCEPT !.path = IF HasPoint(st) THEN Extended(@, -c.at) ELSE <<Figure(<<-c.at>>)>>]

(* A zero width strokes nothing; Skia's own would be a hairline.           *)
SkiaStroke(st, i, c) == NoPath(IF c.n > 0 THEN Draw(st, i, Stroked(st.path), 0) ELSE st)

SkiaFill(st, i, c) == NoPath(Draw(st, i, Filled(st.path), c.n))

(* A gradient is a shader, for a stroke as well as for a fill.             *)
SkiaGradient(st, i, c) ==
  NoPath(Draw(st, i, IF c.k = "gstroke" THEN Stroked(st.path) ELSE Filled(st.path), 0))

SkiaRect(st, i, c)  == Draw(st, i, {<<c.at>>}, 0)
SkiaText(st, i, c)  == NoPath(Draw(st, i, {<<c.at>>}, 0))
SkiaImage(st, i, c) == DrawImage(st, i, {<<c.at>>}, st.smooth)

SkiaClip(st, i, c) ==
  NoPath(IF c.k = "clip" THEN Clip(st, i, {<<c.at>>}, 0)
         ELSE Clip(st, i, Filled(st.path), c.n))

(* RESET_CLIP: restoreToCount of the scope's base, and a base anew.        *)
SkiaReset(st) == NoPath(Saved(Restored(st)))

(* A layer with the alpha of its END, which is looked up ahead, and a base *)
(* inside it; with the stacks full neither is made.                        *)
EndOf(list, i) ==
  LET depth(j) == 1 + Cardinality({k \in (i + 1) .. j : list[k].k = "group"})
                    - Cardinality({k \in (i + 1) .. j : list[k].k = "end"})
      ends == {j \in (i + 1) .. Len(list) : list[j].k = "end" /\ depth(j) = 0}
  IN  IF ends = {} THEN 0 ELSE CHOOSE j \in ends : \A k \in ends : j <= k

SkiaBegin(st, list, i) ==
  IF Len(st.saves) >= LayerMax THEN st
  ELSE LET e == EndOf(list, i)
       IN  [Opened(Saved(st), i) EXCEPT !.alpha = (i :> IF e = 0 THEN 1 ELSE list[e].n) @@ @]

SkiaEnd(st) ==
  IF st.open = <<>> THEN st ELSE [Restored(st) EXCEPT !.open = Front(@)]

SkiaStep(st, list, i) ==
  LET c == list[i]
  IN  CASE c.k = "arc"                    -> SkiaArc(st, c)
        [] c.k \in PathKinds \ {"arc"}    -> SkiaPath(st, c)
        [] c.k = "fill"                   -> SkiaFill(st, i, c)
        [] c.k = "stroke"                 -> SkiaStroke(st, i, c)
        [] c.k \in {"gfill", "gstroke"}   -> SkiaGradient(st, i, c)
        [] c.k = "rect"                   -> SkiaRect(st, i, c)
        [] c.k \in {"text", "outline"}    -> SkiaText(st, i, c)
        [] c.k = "image"                  -> SkiaImage(st, i, c)
        [] c.k \in {"clip", "clippath"}   -> SkiaClip(st, i, c)
        [] c.k = "reset"                  -> SkiaReset(st)
        [] c.k = "group"                  -> SkiaBegin(st, list, i)
        [] c.k = "end"                    -> SkiaEnd(st)
        [] c.k = "smooth"                 -> [st EXCEPT !.smooth = c.n]
        [] OTHER                          -> st

SkiaReplay(list, a, b) == ReplayOf(SkiaStep, list, a, b, Saved(Blank(SmoothAt(list, a))))

SkiaInk(list) == OnSurface(SkiaReplay(list, 1, Len(list)), 1)

-----------------------------------------------------------------------------
(* Win32.  A line is recorded with the place the pen was left at by the    *)
(* last move or line, whatever came between.                               *)
PenBefore(list, j) ==
  LET p == SelectLastInSubSeq(list, 1, j - 1, LAMBDA c : c.k \in {"move", "line"})
  IN  IF p = 0 THEN 0 ELSE list[p].at

(* The commands of the path that the command at i ends.                    *)
BeginOf(list, i) == SelectLastInSubSeq(list, 1, i - 1, LAMBDA c : c.k = "begin")
PathOf(list, i) == {j \in (BeginOf(list, i) + 1) .. (i - 1) : list[j].k \in PathKinds}
ArcsOf(list, i) == {j \in PathOf(list, i) : list[j].k = "arc"}
Discs(list, js) == {<<-list[j].at>> : j \in js}

(* The command that will use the path of the command at i, of those that   *)
(* are looked for; 0 if the next path begins first.                        *)
UserOf(list, i, kinds) ==
  LET next == {j \in (i + 1) .. Len(list) : list[j].k \in kinds \cup {"begin"}}
      j == CHOOSE j \in next : \A k \in next : j <= k
  IN  IF next = {} THEN 0 ELSE IF list[j].k = "begin" THEN 0 ELSE j

(* The figures of a path assembled from its commands: a move starts one,   *)
(* a line adds its stored start (unless it goes on from it) and its end.   *)
(* Closing is for a stroke; a dot, a line of no length, is left out.       *)
AddLine(path, from, to) ==
  LET pts == Last(path).pts
  IN  [path EXCEPT ![Len(path)].pts =
         IF pts = <<>> THEN <<from, to>>
         ELSE IF Last(pts) = from THEN Append(pts, to) ELSE pts \o <<from, to>>]

Assembled(list, i, closes) ==
  LET Step(path, l, j) ==
        CASE l[j].k = "move" -> Append(path, Figure(<<>>))
          [] l[j].k = "line" ->
               LET fresh == path = <<>> \/ Last(path).closed
               IN  IF PenBefore(l, j) = l[j].at THEN path
                   ELSE AddLine(IF fresh THEN Append(path, Figure(<<>>)) ELSE path,
                                PenBefore(l, j), l[j].at)
          [] l[j].k = "close" /\ closes -> Closed(path)
          [] OTHER -> path
      path == ReplayOf(Step, list, BeginOf(list, i) + 1, i - 1, <<>>)
  IN  path

Dots(list, i) ==
  {<<list[j].at, list[j].at>> : j \in {h \in PathOf(list, i) :
                                         list[h].k = "line" /\ PenBefore(list, h) = list[h].at}}

-----------------------------------------------------------------------------
(* GDI+: canvas_replay_to_dc_gdiplus of aether_ui_win32.c.  A group's      *)
(* layer is a bitmap that the drawing is redirected to.                    *)

(* A line or a circle that nothing will use is drawn at once with the pen  *)
(* of the last stroke.                                                     *)
GdipLine(st, list, i) ==
  IF UserOf(list, i, Consumers) # 0 THEN st
  ELSE Draw(st, i, {<<PenBefore(list, i), list[i].at>>}, 0)
GdipArc(st, list, i) ==
  IF UserOf(list, i, Consumers) # 0 THEN st ELSE Draw(st, i, {<<-list[i].at>>}, 0)

GdipStroke(st, list, i) ==
  Draw(st, i, Discs(list, ArcsOf(list, i)) \cup Dots(list, i) \cup Stroked(Assembled(list, i, TRUE)), 0)

(* A path with a circle is filled as its last circle and nothing else.     *)
GdipFill(st, list, i) ==
  LET arcs == ArcsOf(list, i)
      lines == {j \in PathOf(list, i) : list[j].k = "line"}
  IN  IF arcs # {} THEN Draw(st, i, Discs(list, {CHOOSE j \in arcs : \A h \in arcs : h <= j}), list[i].n)
      ELSE Draw(st, i, IF Cardinality(lines) >= 2 THEN Filled(Assembled(list, i, FALSE)) ELSE {}, list[i].n)

(* The box around a path: what a gradient fills when it has fewer than     *)
(* three points to clip to.                                                *)
Box == {<<0>>}

GdipPoints(list, i) == {j \in PathOf(list, i) : list[j].k \in {"move", "line"}}

(* A linear gradient is clipped to the path's figures, a radial one to all *)
(* its points as one figure.                                               *)
GdipLinearFill(list, i) == Filled(Assembled(list, i, FALSE))
GdipRadialFill(list, i) ==
  LET figs == Assembled(list, i, FALSE)
  IN  {FlattenSeq([j \in DOMAIN figs |-> figs[j].pts])}

GdipGradientFill(st, list, i) ==
  IF GdipPoints(list, i) \cup ArcsOf(list, i) = {} THEN st
  ELSE Draw(st, i, IF Cardinality(GdipPoints(list, i)) < 3 THEN Box
                   ELSE IF list[i].n = 1 THEN GdipLinearFill(list, i)
                   ELSE GdipRadialFill(list, i), 0)

(* A gradient pen follows the lines and closes nothing.                    *)
GdipGradientStroke(st, list, i) == Draw(st, i, Stroked(Assembled(list, i, FALSE)), 0)

(* Text is painted by its family's glyphs, outlined as a path of them.     *)
GdipText(st, i, c) == Draw(st, i, {<<c.at>>}, 0)
GdipOutline(st, i, c) == Draw(st, i, {<<c.at>>}, 0)

(* A bitmap that is enlarged is sampled nearest, whatever the smoothing;   *)
(* any other as the smoothing says. Both renderers choose so.              *)
Enlarged(c) == c.k = "image" /\ c.n = 1
Win32Sampling(st, c) == IF Enlarged(c) THEN 0 ELSE st.smooth
GdipImage(st, i, c) == DrawImage(st, i, {<<c.at>>}, Win32Sampling(st, c))

GdipClipPath(st, list, i) ==
  Clip(st, i, Filled(Assembled(list, i, FALSE)) \cup Discs(list, ArcsOf(list, i)), list[i].n)

(* GdipResetClip of the layer drawn to: the clip of what it will be        *)
(* painted through stays.                                                  *)
GdipReset(st) == [st EXCEPT !.clips = IF st.saves = <<>> THEN {} ELSE Last(st.saves)]

GdipBegin(st, i) == IF Len(st.open) >= GroupMax THEN st ELSE Opened(Saved(st), i)

(* MUTANT of GdipEnd: the layer is painted with the layer's own clip.      *)
GdipEndKeepsClip(st, c) ==
  IF st.open = <<>> THEN st ELSE [ClosedAt(st, c.n) EXCEPT !.saves = Front(@)]

GdipEnd(st, c) == IF st.open = <<>> THEN st ELSE ClosedAt(Restored(st), c.n)

GdipStep(st, list, i) ==
  LET c == list[i]
  IN  CASE c.k = "line"               -> GdipLine(st, list, i)
        [] c.k = "arc"                -> GdipArc(st, list, i)
        [] c.k = "stroke"             -> GdipStroke(st, list, i)
        [] c.k = "fill"               -> GdipFill(st, list, i)
        [] c.k = "gfill"              -> GdipGradientFill(st, list, i)
        [] c.k = "gstroke"            -> GdipGradientStroke(st, list, i)
        [] c.k = "rect"               -> Draw(st, i, {<<c.at>>}, 0)
        [] c.k = "text"               -> GdipText(st, i, c)
        [] c.k = "outline"            -> GdipOutline(st, i, c)
        [] c.k = "image"              -> GdipImage(st, i, c)
        [] c.k = "clip"               -> Clip(st, i, {<<c.at>>}, 0)
        [] c.k = "clippath"           -> GdipClipPath(st, list, i)
        [] c.k = "reset"              -> GdipReset(st)
        [] c.k = "group"              -> GdipBegin(st, i)
        [] c.k = "end"                -> GdipEnd(st, c)
        [] c.k = "smooth"             -> [st EXCEPT !.smooth = c.n]
        [] OTHER                      -> st

(* Groups left open are painted at the end, at full alpha.                 *)
GdipInk(list) == OnSurface(ReplayOf(GdipStep, list, 1, Len(list), Blank(1)), 1)

-----------------------------------------------------------------------------
(* GDI: canvas_replay_to_dc_gdi, the renderer kept beside GDI+.  It knows  *)
(* no alpha, so a group only scopes the clip; it draws every line when it  *)
(* comes, with whatever pen there is, unless the path is a clip's, and its *)
(* later consumer draws over it.                                           *)

FeedsClip(list, i) ==
  LET u == UserOf(list, i, Consumers) IN u # 0 /\ list[u].k = "clippath"

GdiLine(st, list, i) ==
  IF FeedsClip(list, i) THEN st ELSE Draw(st, i, {<<PenBefore(list, i), list[i].at>>}, 0)
GdiArc(st, list, i) ==
  IF FeedsClip(list, i) THEN st ELSE Draw(st, i, {<<-list[i].at>>}, 0)

(* Every line of the path once more, with the pen of the stroke.           *)
GdiStroke(st, list, i) ==
  Draw(st, i, {<<PenBefore(list, j), list[j].at>> :
                 j \in {h \in PathOf(list, i) : list[h].k = "line"}}, 0)

(* One polygon through all the points of the path, whatever the rule; a    *)
(* path with a circle is filled as that circle.                            *)
GdiFill(st, list, i) ==
  LET arcs == ArcsOf(list, i)
      js == SetToSortSeq(GdipPoints(list, i), <)
      polygon == [h \in DOMAIN js |-> list[js[h]].at]
  IN  Draw(st, i, IF arcs # {} THEN Discs(list, {CHOOSE j \in arcs : \A h \in arcs : h <= j})
                  ELSE IF Len(polygon) >= 3 THEN {polygon} ELSE {}, 0)

(* A gradient fills the box around the path.                               *)
GdiGradient(st, list, i) == Draw(st, i, IF GdipPoints(list, i) = {} THEN {} ELSE Box, 0)

(* StretchDIBits: COLORONCOLOR to enlarge or unsmoothed, HALFTONE else.    *)
GdiImage(st, i, c) == DrawImage(st, i, {<<c.at>>}, Win32Sampling(st, c))

GdiClipPath(st, list, i) ==
  Clip(st, i, Filled(Assembled(list, i, FALSE)) \cup Discs(list, ArcsOf(list, i)), list[i].n)

GdiReset(st) == [st EXCEPT !.clips = {}]

(* The clips are counted in and out; only SavedMax of them are remembered. *)
GdiBegin(st) == Saved(st)
GdiEnd(st) ==
  IF st.saves = <<>> THEN st
  ELSE IF Len(st.saves) <= SavedMax THEN Restored(st) ELSE [st EXCEPT !.saves = Front(@)]

GdiStep(st, list, i) ==
  LET c == list[i]
  IN  CASE c.k = "line"                -> GdiLine(st, list, i)
        [] c.k = "arc"                 -> GdiArc(st, list, i)
        [] c.k = "stroke"              -> GdiStroke(st, list, i)
        [] c.k = "fill"                -> GdiFill(st, list, i)
        [] c.k \in {"gfill", "gstroke"} -> GdiGradient(st, list, i)
        [] c.k \in {"rect", "text"}    -> Draw(st, i, {<<c.at>>}, 0)
        [] c.k = "image"               -> GdiImage(st, i, c)
        [] c.k = "clip"                -> Clip(st, i, {<<c.at>>}, 0)
        [] c.k = "clippath"            -> GdiClipPath(st, list, i)
        [] c.k = "reset"               -> GdiReset(st)
        [] c.k = "group"               -> GdiBegin(st)
        [] c.k = "end"                 -> GdiEnd(st)
        [] c.k = "smooth"              -> [st EXCEPT !.smooth = c.n]
        [] OTHER                       -> st

GdiInk(list) == OnSurface(ReplayOf(GdiStep, list, 1, Len(list), Blank(1)), 1)
=============================================================================
