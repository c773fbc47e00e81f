-------------------------------- MODULE Canvas --------------------------------
(***************************************************************************)
(* A canvas: a command list that vg writes, the surface the backend keeps  *)
(* painted with it, and the cached replay that pixels are read from.       *)
(*                                                                         *)
(* vg emits whole elements (vg/backend/gtk.ae): a path and its consumer, a *)
(* circle, a rectangle, text, an image, a clip, the ends of a group.  All  *)
(* of it happens on the UI thread, so a draw never sees half an element;   *)
(* it may see a list whose groups are still open.                          *)
(***************************************************************************)
EXTENDS CanvasInk

CONSTANTS
  Backends,         \* of {"gtk", "android", "win32"}
  Figures,          \* the paths vg may emit, sequences of path commands
  MaxWeight,        \* bound: shapes emitted, twice, plus scope commands
  Scenes,           \* lists of rectangles; a canvas showing one is painted
  MaxGen,           \* bound: times the list is cleared
  Sizes,            \* sizes the widget is given
  ResizeUnderClip,  \* whether GTK's canvas is resized with a paint clip pending
  OneClipPerPaint   \* whether a paint comes between two clip submissions

Kinds ==
  PathKinds \cup Consumers
    \cup {"rect", "text", "outline", "image", "smooth", "clip", "reset", "group", "end", "clear"}
Command == [k : Kinds, at : Int, n : Int]
Cells == {1, 2}
Rects == [k : {"rect"}, at : Cells, n : Nat]

ASSUME CanvasAssumption ==
  /\ Backends \subseteq {"gtk", "android", "win32"}
  /\ Figures \subseteq Seq(Command) /\ Scenes \subseteq Seq(Rects)
  /\ {MaxWeight, MaxGen} \subseteq Nat /\ Sizes \subseteq Nat \ {0}
  /\ {ResizeUnderClip, OneClipPerPaint} \subseteq BOOLEAN

VARIABLES
  backend,
  cmds,     \* the command list
  gen,      \* the generation, counted by clear
  weight,   \* what has been emitted since the list was last cleared
  hook,     \* whether a resize hook is registered, which writes a new scene
  size,     \* the widget's allocation
  told,     \* last_w, last_h: the size the hook was last told
  surf,     \* paint_surface: its size and what each cell of it shows, or none
  dirty,    \* paint_surface_dirty; a draw is asked for
  clip,     \* paint_clip_rects: the cells of the pending one-shot clip
  cache     \* the cached replay: its key and what its cells show, or none

canvas == <<backend, cmds, gen, weight, hook, size, told, surf, dirty, clip, cache>>

None == [size |-> 0]

CanvasInit ==
  /\ backend \in Backends /\ hook \in BOOLEAN /\ size \in Sizes
  /\ cmds = <<>> /\ gen = 0 /\ weight = 0
  /\ told = 0 /\ surf = None /\ dirty = FALSE /\ clip = {} /\ cache = None

-----------------------------------------------------------------------------
(* The elements of vg/backend/gtk.ae.                                      *)

(* replay_path: a path begins, and after a close the next point is a move. *)
ReplayPath(figure) == <<Cmd("begin", 0, 0)>> \o figure

(* canvas_path: every consumer has a path of its own.                      *)
PathShapes ==
  {ReplayPath(f) \o <<c>> :
     f \in Figures,
     c \in {Cmd("fill", 0, 0), Cmd("fill", 0, 1), Cmd("stroke", 0, 1),
            Cmd("gfill", 0, 1), Cmd("gfill", 0, 2), Cmd("gstroke", 0, 1)}}
Circles ==
  {<<Cmd("begin", 0, 0), Cmd("arc", 9, 0), c>> : c \in {Cmd("fill", 0, 0), Cmd("stroke", 0, 1)}}
TextsOf(p) == {<<Cmd("text", p, 0)>>, <<Cmd("text", p, 0), Cmd("outline", p, 0)>>}

(* canvas_image: scaled to its box, which may be larger than the raster,   *)
(* "pixelated" around this blit only, and an opacity through a group.      *)
Pixelated(image) == <<Cmd("smooth", 0, 0), image, Cmd("smooth", 0, 1)>>
InGroup(commands) == <<Cmd("group", 0, 0)>> \o commands \o <<Cmd("end", 0, 2)>>
Images(p) ==
  LET images == {Cmd("image", p, larger) : larger \in 0 .. 1}
  IN  {<<image>> : image \in images} \cup {Pixelated(image) : image \in images}
        \cup {InGroup(Pixelated(image)) : image \in images}
Shapes ==
  PathShapes \cup Circles \cup TextsOf(8) \cup Images(7) \cup {<<Cmd("rect", 6, 1)>>}

OpenGroups(list) ==
  Cardinality({j \in DOMAIN list : list[j].k = "group"})
    - Cardinality({j \in DOMAIN list : list[j].k = "end"})

(* The commands of scope: the viewport's clip and its reset, a group's     *)
(* begin, with its clip path or not, and its end at an alpha.              *)
Scopes(list) ==
  {<<Cmd("clip", 5, 0)>>, <<Cmd("reset", 0, 0)>>}
    \cup (IF OpenGroups(list) < GroupMax
          THEN {<<Cmd("group", 0, 0)>>}
                 \cup {<<Cmd("group", 0, 0)>> \o ReplayPath(f) \o <<Cmd("clippath", 0, 1)>> : f \in Figures}
          ELSE {})
    \cup (IF OpenGroups(list) > 0 THEN {<<Cmd("end", 0, 1)>>, <<Cmd("end", 0, 2)>>} ELSE {})

-----------------------------------------------------------------------------
(* What a cell of a surface painted with a list shows: the rectangles      *)
(* there, in order.                                                        *)
Shown(list, cell) ==
  LET here == SelectSeq(list, LAMBDA c : c.k = "rect" /\ c.at = cell)
  IN  [j \in DOMAIN here |-> here[j].n]
Painted(list) == [cell \in Cells |-> Shown(list, cell)]
Empty == [cell \in Cells |-> <<>>]

IsScene == \A j \in DOMAIN cmds : cmds[j].k \in {"clear", "rect"} /\ cmds[j].at \in {0, 1, 2}

(* canvas_add_cmd for each command of an element.  What the renderers make *)
(* of the list depends on nothing else of the canvas, so lists are built   *)
(* only in one of its initial states.                                      *)
OneCanvas ==
  /\ backend = CHOOSE b \in Backends : TRUE
  /\ size = CHOOSE s \in Sizes : TRUE
  /\ gen = 0 /\ ~hook /\ surf = None /\ cache = None

Emit(element, w) ==
  /\ weight + w <= MaxWeight /\ OneCanvas
  /\ cmds' = cmds \o element
  /\ weight' = weight + w
  /\ dirty' = TRUE
  /\ UNCHANGED <<backend, gen, hook, size, told, surf, clip, cache>>

(* canvas_clear: the list is empty but for Win32's CLEAR, what it owned is *)
(* freed, and the generation moves.                                        *)
Cleared == IF backend = "win32" THEN <<Cmd("clear", 0, 0)>> ELSE <<>>

NextGen == gen + 1

(* Whether a clip may be pending on a canvas of this size (see the constant *)
(* ResizeUnderClip).                                                       *)
ClipFits(s) == ResizeUnderClip \/ backend # "gtk" \/ surf = None \/ surf.size = s

(* An application paints a scene: clear, the rectangles, and, when it      *)
(* keeps account of what changed, a one-shot clip to that; then redraw.    *)
PaintScene(scene, clipped) ==
  /\ gen < MaxGen /\ IsScene
  /\ OneClipPerPaint => (clip = {} /\ (clipped => ~dirty))
  /\ clipped => ClipFits(size)
  /\ cmds' = Cleared \o scene
  /\ gen' = NextGen
  /\ dirty' = TRUE
  /\ clip' = IF clipped /\ surf # None
             THEN {cell \in Cells : Shown(scene, cell) # Shown(cmds, cell)} ELSE clip
  /\ UNCHANGED <<backend, weight, hook, size, told, surf, cache>>

(* More rectangles without a clear.                                        *)
AddRect(cell) ==
  /\ gen > 0 /\ IsScene /\ Len(cmds) <= 3 /\ clip = {}
  /\ cmds' = Append(cmds, Cmd("rect", cell, 3))
  /\ dirty' = TRUE
  /\ UNCHANGED <<backend, gen, weight, hook, size, told, surf, clip, cache>>

Resize(s) ==
  /\ s # size /\ IsScene
  /\ clip = {} \/ ClipFits(s)
  /\ size' = s
  /\ UNCHANGED <<backend, cmds, gen, weight, hook, told, surf, dirty, clip, cache>>

(* canvas_fire_resize, cv_note_size: the hook hears of a size it was not   *)
(* told, and writes the scene anew.                                        *)
Hooked == hook /\ told # size

FireResize ==
  IF Hooked
  THEN /\ gen < MaxGen /\ told' = size /\ gen' = NextGen
       /\ \E scene \in Scenes : cmds' = Cleared \o scene
  ELSE UNCHANGED <<told, gen, cmds>>

(* MUTANT of Repainted: the whole surface is cleared, the clip replayed.   *)
RepaintedOnBlank(list, cells, kept) ==
  [c \in Cells |-> IF cells = {} \/ c \in cells THEN Shown(list, c) ELSE <<>>]

(* The clip is cleared and replayed (no clip: everything); outside it the  *)
(* surface keeps what it showed.                                           *)
Repainted(list, cells, kept) ==
  [c \in Cells |-> IF cells = {} \/ c \in cells THEN Shown(list, c) ELSE kept[c]]

(* canvas_draw_func: whether to repaint, and in what clip, is decided      *)
(* before the hook; a surface of another size is a new, blank one.         *)
GtkDraw ==
  LET fresh == surf = None \/ surf.size # size
      kept == IF fresh THEN Empty ELSE surf.cells
      repaint == dirty \/ fresh
  IN  /\ FireResize
      /\ surf' = [size |-> size, cells |-> IF repaint THEN Repainted(cmds', clip, kept) ELSE kept]
      /\ clip' = IF repaint THEN {} ELSE clip
      /\ dirty' = (Hooked /\ ~repaint)

(* native_canvas_draw: the hook first; a fresh surface is painted whole,   *)
(* whatever clip is pending.                                               *)
AndroidDraw ==
  LET fresh == surf = None \/ surf.size # size
      kept == IF fresh THEN Empty ELSE surf.cells
  IN  /\ FireResize
      /\ surf' = [size |-> size, cells |-> Repainted(cmds', IF fresh THEN {} ELSE clip, kept)]
      /\ clip' = {}
      /\ dirty' = FALSE

(* canvas_paint: a bitmap made for this paint and copied to the window,    *)
(* which nothing keeps.                                                    *)
Win32Draw ==
  /\ FireResize
  /\ clip' = {} /\ dirty' = FALSE /\ surf' = None

Draw1 ==
  /\ IsScene
  /\ CASE backend = "gtk" -> GtkDraw
       [] backend = "android" -> AndroidDraw
       [] backend = "win32" -> Win32Draw
  /\ UNCHANGED <<backend, weight, hook, size, cache>>

(* canvas_read_pixel: the cached replay answers if the generation, the     *)
(* number of commands and the size are those it was made for.              *)
CacheKey(w) == <<gen, Len(cmds), w>>
ReadPixel(w) ==
  /\ IsScene
  /\ cache' = IF cache # None /\ cache.key = CacheKey(w) THEN cache
              ELSE [size |-> w, key |-> CacheKey(w), cells |-> Painted(cmds)]
  /\ UNCHANGED <<backend, cmds, gen, weight, hook, size, told, surf, dirty, clip>>

CanvasNext ==
  \/ \E e \in Shapes : Emit(e, 2)
  \/ \E e \in Scopes(cmds) : Emit(e, 1)
  \/ \E scene \in Scenes, clipped \in BOOLEAN : PaintScene(scene, clipped)
  \/ \E cell \in Cells : AddRect(cell)
  \/ \E s \in Sizes : Resize(s)
  \/ Draw1
  \/ \E w \in Sizes : ReadPixel(w)

CanvasSpec == CanvasInit /\ [][CanvasNext]_canvas

-----------------------------------------------------------------------------
(* Where Win32 is known to differ: a gradient stroke closes no figure and  *)
(* draws no dot, a radial fill takes all its points for one figure, and a  *)
(* gradient fill of fewer than three points fills a box.                   *)
Alike(list) ==
  \A j \in DOMAIN list :
    LET figs == Assembled(list, j, TRUE)
    IN  /\ list[j].k = "gstroke" => /\ Dots(list, j) = {}
                                    /\ \A h \in DOMAIN figs : ~figs[h].closed
        /\ list[j].k = "gfill" => \A h \in DOMAIN figs : Len(figs[h].pts) > 2
        /\ (list[j].k = "gfill" /\ list[j].n = 2) => Len(figs) = 1

(* And an image that is enlarged, which Win32 does not smooth (README.md   *)
(* 477, "Win32 enlarges it unsmoothed"): of all the ink that bit is its    *)
(* own.                                                                    *)
Unsmoothed(list, ink) ==
  [j \in DOMAIN ink |->
     IF Enlarged(list[ink[j].cmd]) THEN [ink[j] EXCEPT !.smooth = 0] ELSE ink[j]]

(* The GDI renderer, which knows no layers and drops every clip at a reset,*)
(* covers what GDI+ paints of solid shapes of one figure, and samples      *)
(* images as GDI+ does.                                                    *)
LegacyCovers(list) ==
  LET plain(k) == [cmd |-> k.cmd, figs |-> k.figs, clips |-> k.clips, smooth |-> k.smooth]
      gdi == {plain(g) : g \in ToSet(GdiInk(list))}
      solid(k) == /\ list[k.cmd].k \in {"fill", "rect", "text", "image"}
                  /\ Cardinality(k.figs) = 1
  IN  \A k \in ToSet(GdipInk(list)) : solid(k) => plain(k) \in gdi

(* The three renderers that ship leave the same ink of any list whose      *)
(* groups are closed: canvas_replay_range, aeui_canvas_paint_gdip and the  *)
(* Java canvas draw each command with the same figures, fill rule, clips   *)
(* and layers, wherever Win32 is not known to differ, and sample an image  *)
(* the same way, but that Win32 never smooths one it enlarges.             *)
SameInk ==
  (OpenGroups(cmds) = 0 /\ ~IsScene) =>
    /\ SkiaInk(cmds) = CairoInk(cmds)
    /\ Alike(cmds) => GdipInk(cmds) = Unsmoothed(cmds, CairoInk(cmds))
    /\ (\A j \in DOMAIN cmds : cmds[j].k # "reset") => LegacyCovers(cmds)

(* A frame's commands replayed alone leave the ink they leave in the whole *)
(* list, if nothing of the list before them is still in force but the      *)
(* smoothing; and a replay restores every save it made (the invariant that *)
(* canvas_replay_range states).                                            *)
IsWhole(list, a, b) ==
  /\ \A j \in a .. b : OpenGroups(SubSeq(list, a, j)) >= 0
  /\ OpenGroups(SubSeq(list, a, b)) = 0
RangeIsSlice ==
  (OpenGroups(cmds) = 0 /\ ~IsScene) =>
    /\ CairoReplay(cmds, 1, Len(cmds)).saves = <<>>
    /\ Len(SkiaReplay(cmds, 1, Len(cmds)).saves) = 1
    /\ \A a \in DOMAIN cmds :
         LET b == Len(cmds)
             slice(ink) == SelectSeq(ink, LAMBDA k : k.cmd \in a .. b)
             before == ReplayOf(CairoStep, SubSeq(cmds, 1, a - 1), 1, a - 1, Saved(Blank(1)))
         IN  (IsWhole(cmds, a, b) /\ OpenGroups(SubSeq(cmds, 1, a - 1)) = 0
                /\ before.clips = {} /\ before.path = <<>>) =>
               /\ OnSurface(CairoReplay(cmds, a, b), 0) = slice(CairoInk(cmds))
               /\ OnSurface(SkiaReplay(cmds, a, b), 1) = slice(SkiaInk(cmds))

(* One list of commands is one picture: on every backend, and whole or by  *)
(* ranges.                                                                 *)
InkAgrees == SameInk /\ RangeIsSlice

(* A surface with no draw asked for shows the list, in every cell: what is *)
(* outside a clip was already right when the clip was painted.             *)
ShowsTheList ==
  (surf # None /\ ~dirty) => \A c \in Cells : surf.cells[c] = Shown(cmds, c)

(* A pixel read from the cache is the list's.                              *)
PixelsOfTheList ==
  (cache # None /\ cache.key = CacheKey(cache.size)) => cache.cells = Painted(cmds)

(* Whoever looks, at the surface or through the pixel cache, sees what the *)
(* commands in force draw.                                                 *)
ReadsWhatIsListed == ShowsTheList /\ PixelsOfTheList
=============================================================================
