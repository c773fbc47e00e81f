---------------------------------- MODULE Drag ----------------------------------
(***************************************************************************)
(* Dragging with the pointer, on GTK4 (drag source and target), Win32 (a   *)
(* mouse hook and the capture; OLE for files) and Android (a long press    *)
(* and the platform's drag and drop): the children of a reorderable stack  *)
(* among themselves, and a widget that carries a file's path out of the    *)
(* application. The application may rebuild a stack, or give a widget      *)
(* another path, at any moment of a drag.                                  *)
(***************************************************************************)
EXTENDS Integers, Sequences, FiniteSets, SequencesExt

CONSTANT Long  \* how long each item is, along the axis of its stack

ASSUME DragAssumption == Long \in [DOMAIN Long -> Nat]

(* kids: two stacks and the items they show, top to bottom. src: the stack *)
(* a drag is of and the index in it, from 0, as the backend remembers them.*)
(* at: where the pointer is, in a stack (0: in none) and along its axis.   *)
(* bar: the stack that shows where the drop would go, 0 if none does.      *)
(* item, rebuilt: what was pressed, and whether its stack was rebuilt      *)
(* since. last: the last drop, while the stacks stand as it left them.     *)
NoSource == [stack |-> 0, from |-> -1]
NoDrop == [moved |-> FALSE]
NoDrag(backend, kids) ==
  [on |-> backend, kids |-> kids, held |-> "no", src |-> NoSource, at |-> <<0, 0>>,
   bar |-> 0, item |-> 0, rebuilt |-> FALSE, last |-> NoDrop]

(* Where the child at i begins: the items are 1 apart.                     *)
Top(kids, i) ==
  LET top[j \in 1 .. Len(kids) + 1] ==
        IF j = 1 THEN 0 ELSE top[j - 1] + Long[kids[j - 1]] + 1
  IN top[i]
Extent(kids) == Top(kids, Len(kids) + 1)
ChildAt(kids, p) ==
  LET here == {i \in DOMAIN kids : p >= Top(kids, i) /\ p < Top(kids, i) + Long[kids[i]]}
  IN IF here = {} THEN -1 ELSE (CHOOSE i \in here : TRUE) - 1
GapAt(kids, p) == Cardinality({i \in DOMAIN kids : 2 * Top(kids, i) + Long[kids[i]] < 2 * p})

(* MUTANT of ReorderTarget: the gap is taken for the index.                *)
ReorderTargetGap(from, gap, n) == IF gap > n - 1 THEN n - 1 ELSE gap
(* _reorder_target, and what an application does with its answer.          *)
ReorderTarget(from, gap, n) ==
  LET to == IF gap > from THEN gap - 1 ELSE gap
  IN IF n < 1 THEN from ELSE IF to < 0 THEN 0 ELSE IF to > n - 1 THEN n - 1 ELSE to
MovedTo(kids, from, to) == InsertAt(RemoveAt(kids, from + 1), to + 1, kids[from + 1])

(* aether_ui_stack_reorder_deliver.                                        *)
Deliver(s, stack, from, gap) ==
  LET kids == s.kids[stack]
      n == Len(kids)
      to == ReorderTarget(from, IF gap > n THEN n ELSE gap, n)
  IN IF from < 0 \/ from >= n \/ to = from THEN s
     ELSE [s EXCEPT !.kids[stack] = MovedTo(kids, from, to),
                    !.last = [moved |-> TRUE, stack |-> stack, at |-> s.at, item |-> s.item,
                              rebuilt |-> s.rebuilt, before |-> kids, gap |-> gap]]

-----------------------------------------------------------------------------
(* A press in a stack, and its first move with the button held: on Android *)
(* the two are one long press.                                             *)
Source(s, stack, p) == [stack |-> stack, from |-> ChildAt(s.kids[stack], p)]
PressIn(s, stack, p) ==
  [s EXCEPT !.held = "pressed", !.at = <<stack, p>>, !.rebuilt = FALSE, !.last = NoDrop,
            !.item = s.kids[stack][ChildAt(s.kids[stack], p) + 1]]
GtkPress(s, stack, p) == PressIn(s, stack, p)
Win32Press(s, stack, p) == [PressIn(s, stack, p) EXCEPT !.src = Source(s, stack, p)]
AndroidPress(s, stack, p) ==
  [PressIn(s, stack, p) EXCEPT !.src = Source(s, stack, p), !.held = "drag"]
Press(s, stack, p) ==
  CASE s.on = "gtk" -> GtkPress(s, stack, p) [] s.on = "win32" -> Win32Press(s, stack, p)
    [] s.on = "android" -> AndroidPress(s, stack, p)

(* on_reorder_prepare looks at the children as they are now.               *)
GtkDragBegins(s) ==
  LET src == Source(s, s.at[1], s.at[2])
  IN IF src.from = -1 THEN [s EXCEPT !.held = "no"] ELSE [s EXCEPT !.held = "drag", !.src = src]
Win32DragBegins(s) == [s EXCEPT !.held = "drag", !.bar = s.src.stack]
DragBegins(s) == IF s.on = "gtk" THEN GtkDragBegins(s) ELSE Win32DragBegins(s)
Clicked(s) == [s EXCEPT !.held = "no", !.src = NoSource]

(* The pointer goes somewhere else. Win32's stack has the capture, and     *)
(* takes what the pointer does anywhere for its own.                       *)
Over(s, stack, p) ==
  LET there == [s EXCEPT !.at = <<stack, p>>]
  IN IF s.on = "win32" THEN there
     ELSE [there EXCEPT !.bar = IF stack = s.src.stack THEN stack ELSE 0]

(* Let go. Every backend forgets the drag before the closure runs.         *)
Ended(s) == [s EXCEPT !.held = "no", !.bar = 0, !.src = NoSource]
GtkDrop(s) ==
  IF s.at[1] # s.src.stack THEN Ended(s)
  ELSE Deliver(Ended(s), s.src.stack, s.src.from, GapAt(s.kids[s.src.stack], s.at[2]))
Win32Drop(s) ==
  Deliver(Ended(s), s.src.stack, s.src.from, GapAt(s.kids[s.src.stack], s.at[2]))
(* Refused by another stack, the source is still remembered.               *)
AndroidDrop(s) ==
  IF s.at[1] # s.src.stack THEN [Ended(s) EXCEPT !.src = s.src]
  ELSE Deliver(Ended(s), s.src.stack, s.src.from, GapAt(s.kids[s.src.stack], s.at[2]))
Drop(s) ==
  CASE s.on = "gtk" -> GtkDrop(s) [] s.on = "win32" -> Win32Drop(s)
    [] s.on = "android" -> AndroidDrop(s)
(* Escape, or on Win32 the capture taken away.                             *)
Cancelled(s) == IF s.on = "android" THEN [Ended(s) EXCEPT !.src = s.src] ELSE Ended(s)

(* each_update: the rows are made again. GTK's mark is a class of a row,   *)
(* Win32's bar a child of the stack, cleared with the others; Android's is *)
(* the stack's own foreground. GTK's comes back with the pointer's next    *)
(* move, Win32's not before the next drag.                                 *)
Rebuilt(s, stack, kids) ==
  LET mine == s.held # "no" /\ s.item \in Range(s.kids[stack])
      shown == s.bar = stack
  IN [s EXCEPT !.kids[stack] = kids, !.last = NoDrop, !.rebuilt = @ \/ mine,
               !.bar = IF shown /\ s.on # "android" THEN 0 ELSE @]

(* The driver's: a press in a child, and a release somewhere.              *)
FireReorderDrag(s, stack, item, p) ==
  LET kids == s.kids[stack]
      from == (CHOOSE i \in DOMAIN kids : kids[i] = item) - 1
  IN Deliver([s EXCEPT !.last = NoDrop, !.item = item, !.rebuilt = FALSE, !.at = <<stack, p>>],
             stack, from, GapAt(kids, p))

-----------------------------------------------------------------------------
(* A file dragged out. path: what each widget carries, "none" if nothing.  *)
(* button: where it was pressed, as the person sees it, 0 in no such       *)
(* widget, -1 up; pressed is what Win32 makes of it. active: the path on   *)
(* its way; meant: what the pressed widget carried when that began.        *)
(* stray: a press that was let go outside its widget, which has not heard. *)
NoFiles(backend, widgets) ==
  [on |-> backend, path |-> [w \in widgets |-> "none"], armed |-> {}, button |-> -1,
   pressed |-> 0, active |-> "none", meant |-> "none", stray |-> FALSE]
Draggable(s, w, path) ==
  [s EXCEPT !.path[w] = path,
            !.armed = IF path # "none" THEN @ \cup {w}
                      ELSE IF s.on = "android" THEN @ \ {w} ELSE @]
ButtonDown(s, w) ==
  [s EXCEPT !.button = w, !.pressed = IF s.on = "win32" /\ w \in s.armed THEN w ELSE @,
            !.stray = @ /\ w \notin s.armed]
Begins(s, w) ==
  [s EXCEPT !.pressed = 0, !.active = s.path[w],
            !.meant = IF s.button = 0 THEN "none" ELSE s.path[s.button]]
(* Moved, the button held, over w. GTK's gesture, and Android's long press,*)
(* are the pressed widget's.                                               *)
GtkMoves(s, w) ==
  IF s.button \in s.armed /\ s.path[s.button] # "none" THEN Begins(s, s.button) ELSE s
Win32Moves(s, w) ==
  IF w \in s.armed /\ s.pressed = w /\ s.path[w] # "none" THEN Begins(s, w) ELSE s
AndroidHolds(s) == IF s.button \in s.armed THEN Begins(s, s.button) ELSE s
PointerMoves(s, w) ==
  CASE s.on = "gtk" -> GtkMoves(s, w) [] s.on = "win32" -> Win32Moves(s, w)
    [] s.on = "android" -> AndroidHolds(s)
(* Let go over w: the drag's end, or nothing of a drag's.                  *)
ButtonUp(s, w) ==
  LET heard == s.on = "win32" /\ w \in s.armed
  IN IF s.active # "none" THEN [s EXCEPT !.button = -1, !.active = "none", !.meant = "none"]
     ELSE [s EXCEPT !.button = -1, !.pressed = IF heard THEN 0 ELSE @,
                    !.stray = ~heard /\ s.pressed # 0]
=================================================================================
