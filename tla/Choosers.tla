------------------------------- MODULE Choosers -------------------------------
(***************************************************************************)
(* The controls that hold a choice: radio groups of toggles, pickers,      *)
(* sliders, scrollbars and tabs, on the three backends. As in Fields, an   *)
(* operation takes a control's state and returns the one after it.         *)
(*                                                                         *)
(* told is what the application was last told, or what it set where a set  *)
(* is not told; an application that reads back a control right after its   *)
(* own set knows what it reads.                                            *)
(***************************************************************************)
EXTENDS Integers, Sequences, FiniteSets, Functions

(***************************************************************************)
(* Toggles in a radio group. on and told are by member; group holds a      *)
(* member's group, 0 for none (Win32's radio_group, Android's leader).     *)
(***************************************************************************)
NewToggles(Members) ==
  [on |-> [m \in Members |-> FALSE], told |-> [m \in Members |-> FALSE],
   group |-> [m \in Members |-> 0], next |-> 1, written |-> FALSE]

Mates(s, m) ==
  {o \in DOMAIN s.on \ {m} : s.group[o] = s.group[m] /\ s.group[m] # 0}

(* GTK: m leaves the group it is in and joins the other's. Win32: one      *)
(* number for both, m's own first, so that the other's mates may be left   *)
(* behind. Android: the other's leader leads both.                         *)
Joined(s, m, with, g) ==
  [s EXCEPT !.group[m] = g, !.group[with] = g, !.next = IF g = @ THEN g + 1 ELSE @]
GtkSetGroup(s, m, with) ==
  Joined(s, m, with, IF s.group[with] # 0 THEN s.group[with] ELSE s.next)
Win32SetGroup(s, m, with) ==
  IF s.group[m] # 0 THEN Joined(s, m, with, s.group[m]) ELSE GtkSetGroup(s, m, with)
AndroidSetGroup(s, m, with) ==
  LET leader == IF s.group[with] # 0 THEN s.group[with] ELSE with
  IN  [s EXCEPT !.group[m] = leader, !.group[with] = leader]
SetGroup(backend, s, m, with) ==
  CASE backend = "gtk"     -> GtkSetGroup(s, m, with)
    [] backend = "win32"   -> Win32SetGroup(s, m, with)
    [] backend = "android" -> AndroidSetGroup(s, m, with)

Tell(s, m) == [s EXCEPT !.told[m] = s.on[m]]

(* The mates of m that are on go off, and whether that is told.            *)
MatesOff(s, m, telling) ==
  LET off == {o \in Mates(s, m) : s.on[o]}
  IN  [s EXCEPT !.on = [o \in DOMAIN @ |-> o \notin off /\ @[o]],
                !.told = [o \in DOMAIN @ |-> ~(telling /\ o \in off) /\ @[o]]]

(* gtk_check_button_set_active: a mate that goes off notifies, whoever set *)
(* m; only m's own handler is blocked during a programmatic set.           *)
GtkSetActive(s, m, v) ==
  [(IF v THEN MatesOff(s, m, TRUE) ELSE s) EXCEPT !.on[m] = v]
GtkToggleClick(s, m) ==
  IF s.on[m] /\ Mates(s, m) # {} THEN s ELSE Tell(GtkSetActive(s, m, ~s.on[m]), m)

(* w32_radio_enforce runs on a click and on the driver's toggle.           *)
RadioEnforce(s, m) == MatesOff(s, m, FALSE)
(* MUTANT of Win32ToggleClick: a click only flips the box.                 *)
Win32ClickFlips(s, m) == Tell([s EXCEPT !.on[m] = ~@], m)

Win32ToggleClick(s, m) ==
  LET flipped == [s EXCEPT !.on[m] = ~@]
  IN  Tell(IF flipped.on[m] THEN RadioEnforce(flipped, m) ELSE flipped, m)

(* Android: the listener hears every change. A member switched off with    *)
(* no mate on is switched on again, and nobody is told; a member switched  *)
(* on switches off the others, whose listeners then find m on.             *)
AndroidChecked(s, m, v, telling) ==
  LET set == [s EXCEPT !.on[m] = v]
      settled == IF v THEN MatesOff(set, m, telling) ELSE set
      swallowed == ~v /\ s.group[m] # 0 /\ \A o \in Mates(s, m) : ~s.on[o]
  IN  IF s.on[m] = v THEN s
      ELSE IF swallowed THEN s
      ELSE IF telling THEN Tell(settled, m) ELSE settled

ToggleClick(backend, s, m) ==
  CASE backend = "gtk"     -> GtkToggleClick(s, m)
    [] backend = "win32"   -> Win32ToggleClick(s, m)
    [] backend = "android" -> AndroidChecked(s, m, ~s.on[m], TRUE)

ToggleSet(backend, s, m, v) ==
  LET set == CASE backend = "gtk"     -> GtkSetActive(s, m, v)
               [] backend = "win32"   -> [s EXCEPT !.on[m] = v]
               [] backend = "android" -> AndroidChecked(s, m, v, FALSE)
  IN  [Tell(set, m) EXCEPT !.written = TRUE]

(***************************************************************************)
(* Pickers. Rows count from 0. open is the list of GTK's drawn picker, with*)
(* the rows it was opened with, -1 closed; native and late are the Spinner's   *)
(* own selection and the report of it to come.                             *)
(***************************************************************************)
NewPicker(drawn) ==
  [n |-> 0, selected |-> IF drawn THEN 0 ELSE -1, told |-> -1, drawn |-> drawn,
   open |-> -1, native |-> -1, late |-> FALSE, silent |-> FALSE]

(* Items are added silently; the first becomes the selection.              *)
AddPick(backend, s) ==
  LET first == s.n = 0
  IN  [s EXCEPT !.n = @ + 1,
                !.selected = IF first THEN 0 ELSE @,
                !.told = IF first THEN 0 ELSE @,
                !.native = IF first THEN 0 ELSE @,
                !.late = @ \/ (backend = "android" /\ first)]

Choose(s, i) == [s EXCEPT !.selected = i, !.told = i]

(* A programmatic selection is told, except by the drawn picker; Android   *)
(* tells it even when nothing changed, and the Spinner reports it later.   *)
GtkPickSet(s, i) ==
  IF s.drawn THEN [s EXCEPT !.selected = i, !.silent = TRUE]
  ELSE IF i = s.selected THEN s ELSE Choose(s, i)
Win32PickSet(s, i) == IF i = s.selected THEN s ELSE Choose(s, i)
AndroidPickSet(s, i) == [Choose(s, i) EXCEPT !.native = i, !.late = TRUE]
PickSet(backend, s, i) ==
  CASE backend = "gtk"     -> GtkPickSet(s, i)
    [] backend = "win32"   -> Win32PickSet(s, i)
    [] backend = "android" -> AndroidPickSet(s, i)

(* A person's pick: from the native list, from the rows of the open drawn  *)
(* list, or in the Spinner, which reports it from its next layout.         *)
RowActivated(s, i) ==
  LET closed == [s EXCEPT !.open = -1]
  IN  IF i # s.selected THEN [Choose(closed, i) EXCEPT !.silent = FALSE] ELSE closed
Picked(backend, s, i) ==
  CASE backend = "android" -> [s EXCEPT !.native = i, !.late = TRUE]
    [] s.drawn             -> RowActivated(s, i)
    [] OTHER               -> IF i = s.selected THEN s ELSE Choose(s, i)
MayPick(s, i) == i < (IF s.drawn THEN s.open ELSE s.n)

SpinnerReports(s) ==
  LET done == [s EXCEPT !.late = FALSE]
  IN  IF s.native = s.selected THEN done ELSE Choose(done, s.native)

TriggerClicked(s) == [s EXCEPT !.open = IF @ >= 0 THEN -1 ELSE s.n]

(***************************************************************************)
(* Sliders: a range 0 .. Top on a track of Steps; exact is what a value    *)
(* set reads as, kept with the step it was set at.                         *)
(***************************************************************************)
NewSlider == [step |-> 0, exact |-> 0, at |-> 0, told |-> 0]

StepFor(v, Top, Steps) == (2 * v * Steps + Top) \div (2 * Top)    \* rounded
StepDown(v, Top, Steps) == (v * Steps) \div Top                   \* cut
ValueAt(k, Top, Steps) == (k * Top) \div Steps

(* A set value is kept as it is; a drag tells the value of the step. GTK   *)
(* has no steps, Win32 puts the drag's value in place of the set one,      *)
(* Android keeps the set one for whenever the thumb is on its step.        *)
GtkSlide(s, v) == [s EXCEPT !.exact = v, !.told = v]
Win32SlideSet(s, v, Top, Steps) ==
  [s EXCEPT !.exact = v, !.told = v, !.step = StepDown(v, Top, Steps)]
Win32SlideDrag(s, k, Top, Steps) ==
  [s EXCEPT !.step = k, !.exact = ValueAt(k, Top, Steps), !.told = ValueAt(k, Top, Steps)]
AndroidSlideSet(s, v, Top, Steps) ==
  LET k == StepFor(v, Top, Steps) IN [s EXCEPT !.exact = v, !.told = v, !.step = k, !.at = k]
AndroidSlideDrag(s, k, Top, Steps) == [s EXCEPT !.step = k, !.told = ValueAt(k, Top, Steps)]
SlideSet(backend, s, v, Top, Steps) ==
  CASE backend = "gtk"     -> GtkSlide(s, v)
    [] backend = "win32"   -> Win32SlideSet(s, v, Top, Steps)
    [] backend = "android" -> AndroidSlideSet(s, v, Top, Steps)
SlideDrag(backend, s, k, Top, Steps) ==
  CASE backend = "gtk"     -> GtkSlide(s, k)
    [] backend = "win32"   -> Win32SlideDrag(s, k, Top, Steps)
    [] backend = "android" -> AndroidSlideDrag(s, k, Top, Steps)
SlideRead(backend, s, Top, Steps) ==
  IF backend = "android" /\ s.step # s.at THEN ValueAt(s.step, Top, Steps) ELSE s.exact

(***************************************************************************)
(* Scrollbars (aether_ui_scrollbar.h): a window of page on 0 .. max. The   *)
(* toolkit's record is the same on every backend.                          *)
(***************************************************************************)
NewBar == [max |-> 1, page |-> 1, value |-> 0, told |-> 0]
TopOf(s) == IF s.max < s.page THEN 0 ELSE s.max - s.page
Clamped(s, v) == IF v > TopOf(s) THEN TopOf(s) ELSE IF v < 0 THEN 0 ELSE v

BarConfigure(s, max, page, v) ==
  LET new == [s EXCEPT !.max = max, !.page = page]
  IN  [new EXCEPT !.value = Clamped(new, v), !.told = Clamped(new, v)]
BarUserSet(s, v) ==
  LET to == Clamped(s, v)
  IN  IF to = s.value THEN s ELSE [s EXCEPT !.value = to, !.told = to]
BarStep(s, back) == BarUserSet(s, IF back THEN s.value - s.page ELSE s.value + s.page)

(***************************************************************************)
(* Tabs. Pages count from 0; shown are those visible; last is GTK's        *)
(* last_index. home says that the application's on_change sends page 1     *)
(* back to page 0.                                                         *)
(***************************************************************************)
NewTabs(home) == [n |-> 0, selected |-> -1, shown |-> {}, last |-> 0, told |-> 0, home |-> home]

RECURSIVE TabSelect(_, _, _)
TabTold(backend, s, i) ==
  LET told == [s EXCEPT !.told = i]
  IN  IF s.home /\ i = 1 THEN TabSelect(backend, told, 0) ELSE told

ShowPage(s, i) == [s EXCEPT !.selected = i, !.shown = {i}]

(* GTK's stack notifies, and the toolkit tells if its own last index       *)
(* differs; Win32 tells if the index changed; Android always does.         *)
GtkTabSelect(s, i) ==
  IF i = s.selected \/ i = s.last THEN ShowPage(s, i)
  ELSE TabTold("gtk", [ShowPage(s, i) EXCEPT !.last = i], i)
Win32TabSelect(s, i) ==
  IF i = s.selected THEN ShowPage(s, i) ELSE TabTold("win32", ShowPage(s, i), i)
AndroidTabSelect(s, i) == TabTold("android", ShowPage(s, i), i)
TabSelect(backend, s, i) ==
  CASE i < 0 \/ i >= s.n    -> s
    [] OTHER -> CASE backend = "gtk"     -> GtkTabSelect(s, i)
                  [] backend = "win32"   -> Win32TabSelect(s, i)
                  [] backend = "android" -> AndroidTabSelect(s, i)

(* The first page shows; a page added later is hidden. Win32 has room for  *)
(* TabsMax pages and adds no more.                                         *)
PageAdded(s) ==
  LET more == [s EXCEPT !.n = @ + 1] IN IF s.n = 0 THEN ShowPage(more, 0) ELSE more
TabAdd(backend, s, TabsMax) ==
  IF backend = "win32" /\ s.n >= TabsMax THEN s ELSE PageAdded(s)

(***************************************************************************)
(* Navigation stacks. pages are the children in order, depth is what the   *)
(* toolkit counts, records are Win32's w32_nav_pages; counted says that    *)
(* the stack's handle is in the tables of GTK and Win32 (at most 64).      *)
(***************************************************************************)
NewNav(counted) ==
  [pages |-> <<>>, shown |-> {}, depth |-> 0, records |-> <<>>, counted |-> counted, over |-> FALSE]

Dropped(seq, page) == SelectSeq(seq, LAMBDA p : p # page)

PagePut(s, page) == [s EXCEPT !.pages = Append(@, page), !.shown = {page}]
GtkPush(s, page) == [PagePut(s, page) EXCEPT !.depth = IF s.counted THEN @ + 1 ELSE 0]
Win32Push(s, page, NavDepth) ==
  IF s.counted /\ Len(s.records) < NavDepth
  THEN [PagePut(s, page) EXCEPT !.records = Append(@, page), !.depth = @ + 1]
  ELSE [PagePut(s, page) EXCEPT !.over = TRUE]
AndroidPush(s, page) == [PagePut(s, page) EXCEPT !.depth = @ + 1]
NavPush(backend, s, page, NavDepth) ==
  CASE backend = "gtk"     -> GtkPush(s, page)
    [] backend = "win32"   -> Win32Push(s, page, NavDepth)
    [] backend = "android" -> AndroidPush(s, page)

(* GTK keeps the root page.                                                *)
GtkPop(s) ==
  IF s.depth <= 1 THEN s
  ELSE LET top == s.pages[s.depth]
       IN  [s EXCEPT !.shown = {s.pages[s.depth - 1]}, !.pages = Dropped(@, top), !.depth = @ - 1]

(* Win32 destroys the page recorded last, and shows the one recorded under *)
(* it, or with none left whatever the stack still holds.                   *)
Win32Pop(s) ==
  IF s.depth = 0 THEN s
  ELSE LET top == s.records[s.depth]
           left == Dropped(s.pages, top)
           under == IF s.depth > 1 THEN {s.records[s.depth - 1]} ELSE Range(left)
       IN  [s EXCEPT !.pages = left, !.depth = @ - 1,
                     !.records = SubSeq(@, 1, s.depth - 1), !.shown = (@ \ {top}) \cup under]

AndroidPop(s) ==
  IF s.pages = <<>> \/ s.depth = 0 THEN s
  ELSE LET left == SubSeq(s.pages, 1, Len(s.pages) - 1)
       IN  [s EXCEPT !.pages = left, !.depth = @ - 1,
                     !.shown = IF left = <<>> THEN {} ELSE {left[Len(left)]}]

NavPop(backend, s) ==
  CASE backend = "gtk" -> GtkPop(s) [] backend = "win32" -> Win32Pop(s)
    [] backend = "android" -> AndroidPop(s)
=============================================================================
