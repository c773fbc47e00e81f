------------------------------- MODULE Surfaces -------------------------------
(***************************************************************************)
(* What an application puts on the screen besides the body of its window:  *)
(* further windows and sheets, and inside a window its overlay layer       *)
(* (modals, toasts, the drawn tooltip), on GTK4, Win32 and Android; and    *)
(* when the event loop ends. Every operator takes the state of all this, a *)
(* record s, through one call of the backend, run to its end on the UI     *)
(* thread. Windows are numbered as the driver numbers GTK's: 1 is the      *)
(* primary one, which exists from the application's run on.                *)
(*                                                                         *)
(* Freed memory is not modelled further than its first use: an operator    *)
(* that touches a destroyed GtkWindow, or an overlay entry through a       *)
(* pointer that a growth of the table has left behind, sets torn.          *)
(***************************************************************************)
EXTENDS Integers, Sequences, FiniteSets

CONSTANTS
  Windows,     \* 1 .. n, the windows and sheets there can be
  GrowAt,      \* entries before the overlay table is first moved, 8 in the code
  ToastSlots   \* Win32's toast_timers, 16 in the code

ASSUME SurfacesAssumption ==
  /\ 1 \in Windows /\ Windows \subseteq Nat \ {0}
  /\ {GrowAt, ToastSlots} \subseteq Nat \ {0}

(* app: a GtkApplicationWindow, made while the application ran: it counts  *)
(* once by itself and once by g_application_hold. live is what the         *)
(* registry says, up whether the native window is there.                   *)
NoWindow == [made |-> FALSE, sheet |-> FALSE, live |-> FALSE, up |-> FALSE,
             shown |-> FALSE, app |-> FALSE]

(* content: "up", registered and in its window's layer; "adrift",          *)
(* registered and in no window; "gone", out of the registry.               *)
Entry(w, kind, where) ==
  [win |-> w, kind |-> kind, live |-> TRUE, exiting |-> FALSE,
   tweens |-> FALSE, content |-> where, told |-> FALSE]

(* uses: GApplication's use count. stop: a WM_QUIT posted before the loop. *)
Fresh(backend) ==
  [on |-> backend, wins |-> [w \in Windows |-> NoWindow],
   loop |-> "before", uses |-> 0, stop |-> FALSE, quit |-> FALSE, early |-> FALSE,
   entries |-> <<>>, timers |-> {}, tip |-> 0, torn |-> FALSE]

(* Nothing more is said of a process that has touched freed memory.        *)
Torn(s) == [Fresh(s.on) EXCEPT !.torn = TRUE]
Has(s, h) == h \in DOMAIN s.entries
LiveWindows(s) == {w \in Windows : s.wins[w].live}

(* An entry's address, kept by its scrim's gesture and its exit's timeout, *)
(* is that of a table which has since been moved.                          *)
Moved(s, h) == s.on = "gtk" /\ h <= GrowAt /\ Len(s.entries) > GrowAt

-----------------------------------------------------------------------------
(* Windows: create, show, close, and the loop.                             *)
Made(s, w, sheet, win) ==
  [s EXCEPT !.wins[w] = [win EXCEPT !.made = TRUE, !.sheet = sheet],
            !.early = @ \/ s.loop = "before"]

GtkWindowCreate(s, w, sheet) ==
  LET app == s.loop = "runs" /\ ~sheet
  IN [Made(s, w, sheet, [NoWindow EXCEPT !.live = ~sheet, !.up = TRUE, !.app = app])
        EXCEPT !.uses = IF app THEN @ + 2 ELSE @]
Win32WindowCreate(s, w, sheet) ==
  Made(s, w, sheet, [NoWindow EXCEPT !.live = TRUE, !.up = TRUE])
AndroidWindowCreate(s, w, sheet) == Made(s, w, sheet, NoWindow)
WindowCreate(s, w, sheet) ==
  CASE s.on = "gtk" -> GtkWindowCreate(s, w, sheet)
    [] s.on = "win32" -> Win32WindowCreate(s, w, sheet)
    [] s.on = "android" -> AndroidWindowCreate(s, w, sheet)

GtkShow(s, w) ==
  IF s.wins[w].up THEN [s EXCEPT !.wins[w].shown = TRUE] ELSE Torn(s)
(* A sheet is looked up in the registry, which it has left when it is gone.*)
GtkPresent(s, w) ==
  IF s.wins[w].up THEN [s EXCEPT !.wins[w].shown = TRUE] ELSE s
Win32Show(s, w) == [s EXCEPT !.wins[w].shown = @ \/ s.wins[w].up]
AndroidShow(s, w) ==
  [s EXCEPT !.wins[w].up = TRUE, !.wins[w].live = TRUE, !.wins[w].shown = TRUE]
WindowShow(s, w) ==
  CASE s.on = "gtk" -> IF s.wins[w].sheet THEN GtkPresent(s, w) ELSE GtkShow(s, w)
    [] s.on = "win32" -> Win32Show(s, w)
    [] s.on = "android" -> AndroidShow(s, w)

(* Its widgets leave the registry with a window; the overlay table is not  *)
(* told.                                                                   *)
ContentsGone(s, w) ==
  [h \in DOMAIN s.entries |->
     IF s.entries[h].win = w THEN [s.entries[h] EXCEPT !.content = "gone"] ELSE s.entries[h]]

GtkDestroyed(s, w) ==
  LET uses == s.uses - (IF s.wins[w].app THEN 1 ELSE 0)
                     - (IF s.wins[w].live /\ s.loop = "runs" THEN 1 ELSE 0)
  IN [s EXCEPT !.wins[w].live = FALSE, !.wins[w].up = FALSE, !.entries = ContentsGone(s, w),
               !.uses = uses, !.loop = IF @ = "runs" /\ uses <= 0 THEN "over" ELSE @]
Win32Destroyed(s, w) ==
  LET rest == [s EXCEPT !.wins[w].live = FALSE, !.wins[w].up = FALSE,
                        !.entries = ContentsGone(s, w)]
  IN CASE LiveWindows(rest) # {} -> rest
       [] LiveWindows(rest) = {} /\ s.loop = "runs" -> [rest EXCEPT !.loop = "over"]
       [] OTHER -> [rest EXCEPT !.stop = TRUE]
AndroidClosed(s, w) == [s EXCEPT !.wins[w].live = FALSE, !.wins[w].up = FALSE]
ActivityFinished(s) ==
  [s EXCEPT !.wins = [w \in Windows |-> [s.wins[w] EXCEPT !.live = FALSE, !.up = FALSE]],
            !.entries = [h \in DOMAIN s.entries |-> [s.entries[h] EXCEPT !.content = "gone"]],
            !.loop = "over"]

(* The person closes it: the title bar, Back.                              *)
Dismissed(s, w) ==
  CASE s.on = "gtk" -> GtkDestroyed(s, w)
    [] s.on = "win32" -> Win32Destroyed(s, w)
    [] s.on = "android" -> IF w = 1 THEN ActivityFinished(s) ELSE AndroidClosed(s, w)

(* The application does, or dismisses a sheet, which is looked up as       *)
(* above; GTK does not close what was never shown.                         *)
GtkClose(s, w) ==
  CASE ~s.wins[w].up -> Torn(s)
    [] s.wins[w].up /\ s.wins[w].shown -> GtkDestroyed(s, w)
    [] OTHER -> s
GtkDismiss(s, w) ==
  IF s.wins[w].up /\ s.wins[w].shown THEN GtkDestroyed(s, w) ELSE s
Win32WindowClose(s, w) == IF s.wins[w].up THEN Win32Destroyed(s, w) ELSE s
AndroidClose(s, w) == IF s.wins[w].live THEN AndroidClosed(s, w) ELSE s
WindowClose(s, w) ==
  CASE s.on = "gtk" -> IF s.wins[w].sheet THEN GtkDismiss(s, w) ELSE GtkClose(s, w)
    [] s.on = "win32" -> Win32WindowClose(s, w)
    [] s.on = "android" -> AndroidClose(s, w)

(* The driver does, by its own numbers: an extra window not yet closed.    *)
CloseByHandle(s, w) ==
  CASE s.on = "gtk" -> IF s.wins[w].up THEN GtkDestroyed(s, w) ELSE Torn(s)
    [] s.on = "win32" -> IF s.wins[w].live THEN Win32Destroyed(s, w) ELSE s
    [] s.on = "android" -> IF w = 1 THEN ActivityFinished(s) ELSE AndroidClose(s, w)

Primary == [NoWindow EXCEPT !.made = TRUE, !.live = TRUE, !.up = TRUE, !.shown = TRUE]
GtkRun(s) ==
  [s EXCEPT !.wins[1] = [Primary EXCEPT !.app = TRUE], !.uses = 2, !.loop = "runs"]
Win32Run(s) ==
  [s EXCEPT !.wins[1] = Primary, !.loop = IF s.stop THEN "over" ELSE "runs"]
AndroidRun(s) == [s EXCEPT !.wins[1] = Primary, !.loop = "runs"]
RunRaw(s) ==
  CASE s.on = "gtk" -> GtkRun(s) [] s.on = "win32" -> Win32Run(s)
    [] s.on = "android" -> AndroidRun(s)

(* app_quit; GTK's, before the run, leaves only the request behind.        *)
AppQuit(s) ==
  CASE s.loop = "runs" /\ s.on = "android" -> [ActivityFinished(s) EXCEPT !.quit = TRUE]
    [] s.loop = "runs" /\ s.on # "android" -> [s EXCEPT !.loop = "over", !.quit = TRUE]
    [] OTHER -> [s EXCEPT !.stop = @ \/ s.on = "win32", !.quit = TRUE]

(* Android makes the activity again in a live process: the body moves to   *)
(* the new host, and nothing else does.                                    *)
Recreated(s) ==
  [s EXCEPT !.entries = [h \in DOMAIN s.entries |->
     IF s.entries[h].win = 1 /\ s.entries[h].live
     THEN [s.entries[h] EXCEPT !.content = "adrift"] ELSE s.entries[h]]]

-----------------------------------------------------------------------------
(* Overlays. The table only grows; a closed entry stays, no longer live.   *)
(* Each opens with a content of its own.                                   *)
Opened(s, w, kind, where) == [s EXCEPT !.entries = Append(@, Entry(w, kind, where))]

GtkOpen(s, w, kind) ==
  CASE ~s.wins[w].made \/ s.wins[w].sheet -> s
    [] s.wins[w].made /\ ~s.wins[w].sheet /\ ~s.wins[w].up -> Torn(s)
    [] OTHER -> Opened(s, w, kind, "up")
Win32Open(s, w, kind) ==
  IF ~s.wins[w].made THEN s
  ELSE Opened(s, w, kind, IF s.wins[w].up THEN "up" ELSE "adrift")
AndroidOpen(s, w, kind) ==
  IF ~s.wins[w].live \/ s.wins[w].sheet THEN s ELSE Opened(s, w, kind, "up")
Open(s, w, kind) ==
  CASE s.on = "gtk" -> GtkOpen(s, w, kind)
    [] s.on = "win32" -> Win32Open(s, w, kind)
    [] s.on = "android" -> AndroidOpen(s, w, kind)

(* The transition's kind, as far as a backend looks at it: one all know,   *)
(* one none does, none; and its milliseconds, or 0 for the backend's own.  *)
(* Switched off (AETHER_UI_NO_ANIMATION, the animator scale), none is set. *)
Tweens(s, kind, ms) ==
  CASE s.on = "gtk" -> kind = "fade"
    [] s.on = "win32" -> kind # "none" /\ ms > 0
    [] s.on = "android" -> ms > 0
SetTransition(s, h, kind, ms) ==
  IF Has(s, h) THEN [s EXCEPT !.entries[h].tweens = Tweens(s, kind, ms)] ELSE s

(* MUTANT of Detached: the widgets stay in the registry.                   *)
DetachedOnly(s, h) == [s EXCEPT !.entries[h].live = FALSE, !.entries[h].exiting = FALSE]
Detached(s, h) ==
  [s EXCEPT !.entries[h].live = FALSE, !.entries[h].exiting = FALSE,
            !.entries[h].content = "gone"]

(* Idempotent; with a transition the entry stays live while its exit plays.*)
Close(s, h) ==
  CASE ~Has(s, h) -> s
    [] Has(s, h) /\ (~s.entries[h].live \/ s.entries[h].exiting) -> s
    [] OTHER ->
         CASE s.on = "gtk" /\ ~s.wins[s.entries[h].win].up -> Torn(s)
           [] s.entries[h].tweens ->
                [s EXCEPT !.entries[h].exiting = TRUE]
           [] OTHER -> Detached(s, h)

(* The exit has played.                                                    *)
GtkExitDone(s, h) ==
  IF Moved(s, h) \/ ~s.wins[s.entries[h].win].up THEN Torn(s) ELSE Detached(s, h)
Win32FadeDone(s, h) == Detached(s, h)
AndroidFinalize(s, h) == IF s.entries[h].live THEN Detached(s, h) ELSE s
ExitDone(s, h) ==
  CASE s.on = "gtk" -> GtkExitDone(s, h)
    [] s.on = "win32" -> Win32FadeDone(s, h)
    [] s.on = "android" -> AndroidFinalize(s, h)

(* A press on a scrim runs on_dismiss, then closes, whatever on_dismiss    *)
(* has done: nothing, closed this overlay, opened another.                 *)
AppReacts(s, h, react) ==
  CASE react = "none" -> s
    [] react = "close" -> Close(s, h)
    [] react = "open" -> Open(s, s.entries[h].win, "modal")
Heard(s, h) == [s EXCEPT !.entries[h].told = TRUE]
Pressed(s, h, react) ==
  LET after == AppReacts(Heard(s, h), h, react)
  IN IF Moved(s, h) \/ Moved(after, h) THEN Torn(s) ELSE Close(after, h)

(* Escape takes the topmost live entry; GTK and Win32 also one whose exit  *)
(* plays, which swallows the key. Win32 hears it from the driver alone.    *)
Takers(s) == {h \in DOMAIN s.entries :
                s.entries[h].live /\ (s.on = "android" => ~s.entries[h].exiting)}
Topmost(s) == CHOOSE h \in Takers(s) : \A k \in Takers(s) : k <= h
Escape(s) == IF Takers(s) = {} THEN s ELSE Close(s, Topmost(s))

(* A toast is an overlay with a timer; on Win32 the timer needs a slot to  *)
(* find its overlay again.                                                 *)
GtkToast(s, w) ==
  LET open == GtkOpen(s, w, "toast")
      h == Len(open.entries)
  IN IF h = Len(s.entries) THEN open
     ELSE [open EXCEPT !.timers = @ \cup {h}]
(* MUTANT of Win32Toast: a toast takes the last slot when none is free.    *)
Win32ToastLastSlot(s, w) ==
  LET open == Win32Open(s, w, "toast")
      h == Len(open.entries)
  IN IF h = Len(s.entries) THEN open
     ELSE [open EXCEPT !.timers = {h}]
Win32Toast(s, w) ==
  LET open == Win32Open(s, w, "toast")
      h == Len(open.entries)
      slot == Cardinality(s.timers) < ToastSlots
  IN IF h = Len(s.entries) THEN open
     ELSE [open EXCEPT !.timers = IF slot THEN @ \cup {h} ELSE @]
AndroidToast(s, w) ==
  LET open == AndroidOpen(s, w, "toast")
      h == Len(open.entries)
  IN IF h = Len(s.entries) THEN open
     ELSE [open EXCEPT !.timers = @ \cup {h}]
Toast(s, w) ==
  CASE s.on = "gtk" -> GtkToast(s, w) [] s.on = "win32" -> Win32Toast(s, w)
    [] s.on = "android" -> AndroidToast(s, w)
Expired(s, h) == Close([s EXCEPT !.timers = @ \ {h}], h)

(* The drawn tooltip is one overlay of the primary window, shown again     *)
(* while it lives (GTK, Win32) or replaced (Android).                      *)
TipLives(s) == Has(s, s.tip) /\ s.entries[s.tip].live
TipOpened(s) ==
  LET open == Open(s, 1, "tip")
  IN [open EXCEPT !.tip = IF Len(open.entries) > Len(s.entries) THEN Len(open.entries) ELSE 0]
GtkTooltip(s) ==
  IF TipLives(s) \/ ~s.wins[1].up THEN s ELSE TipOpened(s)
Win32Tooltip(s) == IF TipLives(s) THEN s ELSE TipOpened(s)
AndroidTooltip(s) == TipOpened(IF TipLives(s) THEN Detached(s, s.tip) ELSE s)
Tooltip(s) ==
  CASE s.on = "gtk" -> GtkTooltip(s) [] s.on = "win32" -> Win32Tooltip(s)
    [] s.on = "android" -> AndroidTooltip(s)
TooltipHide(s) ==
  IF s.on = "win32" THEN Close(s, s.tip) ELSE [Close(s, s.tip) EXCEPT !.tip = 0]
===============================================================================
