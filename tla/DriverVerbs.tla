------------------------------ MODULE DriverVerbs ------------------------------
(***************************************************************************)
(* What each verb of the driver does to a widget, on the three backends    *)
(* that have a dispatcher of their own: which checks it passes first,      *)
(* which of the widget's closures it runs, what the widget's value becomes *)
(* and how the client is answered. Pure operators; Driver runs them.       *)
(*                                                                         *)
(* A widget is a record of its kind, whether it is live, sealed and the    *)
(* banner, and a value (checked, the text, the position), 0 or 1. A text   *)
(* or value that a verb sets is 0 or 1 too. "row" stands for a container   *)
(* with every gesture a widget can have.                                   *)
(***************************************************************************)
EXTENDS Naturals

Kinds    == {"button", "toggle", "field", "text", "slider", "picker", "scrollbar", "row"}
Backend3 == {"gtk", "win32", "android"}
HopBackends == {"gtk", "android"}   \* those with a run_on_ui_thread hook

(* The verbs whose route replies through dispatch_and_reply, those that    *)
(* word their own reply, and those that call the backend without a         *)
(* dispatch.                                                               *)
Enveloped == {"click", "set_text", "toggle", "set_value", "focus", "submit", "drag",
              "hover", "press", "scroll_by"}
OwnReply  == {"context_menu", "secondary_click"}
Direct    == {"double_click", "drop", "scroll", "undo"}
WithValue == {"set_text", "set_value", "scroll_by"}
Verbs     == Enveloped \cup OwnReply \cup Direct

(* The closures a widget of each kind has.                                 *)
Attached(k) ==
  CASE k = "button" -> {"click"}
    [] k \in {"toggle", "slider", "picker", "scrollbar"} -> {"change"}
    [] k = "field" -> {"change", "submit"}
    [] k = "row"   -> {"click", "dblclick", "drop", "scroll", "drag", "menu", "secondary"}
    [] k = "text"  -> {}

(* A scrollbar's value and its drag are sent as the scrollbar's own verb,  *)
(* which no other widget gets.                                             *)
Routed(v, w) ==
  IF w.live /\ w.kind = "scrollbar" /\ v \in {"set_value", "drag"} THEN "scroll_by" ELSE v
Routable(v, w) == v = "scroll_by" => w.live /\ w.kind = "scrollbar"

(* An outcome: the dispatcher's result (0 done, 1 sealed, 2 banner, 3 no   *)
(* such thing; 4 is the route's bad request), the closures run, the value, *)
(* and whether it was only posted.                                         *)
Outcome(r, ran, v) == [result |-> r, ran |-> ran, value |-> v, posted |-> FALSE]
Refuse(w, r)       == Outcome(r, {}, w.value)
Does(w, ran, v)    == Outcome(0, ran \cap Attached(w.kind), v)
Nothing(w)         == Outcome(0, {}, w.value)

(***************************************************************************)
(* The checks before a verb: dead or missing, then the banner, then the    *)
(* seal. Each backend lets other verbs by.                                 *)
(***************************************************************************)
(* MUTANT of Checked: the seal is looked at before the banner only.        *)
CheckedUnlessBanner(w) ==
  IF ~w.live THEN 3 ELSE IF w.banner THEN 2 ELSE 0

Checked(w) ==
  IF ~w.live THEN 3 ELSE IF w.banner THEN 2 ELSE IF w.sealed THEN 1 ELSE 0

LiveOnly(w) == IF w.live THEN 0 ELSE 3

(* The verbs of hook_dispatch_action that return before test_action_idle.  *)
GtkUnchecked == {"scroll_by", "secondary_click", "drag", "submit"}
GtkCheck(v, w) == IF v \in GtkUnchecked THEN 0 ELSE Checked(w)

Win32Check(v, w) == IF v = "focus" THEN LiveOnly(w) ELSE Checked(w)

AndroidCheck(v, w) ==
  IF v = "focus" THEN LiveOnly(w) ELSE IF v = "context_menu" THEN 0 ELSE Checked(w)

Check(b, v, w) ==
  CASE b = "gtk" -> GtkCheck(v, w)
    [] b = "win32" -> Win32Check(v, w)
    [] b = "android" -> AndroidCheck(v, w)

(***************************************************************************)
(* Clicks.                                                                 *)
(***************************************************************************)
Flip(w) == 1 - w.value

(* MUTANT of GtkClick: the check button is no GtkButton and has no click   *)
(* closure.                                                                *)
GtkClickNoToggle(w) ==
  IF w.kind = "toggle" THEN Nothing(w) ELSE Does(w, {"click"}, w.value)

(* "clicked" on a button, set_active on a check button, else the closure   *)
(* that the on_click gesture has.                                          *)
GtkClick(w) ==
  IF w.kind = "toggle" THEN Does(w, {"change"}, Flip(w)) ELSE Does(w, {"click"}, w.value)

Win32Click(w) ==
  IF w.kind = "toggle" THEN Does(w, {"change"}, Flip(w)) ELSE Does(w, {"click"}, w.value)

(* performClick: the listener a tap runs, a CheckBox's own toggle.         *)
AndroidClick(w) ==
  IF w.kind = "toggle" THEN Does(w, {"change"}, Flip(w)) ELSE Does(w, {"click"}, w.value)

GtkToggle(w)   == IF w.kind = "toggle" THEN Does(w, {"change"}, Flip(w)) ELSE Nothing(w)
Win32Toggle(w) == IF w.kind = "toggle" THEN Does(w, {"change"}, Flip(w)) ELSE Nothing(w)
AndroidToggle(w) == IF w.kind = "toggle" THEN AndroidClick(w) ELSE Nothing(w)

(***************************************************************************)
(* Texts and values.                                                       *)
(***************************************************************************)
(* The buffer's "changed" runs on_change and a binding's write-back.       *)
GtkSetText(w, t) ==
  IF w.kind \in {"text", "field"} THEN Does(w, {"change"}, t) ELSE Nothing(w)

(* SetWindowTextW, then by hand what EN_CHANGE does.                       *)
Win32SetText(w, t) ==
  IF w.kind \in {"text", "field"} THEN Does(w, {"change"}, t) ELSE Nothing(w)

(* A field's TextWatcher; a button's text is set too.                      *)
AndroidSetText(w, t) ==
  IF w.kind \in {"text", "field", "button"} THEN Does(w, {"change"}, t) ELSE Nothing(w)

IfMoved(w, v) == Does(w, IF v # w.value THEN {"change"} ELSE {}, v)
Moved(w, v)   == Does(w, {"change"}, v)

(* value-changed and the picker's notify come on a real change only.       *)
GtkSetValue(w, v) ==
  IF w.kind \in {"slider", "picker"} THEN IfMoved(w, v) ELSE Nothing(w)

(* A slider's handler is called whether or not it moved.                   *)
Win32SetValue(w, v) ==
  CASE w.kind = "slider" -> Moved(w, v)
    [] w.kind = "picker" -> IfMoved(w, v)
    [] OTHER -> Nothing(w)

AndroidSetValue(w, v) ==
  CASE w.kind = "slider" -> Moved(w, v)
    [] w.kind = "picker" -> IfMoved(w, v)
    [] OTHER -> Nothing(w)

(* aether_ui_scrollbar_user_set: clamped, told when it moved.              *)
ScrollBy(w, v) == IfMoved(w, v)

(***************************************************************************)
(* Gestures.                                                               *)
(***************************************************************************)
OrMissing(w, c) ==
  IF c \in Attached(w.kind) THEN Does(w, {c}, w.value) ELSE Refuse(w, 3)

(* A destroyed widget is none on GTK, and its closures are none.           *)
GtkDrag(w)   == IF w.live THEN OrMissing(w, "drag") ELSE Refuse(w, 3)
Win32Drag(w) == OrMissing(w, "drag")
AndroidDrag(w) == OrMissing(w, "drag")

(* Return in a field: the entry's "activate", a posted WM_KEYDOWN, the     *)
(* editor action.                                                          *)
GtkSubmit(w)   == IF w.live THEN OrMissing(w, "submit") ELSE Refuse(w, 3)
Win32Submit(w) ==
  IF w.kind = "field" THEN [Nothing(w) EXCEPT !.posted = TRUE] ELSE Refuse(w, 3)
AndroidSubmit(w) == OrMissing(w, "submit")

(* aether_ui_secondary_drive: the table of on_secondary_click keeps a      *)
(* closure when its widget is gone.                                        *)
Secondary(w) == Does(w, {"secondary"}, w.value)

(* aeui_ctx_menu_activate, Win32's arm and aeui_ctx_fire, of an item.    *)
ContextItem(w) == IF w.live THEN Does(w, {"menu"}, w.value) ELSE Nothing(w)

(* focus, hover, press: no closure of ours, no value.                      *)
Shows(w) == Nothing(w)

(* double_click, drop and scroll: the closure, if the widget has one. All  *)
(* three backends drop a destroyed widget's.                               *)
Fire(w, c) == IF w.live THEN Does(w, {c}, w.value) ELSE Nothing(w)
FireDirect(v, w) ==
  CASE v = "double_click" -> Fire(w, "dblclick")
    [] v = "drop"   -> Fire(w, "drop")
    [] v = "scroll" -> Fire(w, "scroll")
    [] v = "undo"   -> Nothing(w)

(***************************************************************************)
(* The three dispatchers.                                                  *)
(***************************************************************************)
GtkPerform(v, w, x) ==
  CASE v = "click" -> GtkClick(w)          [] v = "toggle" -> GtkToggle(w)
    [] v = "set_text" -> GtkSetText(w, x)  [] v = "set_value" -> GtkSetValue(w, x)
    [] v = "scroll_by" -> ScrollBy(w, x)   [] v = "drag" -> GtkDrag(w)
    [] v = "submit" -> GtkSubmit(w)        [] v = "secondary_click" -> Secondary(w)
    [] v = "context_menu" -> ContextItem(w) [] OTHER -> Shows(w)

Win32Perform(v, w, x) ==
  CASE v = "click" -> Win32Click(w)          [] v = "toggle" -> Win32Toggle(w)
    [] v = "set_text" -> Win32SetText(w, x)  [] v = "set_value" -> Win32SetValue(w, x)
    [] v = "scroll_by" -> ScrollBy(w, x)     [] v = "drag" -> Win32Drag(w)
    [] v = "submit" -> Win32Submit(w)        [] v = "secondary_click" -> Secondary(w)
    [] v = "context_menu" -> ContextItem(w)  [] OTHER -> Shows(w)

AndroidPerform(v, w, x) ==
  CASE v = "click" -> AndroidClick(w)          [] v = "toggle" -> AndroidToggle(w)
    [] v = "set_text" -> AndroidSetText(w, x)  [] v = "set_value" -> AndroidSetValue(w, x)
    [] v = "scroll_by" -> ScrollBy(w, x)       [] v = "drag" -> AndroidDrag(w)
    [] v = "submit" -> AndroidSubmit(w)        [] v = "secondary_click" -> Secondary(w)
    [] v = "context_menu" -> ContextItem(w)    [] OTHER -> Shows(w)

Perform(b, verb, w, x) ==
  LET v == Routed(verb, w)
      r == IF Routable(v, w) THEN Check(b, v, w) ELSE 4
  IN  CASE r # 0 -> Refuse(w, r)
        [] r = 0 /\ b = "gtk" -> GtkPerform(v, w, x)
        [] r = 0 /\ b = "win32" -> Win32Perform(v, w, x)
        [] r = 0 /\ b = "android" -> AndroidPerform(v, w, x)

(***************************************************************************)
(* The reply.                                                              *)
(***************************************************************************)
EnvelopeStatus(r) ==
  CASE r = 0 -> 200 [] r \in {1, 2} -> 403 [] r = 3 -> 404 [] r = 4 -> 400

Status(v, o) ==
  CASE v \in Enveloped -> EnvelopeStatus(o.result)
    [] v \in OwnReply  -> IF o.ran # {} THEN 200 ELSE 404
    [] v \in Direct    -> 200

(***************************************************************************)
(* What a person's own act runs, through the platform's signals: the       *)
(* measure of what a driven one should run.                                *)
(***************************************************************************)
GtkSignals(w)     == IF w.kind = "toggle" THEN {"change"} ELSE {"click"} \cap Attached(w.kind)
Win32Commands(w)  == IF w.kind = "toggle" THEN {"change"} ELSE {"click"} \cap Attached(w.kind)
AndroidEvents(w)  == IF w.kind = "toggle" THEN {"change"} ELSE {"click"} \cap Attached(w.kind)
Tap(b, w) ==
  CASE b = "gtk" -> GtkSignals(w)
    [] b = "win32" -> Win32Commands(w)
    [] b = "android" -> AndroidEvents(w)
=============================================================================
