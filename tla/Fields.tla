-------------------------------- MODULE Fields --------------------------------
(***************************************************************************)
(* Typed state cells, the bindings that tie them to widgets, and text      *)
(* fields, on the three backends with a dispatcher of their own. A set of  *)
(* a cell walks the bindings and then tells the observers; a bound field   *)
(* writes back what is typed; a closure of the application may set a cell  *)
(* or a field again: all of it nested calls on the UI thread, so each      *)
(* operation here takes the whole state s before it and returns the whole  *)
(* state after it. Inputs runs them.                                       *)
(*                                                                         *)
(* s holds the backend and the application (what its closures do), the     *)
(* cells, the bindings in order, the fields (kind, text, write-backs,      *)
(* times their on_change is blocked), the label and the button bound, the  *)
(* global counters, and a log of the operation.                            *)
(***************************************************************************)
EXTENDS Integers, Sequences, SequencesExt

Cells  == {"name", "ok"}        \* a string cell and a bool cell
Fields == {"f1", "f2"}
CellType == [c \in Cells |-> IF c = "name" THEN "string" ELSE "bool"]

(* A binding: its kind, its cell, and the widget (a field, the label, the  *)
(* button).                                                                *)
Binding(k, c, w, inv) == [kind |-> k, cell |-> c, widget |-> w, invert |-> inv]

NewField(k) == [kind |-> k, text |-> "", links |-> <<>>, blocked |-> 0]

Log == [told |-> <<>>, seen |-> <<>>, edits |-> 0, sets |-> [c \in Cells |-> 0]]

Fresh(backend, app, k2) ==
  [backend |-> backend, app |-> app,
   cells |-> [c \in Cells |-> IF c = "name" THEN "" ELSE FALSE],
   binds |-> <<>>,
   fields |-> [f \in Fields |-> NewField(IF f = "f1" THEN "entry" ELSE k2)],
   label |-> "", enabled |-> TRUE, hidden |-> FALSE,
   seeding |-> 0, programmatic |-> 0, garbage |-> "", log |-> Log]

(* What a tidying application makes of a text.                             *)
Tidy(t) == IF t = "b" THEN "a" ELSE t

RECURSIVE SetCell(_, _, _), Edited(_, _, _), SetText(_, _, _, _), GtkChanged(_, _)

(***************************************************************************)
(* The application: its on_change of the fields and its observer of the    *)
(* name. "tidy" sets the cell to a tidied text from on_change; "insert"    *)
(* puts a default in the empty second field, as a keystroke would, when    *)
(* the name is empty; "validate" keeps a second cell.                      *)
(***************************************************************************)
Told(s, f, t) ==
  LET told == [s EXCEPT !.log.told = Append(@, [field |-> f, text |-> t,
                                                shown |-> s.fields[f].text])]
  IN  IF s.app = "tidy" THEN SetCell(told, "name", Tidy(t)) ELSE told

Rendered(s, c) ==
  CASE CellType[c] = "string" -> s.cells[c]
    [] CellType[c] = "bool"   -> IF s.cells[c] THEN "true" ELSE "false"
Truthy(s, c) == IF CellType[c] = "string" THEN s.cells[c] # "" ELSE s.cells[c]

(* What a binding keeps: its widget shows its cell.                        *)
Agree(s, b) ==
  CASE b.kind = "value"   -> s.fields[b.widget].text = s.cells[b.cell]
    [] b.kind = "text"    -> s.label = Rendered(s, b.cell)
    [] b.kind = "enabled" -> s.enabled = (Truthy(s, b.cell) # b.invert)
    [] b.kind = "hidden"  -> s.hidden = (Truthy(s, b.cell) # b.invert)

Notify(s, c) ==
  LET v == s.cells[c]
      saw == [s EXCEPT !.log.seen = Append(@, [cell |-> c, val |-> v,
                agree |-> \A j \in DOMAIN s.binds : s.binds[j].cell = c => Agree(s, s.binds[j])])]
  IN  CASE s.app = "insert" /\ c = "name" /\ v = "" /\ s.fields["f2"].text = "" ->
             Edited(saw, "f2", "a")
        [] s.app = "validate" /\ c = "name" -> SetCell(saw, "ok", v # "")
        [] OTHER -> saw

(***************************************************************************)
(* GTK: the entry's own signal. The application's handler was connected    *)
(* when the field was made, the write-backs when it was bound; each reads  *)
(* the field when its turn comes.                                          *)
(***************************************************************************)
GtkWriteBack(s, f, c) ==
  IF (s.fields[f].kind = "area" /\ s.seeding > 0) \/ s.cells[c] = s.fields[f].text THEN s
  ELSE SetCell(s, c, s.fields[f].text)

RECURSIVE GtkWriteBacks(_, _, _)
GtkWriteBacks(s, f, j) ==
  IF j > Len(s.fields[f].links) THEN s
  ELSE GtkWriteBacks(GtkWriteBack(s, f, s.fields[f].links[j]), f, j + 1)

(* MUTANT of GtkChanged: blocking on_change blocks the write-backs too.    *)
GtkChangedQuiet(s, f) ==
  IF s.fields[f].blocked > 0 THEN s ELSE GtkWriteBacks(Told(s, f, s.fields[f].text), f, 1)

GtkChanged(s, f) ==
  GtkWriteBacks(IF s.fields[f].blocked > 0 THEN s ELSE Told(s, f, s.fields[f].text), f, 1)

Put(s, f, t) == [s EXCEPT !.fields[f].text = t]

(* A password entry and a text view are emptied first, and say so; what is *)
(* then put in goes before whatever a handler has put there meanwhile. The *)
(* string put into a password entry by a binding is the cell's own: if the *)
(* emptying was written back, it has been freed by then.                   *)
GtkSetText(s, f, t, fromCell) ==
  LET held == [s EXCEPT !.fields[f].blocked = @ + 1]
      cut == IF s.fields[f].text = "" THEN held ELSE GtkChanged(Put(held, f, ""), f)
      new == IF fromCell = "none" THEN t
             ELSE IF cut.log.sets[fromCell] # held.log.sets[fromCell] THEN s.garbage ELSE t
      done == IF s.fields[f].kind = "entry" THEN GtkChanged(Put(held, f, t), f)
              ELSE IF new = "" THEN cut
              ELSE GtkChanged(Put(cut, f, new \o cut.fields[f].text), f)
  IN  [done EXCEPT !.fields[f].blocked = @ - 1]

(***************************************************************************)
(* Win32: an edit control sends EN_CHANGE to its parent from inside the    *)
(* write. What the toolkit itself writes is not heard, so it is not        *)
(* written back either; a field has one bound state, the last.             *)
(***************************************************************************)
Win32Changed(s, f) ==
  LET told == Told(s, f, s.fields[f].text)
      t == told.fields[f].text
      c == Last(told.fields[f].links)
  IN  IF told.fields[f].links # <<>> /\ told.cells[c] # t THEN SetCell(told, c, t) ELSE told

(***************************************************************************)
(* Android: the TextWatcher hears every set. A programmatic one is written *)
(* back and not told, a seeding one neither; the state is set first.       *)
(***************************************************************************)
AndroidChanged(s, f) ==
  LET t == s.fields[f].text
      links == s.fields[f].links
      mirrored == IF links # <<>> /\ s.seeding = 0 THEN SetCell(s, Last(links), t) ELSE s
  IN  IF mirrored.programmatic = 0 THEN Told(mirrored, f, t) ELSE mirrored

AndroidSetText(s, f, t) ==
  LET set == AndroidChanged([Put(s, f, t) EXCEPT !.programmatic = @ + 1], f)
  IN  [set EXCEPT !.programmatic = @ - 1]

-----------------------------------------------------------------------------
(* textfield_set_text and textarea_set_text, called by the application or  *)
(* by a binding, which passes its cell.                                    *)
SetText(s, f, t, fromCell) ==
  CASE s.backend = "gtk"     -> GtkSetText(s, f, t, fromCell)
    [] s.backend = "win32"   -> Put(s, f, t)
    [] s.backend = "android" -> AndroidSetText(s, f, t)

(* A keystroke, and textfield_insert.                                      *)
Edited(s, f, t) ==
  LET typed == [Put(s, f, t) EXCEPT !.log.edits = @ + 1]
  IN  CASE s.backend = "gtk"     -> GtkChanged(typed, f)
        [] s.backend = "win32"   -> Win32Changed(typed, f)
        [] s.backend = "android" -> AndroidChanged(typed, f)

(* The driver's set_text on Win32: the control is set without the guard, so*)
(* a single-line one has sent its EN_CHANGE by the time the same path is   *)
(* taken by hand.                                                          *)
Win32Driven(s, f, t) ==
  LET sent == IF s.fields[f].kind = "area" THEN Put(s, f, t) ELSE Win32Changed(Put(s, f, t), f)
  IN  Win32Changed([sent EXCEPT !.log.edits = @ + 1], f)

(***************************************************************************)
(* The bindings.                                                           *)
(***************************************************************************)

(* A value binding compares first; it writes a GTK textarea, and any field *)
(* on Android, under the seeding count.                                    *)
SeedText(s, f, t, c) ==
  IF s.backend = "android" \/ (s.backend = "gtk" /\ s.fields[f].kind = "area") THEN
    LET set == SetText([s EXCEPT !.seeding = @ + 1], f, t, c)
    IN  [set EXCEPT !.seeding = @ - 1]
  ELSE SetText(s, f, t, c)

ApplyValue(s, b) ==
  LET want == s.cells[b.cell]
  IN  IF s.fields[b.widget].text = want THEN s ELSE SeedText(s, b.widget, want, b.cell)

ApplyBinding(s, b) ==
  LET on == Truthy(s, b.cell) # b.invert
  IN  CASE b.kind = "value"   -> ApplyValue(s, b)
        [] b.kind = "text"    -> [s EXCEPT !.label = Rendered(s, b.cell)]
        [] b.kind = "enabled" -> [s EXCEPT !.enabled = on]
        [] b.kind = "hidden"  -> [s EXCEPT !.hidden = on]

(* The walk reads the count again at each turn, so it meets a binding made *)
(* under way.                                                              *)
RECURSIVE Walk(_, _, _)
Walk(s, c, j) ==
  IF j > Len(s.binds) THEN s
  ELSE Walk(IF s.binds[j].cell = c THEN ApplyBinding(s, s.binds[j]) ELSE s, c, j + 1)

(* MUTANT of UpdateBindings: the observers are told before the bindings    *)
(* are applied.                                                            *)
UpdateAfterNotify(s, c) == Walk(Notify(s, c), c, 1)

UpdateBindings(s, c) == Notify(Walk(s, c, 1), c)

SetCell(s, c, v) ==
  UpdateBindings([s EXCEPT !.cells[c] = v, !.log.sets[c] = @ + 1], c)

(* A setter of the wrong type is ignored.                                  *)
SetAs(s, type, c, v) == IF CellType[c] = type THEN SetCell(s, c, v) ELSE s

(* bind_value connects the write-back (GTK) or makes the cell the field's  *)
(* bound state; then it seeds the field.                                   *)
Bind(s, b) ==
  LET added == [s EXCEPT !.binds = Append(@, b)]
  IN  ApplyBinding(IF b.kind = "value"
                   THEN [added EXCEPT !.fields[b.widget].links = Append(@, b.cell)]
                   ELSE added, b)
=============================================================================
