------------------------------- MODULE ListBox -------------------------------
(***************************************************************************)
(* The listbox of ui/module.ae: rows rendered over an application's list,  *)
(* the selection (single, or multiple with one of two click modes), the    *)
(* selection class each row wears, the single tab stop that moves between  *)
(* the rows, the keyboard, and a reorderable list's move.                  *)
(*                                                                         *)
(* The same facts live in several places here: selected, sel_flags and     *)
(* anchor count rows, the rows wear a class and a focusable flag, and an   *)
(* update throws every row away and carries the selection over by item.    *)
(* The application's on_select runs inside the key handler, which goes on  *)
(* with the row it had: what the application does meanwhile are steps.     *)
(* Rows count from 1 and 0 is the -1 of the code.                          *)
(***************************************************************************)
EXTENDS Integers, Sequences, SequencesExt, FiniteSets

CONSTANTS
  Items,     \* what the application lists, told apart by identity
  NoItem,    \* null
  MaxRows    \* bound: rows in a list

ASSUME ItemsAssumption == NoItem \notin Items /\ MaxRows \in Nat

VARIABLES
  kind,       \* which constructor built it: "single", "multi", "reorder"
  sel_mode,   \* multi: "toggle" or "standard"
  items,      \* the list that was rendered last
  rows,       \* the row widgets: [marked, stop]
  selected,
  anchor,
  sel_flags,  \* multi: one flag a row
  focus,      \* the row that has the keyboard focus, 0 if it is elsewhere
  next        \* the row a key is taking it to, once on_select has returned

vars == <<kind, sel_mode, items, rows, selected, anchor, sel_flags, focus, next>>

Lists == {l \in BoundedSeq(Items, MaxRows) : IsInjective(l)}
Multi == kind = "multi"
(* The keys held, where they make a difference.                            *)
Modifiers == IF Multi /\ sel_mode = "standard" THEN {"none", "shift", "ctrl"} ELSE {"none"}

Init ==
  /\ kind \in {"single", "multi", "reorder"}
  /\ sel_mode = "toggle"
  /\ items = <<>>
  /\ rows = <<>>
  /\ selected = 0
  /\ anchor = 0
  /\ sel_flags = <<>>
  /\ focus = 0
  /\ next = 0

(* --- the rows ------------------------------------------------------------ *)

(* _listbox_stop_row.                                                      *)
StopRow(sel) == IF sel = 0 THEN 1 ELSE sel

(* The row template: a new row is unmarked, and only the rows of a plain   *)
(* listbox take part in the tab order from the start.                      *)
Rendered(list, sel) ==
  [i \in DOMAIN list |->
     [marked |-> FALSE, stop |-> kind # "reorder" /\ i = StopRow(sel)]]

(* _listbox_rove_tabstop.                                                  *)
Roved(rs, to) == [i \in DOMAIN rs |-> [rs[i] EXCEPT !.stop = (i = to)]]

(* The class half of _listbox_write_flag, over the rows written.           *)
Marked(written, flags) ==
  [i \in DOMAIN rows |->
     [rows[i] EXCEPT !.marked = IF i \in written THEN flags[i] ELSE @]]

(* The single-select half of _listbox_apply_selection.                     *)
Highlight(i) ==
  [j \in DOMAIN rows |->
     [rows[j] EXCEPT !.marked = j = i \/ (@ /\ j # selected)]]

(* --- a row is clicked, or selected by the program ------------------------ *)

(* Shift: from the anchor, which stays, to this row.                       *)
Extend(i) ==
  LET from == IF anchor = 0 THEN i ELSE anchor
      InSpan(j) == (from <= j /\ j <= i) \/ (i <= j /\ j <= from)
  IN  /\ sel_flags' = [j \in DOMAIN rows |-> InSpan(j)]
      /\ rows' = Roved(Marked(DOMAIN rows, sel_flags'), i)
      /\ UNCHANGED anchor

(* Ctrl: this row alone changes.  The stop is not moved.                   *)
ToggleOne(i) ==
  /\ sel_flags' = [sel_flags EXCEPT ![i] = ~@]
  /\ rows' = Marked({i}, sel_flags')
  /\ anchor' = i

(* A plain click: this row alone is selected.  The stop is not moved.      *)
Only(i) ==
  /\ sel_flags' = [j \in DOMAIN rows |-> j = i]
  /\ rows' = Marked(DOMAIN rows, sel_flags')
  /\ anchor' = i

(* The default mode of a multi listbox.                                    *)
ToggleMode(i) ==
  /\ sel_flags' = [sel_flags EXCEPT ![i] = ~@]
  /\ rows' = Roved(Marked({i}, sel_flags'), i)
  /\ anchor' = i

(* _listbox_apply_standard.                                                *)
ApplyStandard(i, m) ==
  \/ m = "shift" /\ Extend(i)
  \/ m = "ctrl" /\ ToggleOne(i)
  \/ m = "none" /\ Only(i)

(* _listbox_apply_selection.                                               *)
ApplySelection(i, m) ==
  /\ selected' = i
  /\ \/ Multi /\ sel_mode = "standard" /\ ApplyStandard(i, m)
     \/ Multi /\ sel_mode = "toggle" /\ ToggleMode(i)
     \/ /\ ~Multi
        /\ rows' = Roved(Highlight(i), StopRow(i))
        /\ UNCHANGED <<sel_flags, anchor>>

(* MUTANT of FocusRow: the row is focused before the stop has reached it.  *)
FocusBefore(i) ==
  focus' = IF i # 0 /\ rows[i].stop THEN i ELSE focus
(* _listbox_focus_row: a toolkit gives the focus to a focusable widget     *)
(* only, and a row that is not the tab stop is not focusable.              *)
FocusRow(i) ==
  focus' = IF i # 0 /\ rows'[i].stop THEN i ELSE focus

(* _listbox_row_clicked: on_select comes last.                             *)
RowClicked(i, m) ==
  /\ ApplySelection(i, m)
  /\ FocusRow(i)
  /\ UNCHANGED <<kind, sel_mode, items>>

(* A person's click, or listbox_select by the program, which unlike the    *)
(* person may come while on_select runs.                                   *)
Click(i, m) == RowClicked(i, m) /\ UNCHANGED next

(* listbox_select(lb, -1) of a single-select listbox.                      *)
Deselect == ~Multi /\ rows # <<>> /\ Click(0, "none")

(* The arrows, Home and End, clamped to the list.                          *)
KeyTarget(k) ==
  CASE k = "Down" -> IF selected < Len(rows) THEN selected + 1 ELSE selected
    [] k = "Up" -> IF selected > 1 THEN selected - 1 ELSE 1
    [] k = "Home" -> 1
    [] k = "End" -> Len(rows)

(* The window's key handler, up to its callback.  Return changes nothing   *)
(* here.                                                                   *)
Key(k, m) ==
  /\ next = 0 /\ kind # "reorder" /\ focus # 0
  /\ KeyTarget(k) # selected
  /\ RowClicked(KeyTarget(k), m)
  /\ next' = KeyTarget(k)

(* MUTANT of KeyReturns: it first gives the row the stop.                  *)
ReturnsStopping ==
  /\ next # 0 /\ next' = 0
  /\ rows' = Roved(rows, next)
  /\ focus' = IF next \in DOMAIN rows THEN next ELSE focus
  /\ UNCHANGED <<kind, sel_mode, items, selected, anchor, sel_flags>>
(* Its end, after on_select: the row is focused by its index in the rows   *)
(* there are by now.  If they are fewer, what is read is no row's handle   *)
(* but whatever lies there; at best it is that of another row.             *)
KeyReturns ==
  /\ next # 0 /\ next' = 0
  /\ \/ next \in DOMAIN rows /\ focus' = IF rows[next].stop THEN next ELSE focus
     \/ next \notin DOMAIN rows /\ focus' \in {focus, 0} \cup {i \in DOMAIN rows : rows[i].stop}
  /\ UNCHANGED <<kind, sel_mode, items, rows, selected, anchor, sel_flags>>

(* listbox_set_selected.                                                   *)
SetSelected(i, on) ==
  /\ Multi /\ i \in DOMAIN rows
  /\ sel_flags' = [sel_flags EXCEPT ![i] = on]
  /\ rows' = Marked({i}, sel_flags')
  /\ selected' = IF on THEN i ELSE selected
  /\ anchor' = IF on THEN i ELSE anchor
  /\ UNCHANGED <<kind, sel_mode, items, focus, next>>

(* listbox_clear_selection.                                                *)
ClearSelection ==
  /\ Multi
  /\ sel_flags' = [i \in DOMAIN rows |-> FALSE]
  /\ rows' = Marked(DOMAIN rows, sel_flags')
  /\ selected' = 0
  /\ anchor' = 0
  /\ UNCHANGED <<kind, sel_mode, items, focus, next>>

(* listbox_selection_mode.                                                 *)
SelectionMode(mode) ==
  /\ Multi
  /\ sel_mode' = mode
  /\ UNCHANGED <<kind, items, rows, selected, anchor, sel_flags, focus, next>>

(* --- the list changes ---------------------------------------------------- *)

ItemAt(list, i) == IF i \in DOMAIN list THEN list[i] ELSE NoItem
IndexOf(list, it) == SelectInSeq(list, LAMBDA x : x = it)

(* MUTANTS of NowAt: an index of the old rows is kept as it is, or as long *)
(* as there is such a row.                                                 *)
StaysAt(prev, new, i) == i
SameRow(prev, new, i) == IF i \in DOMAIN new THEN i ELSE 0
(* Where the item of the old row i has gone.                               *)
NowAt(prev, new, i) == IndexOf(new, ItemAt(prev, i))

(* Old flags are read as far as the old list goes: if the application has  *)
(* grown that list itself, what follows them in memory counts as flags.    *)
Stray(prev) == {k \in DOMAIN prev : Multi /\ k > 1 /\ k > Len(sel_flags)}

(* What a listbox_update does to the rows, given what the list it holds    *)
(* contains by now, ...                                                    *)
Carried(prev, new, stray) ==
  {k \in {j \in DOMAIN sel_flags : sel_flags[j]} \cup stray : NowAt(prev, new, k) # 0}
SelectedNow(prev, new, stray) ==
  LET kept == Carried(prev, new, stray)
  IN  IF ~Multi THEN NowAt(prev, new, selected)
      ELSE IF kept = {} THEN 0
      ELSE NowAt(prev, new, CHOOSE k \in kept : \A j \in kept : j <= k)
Shows(prev, new, stray) ==
  /\ sel_flags' = IF ~Multi THEN <<>>
                  ELSE LET now == {NowAt(prev, new, k) : k \in Carried(prev, new, stray)}
                       IN  [j \in DOMAIN new |-> j \in now]
  /\ items' = new
  /\ rows' = Rendered(new, SelectedNow(prev, new, stray))
  /\ focus' = 0
  /\ UNCHANGED <<kind, sel_mode, next>>

(* ... and the whole of it.                                                *)
ListboxUpdate(prev, new) ==
  \E stray \in SUBSET Stray(prev) :
    /\ Shows(prev, new, stray)
    /\ selected' = SelectedNow(prev, new, stray)
    /\ anchor' = NowAt(prev, new, anchor)

(* The application hands over another list, or the same list, which it has *)
(* changed.                                                                *)
Update(new) == ListboxUpdate(items, new)
UpdateInPlace(new) == ListboxUpdate(new, new)

(* listbox_move: the span between the two rows is rotated in place.        *)
Rotated(list, from, to) == InsertAt(RemoveAt(list, from), to, list[from])

Move(from, to) ==
  /\ from \in DOMAIN items /\ to \in DOMAIN items /\ from # to
  /\ LET list == Rotated(items, from, to) IN ListboxUpdate(list, list)

(* --- the user moves the focus (external) --------------------------------- *)

TabInto ==
  /\ next = 0 /\ focus = 0
  /\ focus' \in {i \in DOMAIN rows : rows[i].stop}
  /\ UNCHANGED <<kind, sel_mode, items, rows, selected, anchor, sel_flags, next>>

FocusLeaves ==
  /\ next = 0 /\ focus # 0 /\ focus' = 0
  /\ UNCHANGED <<kind, sel_mode, items, rows, selected, anchor, sel_flags, next>>

Keys == {"Down", "Up", "Home", "End"}

(* A person acts when nothing runs, and so does the handler's end; a click *)
(* is also the application's ...                                           *)
Used ==
  \/ \E i \in DOMAIN rows, m \in Modifiers : Click(i, m)
  \/ \E k \in Keys, m \in Modifiers : Key(k, m)
  \/ KeyReturns \/ TabInto \/ FocusLeaves

(* ... which may do all this at any time.                                  *)
Programmed ==
  \/ Deselect
  \/ \E i \in DOMAIN rows, on \in BOOLEAN : SetSelected(i, on)
  \/ ClearSelection
  \/ \E mode \in {"toggle", "standard"} : SelectionMode(mode)
  \/ \E new \in Lists : Update(new) \/ UpdateInPlace(new)
  \/ \E from, to \in DOMAIN items : Move(from, to)

Next == Used \/ Programmed

Spec == Init /\ [][Next]_vars

(* --- properties ---------------------------------------------------------- *)

(* Every index the listbox keeps is a row of the list it shows, whatever   *)
(* updates came since it was taken: the code reads its arrays unchecked.   *)
TypeOK ==
  /\ kind \in {"single", "multi", "reorder"}
  /\ sel_mode \in {"toggle", "standard"}
  /\ items \in Seq(Items)
  /\ rows \in Seq([marked : BOOLEAN, stop : BOOLEAN]) /\ Len(rows) = Len(items)
  /\ {selected, anchor, focus} \subseteq 0 .. Len(rows)
  /\ next \in Nat
  /\ sel_flags \in Seq(BOOLEAN) /\ Len(sel_flags) = IF Multi THEN Len(rows) ELSE 0

(* The rows the model takes as selected, and their items.                  *)
Selection == IF Multi THEN {i \in DOMAIN rows : sel_flags[i]}
             ELSE {selected} \ {0}
PickedItems == {items[i] : i \in Selection}

(* No row looks selected that is not: every path that takes a row out of   *)
(* the selection takes the class off it, _listbox_write_flag for a multi   *)
(* listbox and _listbox_apply_selection for a single one.                  *)
LookOnlyIfSelected == \A i \in DOMAIN rows : rows[i].marked => i \in Selection

(* The key handler ends on a row there is: on_select may have updated the  *)
(* list to fewer.                                                          *)
KeyEndsOnARow == next <= Len(rows)

(* What the comment on _listbox_write_flag promises: a selection is never  *)
(* half-applied, "the model saying selected and the row not looking it".   *)
LookMatchesModel == \A i \in DOMAIN rows : rows[i].marked <=> i \in Selection

(* A list is one tab stop: never a list the Tab key cannot enter, nor one  *)
(* it stops in twice, whether or not a row is selected and after any       *)
(* update that removed the selected row.                                   *)
OneTabStop ==
  kind # "reorder" /\ rows # <<>> =>
    Cardinality({i \in DOMAIN rows : rows[i].stop}) = 1

(* What the comment on _listbox_rove_tabstop promises: the stop rides the  *)
(* selection, so Tab lands where the user left off.                        *)
StopRidesSelection ==
  kind # "reorder" /\ selected # 0 => rows[selected].stop

(* In a single-select listbox the focus, while it is in the list, is on    *)
(* the selected row: the row to which the next arrow key is delivered and  *)
(* the row from which it moves are the same one.                           *)
FocusFollowsSelection ==
  ~Multi /\ focus # 0 /\ selected # 0 => focus = selected

(* There is one place in the list where the keyboard is, or would come to. *)
OnePlaceForKeys == OneTabStop /\ FocusFollowsSelection

(* An update carries the selection and the anchor of a shift-click by item *)
(* and not by row: what was picked and is still listed stays picked,       *)
(* nothing else is, and the row touched last is one of those picked.       *)
SelectionCarried ==
  /\ PickedItems' = PickedItems \cap ToSet(items')
  /\ selected' # 0 => selected' \in Selection'
AnchorCarried == anchor' # 0 => items'[anchor'] = ItemAt(items, anchor)

(* The same of a move, which keeps every item: "the row the user picked is *)
(* the one they still mean".                                               *)
MoveKeepsTheItem ==
  [][\A from, to \in DOMAIN items :
       Move(from, to) => PickedItems' = PickedItems]_vars
=============================================================================
