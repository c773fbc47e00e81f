----------------------------- MODULE UndoStack -----------------------------
(***************************************************************************)
(* The application-wide undo stack of backend/aether_ui_system_extras.c    *)
(* (AeUndoEdit, undo_stack, the undo groups), as ui/module.ae's undoable(),*)
(* undo(), redo() and undo_group() drive it on the UI thread.              *)
(*                                                                         *)
(* The C array is a function on 0 .. CAP-1 with its two indices: edits in  *)
(* [0, undo_cursor) are undoable, those in [undo_cursor, undo_len)         *)
(* redoable.  An undoable() owns two boxed closures; they are made, moved  *)
(* and released together, so one positive number, the value of             *)
(* undo_push_seq at the push, names the pair.                              *)
(*                                                                         *)
(* What the closures do to the application is abstracted to the free       *)
(* group: running a do-closure on doc appends its edit, running the undo   *)
(* of the LAST edit of doc takes it off, and running any other undo leaves *)
(* a negative mark, for it was applied to a state it does not invert.      *)
(***************************************************************************)
EXTENDS Integers, Sequences, SequencesExt

CONSTANTS
  CAP,          \* AEUI_UNDO_CAP, 128 in the code
  Labels,       \* the labels edits and groups are given
  MaxPushes,    \* bound: undoable() calls explored
  MaxDepth,     \* bound: nesting of undo_group blocks explored
  StepInGroup   \* whether a group's block may itself call undo() and redo()

ASSUME CapAssumption == CAP \in Nat \ {0}
ASSUME BoundsAssumption == MaxPushes \in Nat /\ MaxDepth \in Nat
ASSUME StepAssumption == StepInGroup \in BOOLEAN

VARIABLES
  undo_stack,        \* [0 .. CAP-1 -> Edit]
  undo_len,
  undo_cursor,
  undo_group_depth,
  undo_group_start,
  undo_group_label,
  undo_push_seq,
  undo_group_seq0,
  opened,            \* undo_push_seq when the open or latest group began
  released,          \* closure pairs freed so far
  doc,               \* the edits in force in the application, oldest first
  forgotten          \* the part of doc whose edits the full stack dropped

stackVars == <<undo_stack, undo_len, undo_cursor, undo_push_seq, released>>
groupVars == <<undo_group_depth, undo_group_start, undo_group_label,
               undo_group_seq0, opened>>
vars == <<stackVars, groupVars, doc, forgotten>>

NoLabel == "NULL"
Slots == 0 .. CAP - 1
Edit == [label : Labels \cup {NoLabel}, box : Nat, members : Seq(Nat)]
EmptyEdit == [label |-> NoLabel, box |-> 0, members |-> <<>>]

(* The closure pairs one edit owns; 0 is the NULL box.                     *)
Boxes(e) == ({e.box} \cup {e.members[k] : k \in DOMAIN e.members}) \ {0}

(* The closures one step over an edit runs, oldest first.                  *)
StepOf(e) == IF e.members # <<>> THEN e.members ELSE <<e.box>>

(* One closure call on the application's document.                         *)
RunDo(d, m) == Append(d, m)
RunUndo(d, m) == IF d # <<>> /\ Last(d) = m THEN Front(d) ELSE Append(d, -m)

Init ==
  /\ undo_stack = [i \in Slots |-> EmptyEdit]
  /\ undo_len = 0
  /\ undo_cursor = 0
  /\ undo_group_depth = 0
  /\ undo_group_start = 0
  /\ undo_group_label = NoLabel
  /\ undo_push_seq = 0
  /\ undo_group_seq0 = 0
  /\ opened = 0
  /\ released = {}
  /\ doc = <<>>
  /\ forgotten = <<>>

(* undo_edit_release over the slots of S.                                  *)
Release(stack, S) ==
  [i \in Slots |-> IF i \in S THEN EmptyEdit ELSE stack[i]]
BoxesOf(stack, S) == UNION {Boxes(stack[i]) : i \in S}

(* MUTANT of ShiftDown: slot 0 is released, the array not moved.           *)
NotShifted(stack) == stack

(* The memmove that drops slot 0; the last slot keeps its old bits.        *)
ShiftDown(stack) ==
  [i \in Slots |-> IF i + 1 \in Slots THEN stack[i + 1] ELSE stack[i]]

(* MUTANT of RedoTail: the truncation starts one edit late.                *)
ShortRedoTail == undo_cursor + 1 .. undo_len - 1

(* The edits a new one makes unreachable.                                  *)
RedoTail == undo_cursor .. undo_len - 1

(* undoable(label, do, undo): do() runs, then aether_ui_undo_push_impl.    *)
Undoable(label) ==
  LET id   == undo_push_seq + 1
      kept == Release(undo_stack, RedoTail)
      full == undo_cursor >= CAP
      at   == IF full THEN undo_cursor - 1 ELSE undo_cursor
      base == IF full THEN ShiftDown(kept) ELSE kept
  IN  /\ undo_push_seq < MaxPushes
      /\ undo_stack' = [base EXCEPT ![at] = [label |-> label, box |-> id,
                                             members |-> <<>>]]
      /\ undo_len' = at + 1
      /\ undo_cursor' = at + 1
      /\ undo_push_seq' = id
      /\ released' = released \cup BoxesOf(undo_stack, RedoTail)
                              \cup (IF full THEN Boxes(kept[0]) ELSE {})
      /\ forgotten' = IF full THEN forgotten \o StepOf(kept[0]) ELSE forgotten
      /\ doc' = RunDo(doc, id)
      /\ UNCHANGED groupVars

MayStep == StepInGroup \/ undo_group_depth = 0

(* MUTANT of NewestFirst: a group is undone in the order it was done.      *)
OldestFirst(e) == StepOf(e)
NewestFirst(e) == Reverse(StepOf(e))

(* aether_ui_undo_step_impl: members newest first.                         *)
Undo ==
  /\ MayStep
  /\ undo_cursor > 0
  /\ undo_cursor' = undo_cursor - 1
  /\ doc' = FoldLeft(RunUndo, doc, NewestFirst(undo_stack[undo_cursor - 1]))
  /\ UNCHANGED <<undo_stack, undo_len, undo_push_seq, released, groupVars,
                 forgotten>>

CanRedo == undo_cursor < undo_len

(* aether_ui_redo_step_impl: members oldest first.                         *)
Redo ==
  /\ MayStep
  /\ CanRedo
  /\ undo_cursor' = undo_cursor + 1
  /\ doc' = FoldLeft(RunDo, doc, StepOf(undo_stack[undo_cursor]))
  /\ UNCHANGED <<undo_stack, undo_len, undo_push_seq, released, groupVars,
                 forgotten>>

(* MUTANT of OutermostBegin: an inner block starts the group anew.         *)
EveryBegin == TRUE
OutermostBegin == undo_group_depth = 0

(* aether_ui_undo_group_begin_impl: only the outermost begin records.      *)
GroupBegin(label) ==
  /\ undo_group_depth < MaxDepth
  /\ undo_group_depth' = undo_group_depth + 1
  /\ opened' = IF undo_group_depth = 0 THEN undo_push_seq ELSE opened
  /\ IF OutermostBegin
     THEN /\ undo_group_start' = undo_cursor
          /\ undo_group_seq0' = undo_push_seq
          /\ undo_group_label' = label
     ELSE UNCHANGED <<undo_group_start, undo_group_seq0, undo_group_label>>
  /\ UNCHANGED <<stackVars, doc, forgotten>>

(* The number of slots the closing group takes for its own.                *)
GroupSpan == undo_len - undo_group_start

Relabelled(e) ==
  [label |-> undo_group_label, box |-> e.box, members |-> e.members]

(* The loop that moves the boxes of the span into its first slot.          *)
Moved(e) == [label |-> NoLabel, box |-> 0, members |-> e.members]
GroupEntry ==
  [label   |-> undo_group_label,
   box     |-> 0,
   members |-> [k \in 1 .. GroupSpan |-> undo_stack[undo_group_start + k - 1].box]]
Collapsed ==
  [i \in Slots |-> IF i = undo_group_start THEN GroupEntry
                   ELSE IF i \in undo_group_start .. undo_len - 1
                     THEN Moved(undo_stack[i])
                     ELSE undo_stack[i]]

CloseGroup ==
  \/ /\ undo_push_seq = undo_group_seq0 \/ GroupSpan <= 0
     /\ UNCHANGED <<undo_stack, undo_len, undo_cursor>>
  \/ /\ undo_push_seq # undo_group_seq0 /\ GroupSpan = 1
     /\ undo_stack' = [undo_stack EXCEPT ![undo_group_start] = Relabelled(@)]
     /\ undo_cursor' = undo_len
     /\ UNCHANGED undo_len
  \/ /\ undo_push_seq # undo_group_seq0 /\ GroupSpan > 1
     /\ undo_stack' = Collapsed
     /\ undo_len' = undo_group_start + 1
     /\ undo_cursor' = undo_group_start + 1

(* aether_ui_undo_group_end_impl.                                          *)
GroupEnd ==
  /\ undo_group_depth > 0
  /\ undo_group_depth' = undo_group_depth - 1
  /\ IF undo_group_depth = 1
     THEN CloseGroup
     ELSE UNCHANGED <<undo_stack, undo_len, undo_cursor>>
  /\ UNCHANGED <<undo_group_start, undo_group_label, undo_group_seq0, opened,
                 undo_push_seq, released, doc, forgotten>>

(* The same end when the arrays of the group entry cannot be allocated:    *)
(* every edit of the block stays a plain edit.                             *)
GroupEndNoMemory ==
  /\ undo_group_depth = 1
  /\ undo_push_seq # undo_group_seq0 /\ GroupSpan > 1
  /\ undo_group_depth' = 0
  /\ UNCHANGED <<stackVars, undo_group_start, undo_group_label,
                 undo_group_seq0, opened, doc, forgotten>>

Next ==
  \/ \E label \in Labels : Undoable(label) \/ GroupBegin(label)
  \/ Undo
  \/ Redo
  \/ GroupEnd
  \/ GroupEndNoMemory

Spec == Init /\ [][Next]_vars

-----------------------------------------------------------------------------
(* Live slots and indices have their types; the indices stay ordered and   *)
(* within the array.  doc and forgotten are pinned down by HistoryInOrder. *)
TypeOK ==
  /\ undo_stack \in [Slots -> Edit]
  /\ undo_len \in 0 .. CAP
  /\ undo_cursor \in 0 .. undo_len
  /\ undo_group_depth \in 0 .. MaxDepth
  /\ undo_group_start \in 0 .. CAP
  /\ undo_group_label \in Labels \cup {NoLabel}
  /\ undo_push_seq \in 0 .. MaxPushes
  /\ undo_group_seq0 \in 0 .. undo_push_seq
  /\ released \subseteq 1 .. undo_push_seq

Live == 0 .. undo_len - 1

(* What the undoable part of the stack says was done.                      *)
History == FlattenSeq([i \in 1 .. undo_cursor |-> StepOf(undo_stack[i - 1])])

(* The application's document is at all times what the undoable edits say  *)
(* it is: every undo ran on the very state its edit left, groups unwound   *)
(* newest first, and an edit behind the cursor is in force.                *)
HistoryInOrder == doc = forgotten \o History

(* An edit the stack can still run owns closures nobody released, and no   *)
(* two edits own the same ones: releasing one never breaks another.        *)
OwnedOnce ==
  /\ \A i \in Live : Boxes(undo_stack[i]) \cap released = {}
  /\ \A i, j \in Live :
       i # j => Boxes(undo_stack[i]) \cap Boxes(undo_stack[j]) = {}

(* Every closure pair ever pushed is released or still on the stack:       *)
(* truncating the redo tail, dropping the oldest edit and collapsing a     *)
(* group lose none ("an editor leaked two boxes per edit").                *)
NoLeak == (1 .. undo_push_seq) \ released = BoxesOf(undo_stack, Live)

(* The pushes of the group being closed.                                   *)
GroupPushes == undo_push_seq - opened

(* The whole block is now one undo step that carries its label.            *)
IsOneStep ==
  /\ undo_cursor' > 0
  /\ StepOf(undo_stack'[undo_cursor' - 1]) =
       [k \in 1 .. GroupPushes |-> opened + k]
  /\ undo_stack'[undo_cursor' - 1].label = undo_group_label

OutermostEnd == undo_group_depth = 1 /\ GroupEnd

(* The end of the outermost block makes its edits one undo step, provided  *)
(* the block fits above the edits that were there when it began.           *)
GroupIsOneStep ==
  [][OutermostEnd /\ GroupPushes > 0 /\ undo_group_start + GroupPushes <= CAP
       => IsOneStep]_vars

(* undo_group's comment: every undoable() recorded inside the block        *)
(* collapses into one undo step carrying the label (here only for blocks   *)
(* that fit an empty stack).                                               *)
GroupAlwaysOneStep ==
  [][OutermostEnd /\ GroupPushes \in 1 .. CAP => IsOneStep]_vars

=============================================================================
