---------------------------- MODULE UndoClosures ----------------------------
(***************************************************************************)
(* The undo stack with the call of an undo or redo closure as a stretch of *)
(* time: aether_ui_undo_step_impl moves the cursor and then calls,         *)
(* aether_ui_redo_step_impl calls and then moves it, and the closure is    *)
(* application code that may itself record with undoable().                *)
(***************************************************************************)
EXTENDS UndoStack

VARIABLE
  running            \* the call under way: what it is and the closures it runs

cvars == <<vars, running>>

NoCall == [step |-> "none", boxes |-> {}]

CInit == Init /\ running = NoCall

Idle == running = NoCall

UndoCalls ==
  /\ Idle /\ Undo
  /\ running' = [step |-> "undo", boxes |-> Boxes(undo_stack[undo_cursor - 1])]

RedoCalls ==
  /\ Idle /\ MayStep /\ CanRedo
  /\ doc' = FoldLeft(RunDo, doc, StepOf(undo_stack[undo_cursor]))
  /\ running' = [step |-> "redo", boxes |-> Boxes(undo_stack[undo_cursor])]
  /\ UNCHANGED <<stackVars, groupVars, forgotten>>

Returns ==
  /\ ~Idle
  /\ running' = NoCall
  /\ undo_cursor' = IF running.step = "redo" THEN undo_cursor + 1 ELSE undo_cursor
  /\ UNCHANGED <<undo_stack, undo_len, undo_push_seq, released, groupVars, doc,
                 forgotten>>

(* undoable(), from a handler or from the closure that runs.               *)
Records == \E label \in Labels : Undoable(label) /\ UNCHANGED running

CNext == UndoCalls \/ RedoCalls \/ Returns \/ Records

CalledSpec == CInit /\ [][CNext]_cvars

-----------------------------------------------------------------------------
(* "Edits [0, cursor) are undoable, [cursor, len) redoable": the cursor is *)
(* in the stack between two steps, and a closure that runs is not freed    *)
(* under its call, whatever the closure records.                           *)
CursorInStack == Idle => undo_cursor <= undo_len
RunningKept == running.boxes \cap released = {}
CallsHold == CursorInStack /\ RunningKept
=============================================================================
