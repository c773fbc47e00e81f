-------------------------------- MODULE Timers --------------------------------
(***************************************************************************)
(* ui.timer and ui.after: repeating and one-shot timers on GTK4 (GLib      *)
(* sources), Win32 (a thread that posts to a sink window) and Android (a   *)
(* timerfd on the looper). A timer's box, its closure, belongs to the      *)
(* backend, and is given back after a cancel. A closure may cancel any     *)
(* timer, itself too, make timers, and turn a nested event loop in which   *)
(* further ticks are delivered; so a tick is a beginning, what it does and *)
(* an end, and running is the stack of those begun.                        *)
(***************************************************************************)
EXTENDS Integers, Sequences, FiniteSets

CONSTANT MaxTimers   \* bound: timers ever made

ASSUME TimersAssumption == MaxTimers \in Nat

(* posted: Win32's tick on its way to the sink. box: held by the timer, in *)
(* Win32's graveyard, freed, or forgotten. ticks counts to 2.              *)
Timer(once) ==
  [alive |-> TRUE, once |-> once, fired |-> FALSE, posted |-> FALSE,
   box |-> "held", ticks |-> 0]

NoTimers(backend) == [on |-> backend, timers |-> <<>>, running |-> <<>>, refused |-> 0]

Ids(s) == DOMAIN s.timers
InTick(s, id) == \E i \in DOMAIN s.running : s.running[i] = id

TimerMade(s, once) == [s EXCEPT !.timers = Append(@, Timer(once))]
(* No looper, or no more file descriptors: the one-shot's box is freed.    *)
AndroidTimerRefused(s) == [s EXCEPT !.refused = 1]

(* A source gone frees its box, though not under its own dispatch: GLib    *)
(* holds it until that returns.                                            *)
GtkCancel(s, id) ==
  IF ~s.timers[id].alive THEN s
  ELSE [s EXCEPT !.timers[id].alive = FALSE,
                 !.timers[id].box = IF InTick(s, id) THEN "held" ELSE "freed"]
(* MUTANT of Win32Cancel: the box is freed, not buried.                    *)
Win32CancelFrees(s, id) ==
  [s EXCEPT !.timers[id].alive = FALSE, !.timers[id].box = "freed"]
Win32Cancel(s, id) ==
  [s EXCEPT !.timers[id].alive = FALSE, !.timers[id].box = IF @ = "held" THEN "grave" ELSE @]
AndroidCancel(s, id) ==
  IF ~s.timers[id].alive THEN s
  ELSE [s EXCEPT !.timers[id].alive = FALSE, !.timers[id].box = "forgotten"]
Cancel(s, id) ==
  CASE s.on = "gtk" -> GtkCancel(s, id)
    [] s.on = "win32" -> Win32Cancel(s, id)
    [] s.on = "android" -> AndroidCancel(s, id)

(* Win32's thread finds a timer due: one tick on its way at most.          *)
MayPost(s, id) == s.on = "win32" /\ s.timers[id].alive /\ ~s.timers[id].posted
Posted(s, id) == [s EXCEPT !.timers[id].posted = TRUE]

(* A tick can be taken: GLib does not enter a source again under its own   *)
(* dispatch.                                                               *)
GtkMayTick(s, id) == s.timers[id].alive /\ ~InTick(s, id)
Win32MayTick(s, id) == s.timers[id].posted
AndroidMayTick(s, id) == s.timers[id].alive
MayTick(s, id) ==
  CASE s.on = "gtk" -> GtkMayTick(s, id)
    [] s.on = "win32" -> Win32MayTick(s, id)
    [] s.on = "android" -> AndroidMayTick(s, id)

Begun(s, id) ==
  [s EXCEPT !.running = Append(@, id), !.timers[id].ticks = IF @ < 2 THEN @ + 1 ELSE @]
(* aeui_after_tick: fired before its closure, and never again.             *)
AfterTick(s, id) ==
  IF s.timers[id].fired THEN s
  ELSE Cancel(Begun([s EXCEPT !.timers[id].fired = TRUE], id), id)
Win32Sink(s, id) ==
  LET taken == [s EXCEPT !.timers[id].posted = FALSE]
  IN CASE ~s.timers[id].alive -> taken
       [] s.timers[id].alive /\ s.timers[id].once -> AfterTick(taken, id)
       [] OTHER -> Begun(taken, id)
TickBegins(s, id) ==
  CASE s.on = "win32" -> Win32Sink(s, id)
    [] s.on # "win32" /\ s.timers[id].once -> AfterTick(s, id)
    [] OTHER -> Begun(s, id)

TickEnds(s) ==
  LET id == s.running[Len(s.running)]
      rest == [s EXCEPT !.running = SubSeq(@, 1, Len(@) - 1)]
  IN IF s.on = "gtk" /\ ~s.timers[id].alive /\ ~InTick(rest, id)
     THEN [rest EXCEPT !.timers[id].box = "freed"] ELSE rest

(* Between two messages of the outermost loop the graveyard is emptied.    *)
MayDrain(s) == s.running = <<>> /\ \E id \in Ids(s) : s.timers[id].box = "grave"
Drained(s) ==
  [s EXCEPT !.timers = [id \in Ids(s) |->
     IF s.timers[id].box = "grave" THEN [s.timers[id] EXCEPT !.box = "freed"] ELSE s.timers[id]]]
===============================================================================
