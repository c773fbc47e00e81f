--------------------------------- MODULE Shell ---------------------------------
(***************************************************************************)
(* The shell of an application on one backend: its windows and overlays    *)
(* (Surfaces), its timers (Timers), its keys (Keys) and drags (Drag). The  *)
(* parts share no state: a behaviour looks at one of them, its form. A     *)
(* step is one entry from outside, a person, the application, the driver   *)
(* or the clock, run to its end on the UI thread.                          *)
(***************************************************************************)
EXTENDS Surfaces, Timers, Keys, Drag

CONSTANTS
  Backends,     \* of "gtk", "win32" and "android", those looked at
  Forms,        \* of the forms below, those looked at
  MaxOverlays,  \* bound: overlays ever opened
  ChordKeys,    \* the keys that chords, shortcuts and accelerators are bound to
  MaxBound,     \* bound: chords, shortcuts and handlers ever registered
  Stacks,       \* the items the two stacks show to begin with
  Remade        \* those of the two that the application may rebuild

ASSUME ShellAssumption ==
  /\ Backends \subseteq {"gtk", "win32", "android"}
  /\ Forms \subseteq {"surfaces", "timers", "keys", "reorder", "files"}
  /\ {MaxOverlays, MaxBound} \subseteq Nat
  /\ "none" \notin ChordKeys
  /\ Stacks \in [{1, 2} -> Seq(DOMAIN Long)] /\ Remade \subseteq {1, 2}
  /\ \A stack \in {1, 2} : IsInjective(Stacks[stack])

VARIABLES
  backend,  \* the one this process was built with
  form,     \* which form this is
  st        \* its state, as the form's module has it

vars == <<backend, form, st>>

Init ==
  /\ backend \in Backends /\ form \in Forms
  /\ \/ form = "surfaces" /\ st = Fresh(backend)
     \/ form = "timers" /\ st = NoTimers(backend)
     \/ form = "keys" /\ \E stops \in 0 .. 1, accels \in SUBSET ChordKeys :
          Cardinality(accels) <= 1 /\ st = NoKeys(backend, stops, accels)
     \/ form = "reorder" /\ st = NoDrag(backend, Stacks)
     \/ form = "files" /\ st = NoFiles(backend, {1, 2})

In(f, new) == form = f /\ st' = new /\ UNCHANGED <<backend, form>>

-----------------------------------------------------------------------------
(* Windows and overlays. Nothing is said of a process that has touched     *)
(* freed memory, nor of one whose loop has ended. Overlays are opened while*)
(* the loop runs.                                                          *)
Shown(w) == st.wins[w].up /\ st.wins[w].shown
OnScreen(h) == st.entries[h].live /\ st.entries[h].content = "up" /\ Shown(st.entries[h].win)
Room == Len(st.entries) < MaxOverlays
Running == form = "surfaces" /\ ~st.torn /\ st.loop = "runs"

CreateWindow(w, sheet) == ~st.wins[w].made /\ In("surfaces", WindowCreate(st, w, sheet))
ShowWindow(w) == st.wins[w].made /\ In("surfaces", WindowShow(st, w))
CloseWindow(w) == st.wins[w].made /\ In("surfaces", WindowClose(st, w))
Run == st.loop = "before" /\ In("surfaces", RunRaw(st))
Quit == In("surfaces", AppQuit(st))
AtAnyTime ==
  \/ \E w \in Windows \ {1} :
       (\E sheet \in BOOLEAN : CreateWindow(w, sheet)) \/ ShowWindow(w) \/ CloseWindow(w)
  \/ Run \/ Quit

PersonDismisses == \E w \in Windows : Shown(w) /\ In("surfaces", Dismissed(st, w))
DriverCloses ==
  \E w \in Windows :
    /\ st.wins[w].made /\ (st.wins[w].up \/ backend # "gtk")
    /\ st.wins[w].sheet => backend = "win32"
    /\ In("surfaces", CloseByHandle(st, w))
ActivityRecreated == backend = "android" /\ In("surfaces", Recreated(st))
Opens(w, kind) == Room /\ In("surfaces", Open(st, w, kind))
Toasts(w) == Room /\ In("surfaces", Toast(st, w))
SetsTransition(h, kind, ms) ==
  st.entries[h].kind = "modal" /\ In("surfaces", SetTransition(st, h, kind, ms))
Closes(h) == st.entries[h].kind = "modal" /\ In("surfaces", Close(st, h))
PressesScrim(h, react) ==
  /\ OnScreen(h) /\ st.entries[h].kind = "modal" /\ (react = "open" => Room)
  /\ In("surfaces", Pressed(st, h, react))
PressesEscape == In("surfaces", Escape(st))
ShowsTip == Room /\ In("surfaces", Tooltip(st))
HidesTip == In("surfaces", TooltipHide(st))
WhileRunning ==
  \/ PersonDismisses \/ DriverCloses \/ ActivityRecreated \/ PressesEscape
  \/ \E w \in Windows : Opens(w, "modal") \/ Toasts(w)
  \/ \E h \in DOMAIN st.entries :
       \/ \E kind \in {"fade", "none"}, ms \in {0, 1} : SetsTransition(h, kind, ms)
       \/ Closes(h) \/ \E react \in {"none", "close", "open"} : PressesScrim(h, react)
  \/ ShowsTip \/ HidesTip

ToastExpires(h) == Running /\ h \in st.timers /\ In("surfaces", Expired(st, h))
ExitEnds(h) ==
  /\ Running /\ h \in DOMAIN st.entries /\ st.entries[h].exiting
  /\ In("surfaces", ExitDone(st, h))

-----------------------------------------------------------------------------
(* Timers. A closure that runs may do what the application may, and turn   *)
(* the loop once more.                                                     *)
Makes(once) == Len(st.timers) < MaxTimers /\ In("timers", TimerMade(st, once))
Refused(once) == backend = "android" /\ once /\ In("timers", AndroidTimerRefused(st))
Cancels(id) == In("timers", Cancel(st, id))
Posts(id) ==
  form = "timers" /\ id \in Ids(st) /\ MayPost(st, id) /\ In("timers", Posted(st, id))
Ticks(id) ==
  form = "timers" /\ id \in Ids(st) /\ Len(st.running) < 2 /\ MayTick(st, id) /\ In("timers", TickBegins(st, id))
Returns == form = "timers" /\ st.running # <<>> /\ In("timers", TickEnds(st))
Drains == MayDrain(st) /\ In("timers", Drained(st))
TimerStep ==
  \/ \E once \in BOOLEAN : Makes(once) \/ Refused(once)
  \/ \E id \in Ids(st) : Cancels(id) \/ Posts(id) \/ Ticks(id)
  \/ Returns \/ Drains

-----------------------------------------------------------------------------
(* Keys. before is the press before, of those that reach the chords: an    *)
(* accelerator does not, nor on GTK a key a person types that no chord has *)
(* or that a shortcut took first.                                          *)
AllKeys == ChordKeys \cup {"Escape", "Tab"}
Registered == Len(st.shortcuts) + Len(st.chords) + Len(st.handlers)
MayRegister == Registered < MaxBound
Bindable == AllKeys \ st.accels
BindsShortcut(key, scoped) == MayRegister /\ In("keys", AddShortcut(st, key, scoped))
BindsChord(first, second) == MayRegister /\ In("keys", AddChord(st, first, second))
Listens(claims, adds) == MayRegister /\ In("keys", AddHandler(st, claims, adds))
(* A handler claims Escape, Tab, or one of the bindable keys, any one.     *)
Claimable == {"Escape", "Tab", CHOOSE key \in ChordKeys : TRUE}
(* Leaving or entering the scope matters only to a shortcut that has one.  *)
Scopes ==
  /\ \E i \in DOMAIN st.shortcuts : st.shortcuts[i].scoped
  /\ In("keys", [st EXCEPT !.scope = ~@])
OpensOverlay == st.overlays = 0 /\ In("keys", [st EXCEPT !.overlays = 1])
Expires ==
  /\ st.pending # "none" /\ backend # "win32"
  /\ In("keys", [PrefixExpires(st) EXCEPT !.before = "none"])
Aside(key, new) ==
  \/ backend = "gtk" /\ (~ChordKey(st, key) \/ Ran(new, "shortcut") \/ Ran(new, "overlay"))
  \/ backend # "android" /\ key \in st.accels
PersonPresses(key) ==
  \E new \in PersonTypes(st, key) :
    In("keys", [new EXCEPT !.log = <<>>, !.before = IF Aside(key, new) THEN @ ELSE key])
DriverPresses(key) ==
  In("keys", [DriverSends(st, key) EXCEPT !.log = <<>>,
                                          !.before = IF key \in st.accels THEN @ ELSE key])
KeyStep ==
  \/ \E key \in Bindable :
       \/ \E scoped \in BOOLEAN : BindsShortcut(key, scoped)
       \/ key \in ChordKeys /\ \E first \in ChordKeys \ st.accels : BindsChord(first, key)
  \/ \E claims \in {{}} \cup {{key} : key \in Claimable}, adds \in BOOLEAN : Listens(claims, adds)
  \/ Scopes \/ OpensOverlay \/ Expires
  \/ \E key \in AllKeys : PersonPresses(key) \/ DriverPresses(key)

-----------------------------------------------------------------------------
(* Drags. A stack is rebuilt with an item less, or one more in front. The  *)
(* driver keeps out of a person's drag.                                    *)
Rebuilds(stack) ==
  LET kids == st.kids[stack]
  IN \/ kids # <<>> /\ In("reorder", Rebuilt(st, stack, Tail(kids)))
     \/ \E new \in DOMAIN Long \ Range(kids) : In("reorder", Rebuilt(st, stack, <<new>> \o kids))
Presses(stack, p) ==
  st.held = "no" /\ ChildAt(st.kids[stack], p) # -1 /\ In("reorder", Press(st, stack, p))
DragsOff == st.held = "pressed" /\ In("reorder", DragBegins(st))
LetsGo == st.held = "pressed" /\ In("reorder", Clicked(st))
MovesOver(stack, p) == st.held = "drag" /\ In("reorder", Over(st, stack, p))
Drops == st.held = "drag" /\ In("reorder", Drop(st))
DragCancelled == st.held = "drag" /\ In("reorder", Cancelled(st))
DriverDrags(stack, item, p) ==
  st.held = "no" /\ In("reorder", FireReorderDrag(st, stack, item, p))
ReorderStep ==
  \/ \E stack \in {1, 2} : \E p \in 0 .. Extent(st.kids[stack]) :
       \/ Presses(stack, p) \/ MovesOver(stack, p)
       \/ \E item \in Range(st.kids[stack]) : DriverDrags(stack, item, p)
  \/ MovesOver(0, 0)
  \/ DragsOff \/ LetsGo \/ Drops \/ DragCancelled
  \/ \E stack \in Remade : Rebuilds(stack)

PathSet(w, path) == In("files", Draggable(st, w, path))
ButtonPressed(w) == st.button = -1 /\ In("files", ButtonDown(st, w))
PointerOver(w) == st.button # -1 /\ st.active = "none" /\ In("files", PointerMoves(st, w))
ButtonReleased(w) == st.button # -1 /\ In("files", ButtonUp(st, w))
FileStep ==
  \/ \E w \in {1, 2}, path \in {"none", "a", "b"} : PathSet(w, path)
  \/ \E w \in 0 .. 2 : ButtonPressed(w) \/ PointerOver(w) \/ ButtonReleased(w)

Next ==
  \/ form = "surfaces" /\ ~st.torn /\ st.loop # "over" /\ AtAnyTime
  \/ Running /\ WhileRunning
  \/ \E h \in 1 .. MaxOverlays : ToastExpires(h) \/ ExitEnds(h)
  \/ form = "timers" /\ TimerStep
  \/ form = "keys" /\ KeyStep
  \/ form = "reorder" /\ ReorderStep
  \/ form = "files" /\ FileStep

SafeSpec == Init /\ [][Next]_vars

-----------------------------------------------------------------------------
(***************************************************************************)
(* An overlay the application holds open is on its window's screen, and one*)
(* that is closed has left nothing there: an entry is live exactly while   *)
(* its content is up, except in a window that is gone, which takes the     *)
(* content and not the entry, and an activity made again. A press on the   *)
(* scrim has closed it, or its exit plays. There is one drawn tooltip.     *)
(***************************************************************************)
OverlaysAreTrue ==
  form = "surfaces" /\ ~st.torn =>
    /\ \A h \in DOMAIN st.entries :
         LET e == st.entries[h]
         IN /\ e.live /\ st.wins[e.win].up => e.content # "gone"
            /\ ~e.live => e.content = "gone" /\ ~e.exiting
            /\ e.told => ~e.live \/ e.exiting
            /\ e.kind = "tip" /\ e.live /\ st.loop = "runs" => st.tip = h

(***************************************************************************)
(* The loop runs while there is a window, and ends with the last one (on   *)
(* Android with the activity) or when it is asked to. A process that made  *)
(* windows before its run is excepted.                                     *)
(***************************************************************************)
LoopRunsWhileWindows ==
  form = "surfaces" /\ ~st.torn /\ ~st.early =>
    /\ st.loop = "runs" => IF backend = "android" THEN st.wins[1].live ELSE LiveWindows(st) # {}
    /\ st.loop = "over" => st.quit \/ (IF backend = "android" THEN ~st.wins[1].live ELSE LiveWindows(st) = {})

(* The windows and the overlays in them.                                   *)
SurfacesHold == OverlaysAreTrue /\ LoopRunsWhileWindows

(***************************************************************************)
(* A timer's closure never runs freed, and is freed after a cancel: it is  *)
(* there while its tick runs, whatever the tick cancelled and whatever     *)
(* ran under it; a one-shot runs once, in a nested loop too; a cancelled   *)
(* timer's box is on its way out when nothing runs (Android forgets it),   *)
(* and a live one's is held.                                               *)
(***************************************************************************)
TimersHold ==
  form = "timers" =>
    \A id \in Ids(st) :
      LET t == st.timers[id]
      IN /\ InTick(st, id) => t.box # "freed"
         /\ t.once => t.ticks <= 1
         /\ t.alive => t.box = "held"
         /\ ~t.alive /\ ~InTick(st, id) =>
              t.box \in (IF backend = "android" THEN {"forgotten"} ELSE {"grave", "freed"})

(***************************************************************************)
(* A chord is two presses in a row, in time.                               *)
(***************************************************************************)
Outcomes(key) == PersonTypes(st, key) \cup {DriverSends(st, key)}
ChordsInARow ==
  form = "keys" => \A key \in AllKeys : \A new \in Outcomes(key) : \A i \in DOMAIN new.log :
    new.log[i].layer = "chord" => st.before = st.chords[new.log[i].n].first

(***************************************************************************)
(* A press is one layer's: an accelerator's, a chord's, the shortcuts' or  *)
(* the handlers'. Every handler hears a press once, and one that a handler *)
(* has claimed does nothing further. Excepted: GTK's driver and a Tab with *)
(* nothing to focus, Win32's driver, which asks for no claim.              *)
(***************************************************************************)
Layers(new) == {new.log[i].layer : i \in DOMAIN new.log}
Heards(new, n) == {i \in DOMAIN new.log : new.log[i] = Deed("handler", n)}
OneLayer ==
  form = "keys" => \A key \in AllKeys : \A new \in Outcomes(key) :
    LET driven == new = DriverSends(st, key)
        first == {"chord", "armed", "shortcut"} \cup (IF backend = "android" THEN {} ELSE {"accel"})
    IN /\ Layers(new) \cap first # {} =>
            Cardinality(Layers(new)) = 1
       /\ \A n \in DOMAIN new.handlers :
            Cardinality(Heards(new, n)) > 1 =>
              driven /\ backend = "gtk" /\ key = "Tab" /\ st.stops = 0
       /\ "handler" \in Layers(new) /\ Claimed(st, key) /\ Layers(new) # {"handler"} =>
            driven /\ backend = "win32"

(***************************************************************************)
(* What a driven key does, a person's could: but for what is typed. The    *)
(* exceptions are the code's own: on GTK a prefix outlives a person's key  *)
(* that no chord has, the driver fires every shortcut of a key, and tells  *)
(* of a Tab with nothing to focus twice; on Win32 it closes the overlay a  *)
(* person's Escape does not, and moves on from a claimed Tab; on Android it*)
(* does nothing further where a handler is, and fires an accelerator before*)
(* everything else.                                                        *)
(***************************************************************************)
Apart(key) ==
  \/ backend = "gtk" /\ (Len(Bound(st, key)) > 1 \/ (key = "Tab" /\ st.stops = 0))
  \/ backend = "win32" /\ ((key = "Escape" /\ st.overlays > 0) \/ (key = "Tab" /\ Claimed(st, key)))
  \/ backend = "android" /\ ((key \in {"Escape", "Tab"} /\ st.handlers # <<>>) \/ key \in st.accels)
Untyped(log) == Kept(log, {i \in DOMAIN log : log[i].layer # "typed"})
DriverTypesAsAPerson ==
  form = "keys" => \A key \in AllKeys :
    LET prefix == backend = "gtk" /\ ~ChordKey(st, key)
        Seen(s) == [s EXCEPT !.log = Untyped(@), !.pending = IF prefix THEN "none" ELSE @]
    IN Apart(key) \/ Seen(DriverSends(st, key)) \in {Seen(new) : new \in PersonTypes(st, key)}

(* A press does what it is bound to, whoever makes it.                     *)
KeysHold == ChordsInARow /\ OneLayer /\ DriverTypesAsAPerson

(***************************************************************************)
(* A drop moves the child that was pressed, and only it, to where the      *)
(* pointer is: the children before it are then those that were before the  *)
(* gap; let go on itself, it stays. Excepted: a stack rebuilt since the    *)
(* press, whose index now names another. Outside its stack a drop moves    *)
(* nothing (on Win32 it does). The bar shows in the dragged child's stack, *)
(* and only while it is dragged, and a drag that has ended is forgotten    *)
(* (on Android until the next). A file dragged out is the one the pressed  *)
(* widget carried (excepted Win32, after a press let go elsewhere).        *)
(***************************************************************************)
Without(kids, item) == Kept(kids, {i \in DOMAIN kids : kids[i] # item})
Above(kids, item) == {kids[i] : i \in 1 .. CHOOSE i \in DOMAIN kids : kids[i] = item} \ {item}
DropHolds(last) ==
  LET after == st.kids[last.stack]
      on == {ChildAt(last.before, last.at[2])} \ {-1}
  IN /\ ~last.rebuilt =>
          /\ Without(after, last.item) = Without(last.before, last.item)
          /\ Above(after, last.item) = {last.before[i] : i \in 1 .. last.gap} \ {last.item}
          /\ last.at[1] = last.stack => (\A i \in on : last.before[i + 1] # last.item)
     /\ last.at[1] # last.stack => backend = "win32"
DragHolds ==
  /\ form = "reorder" =>
       /\ st.last.moved => DropHolds(st.last)
       /\ st.bar # 0 => st.held = "drag" /\ st.bar = st.src.stack
       /\ st.held = "no" /\ backend # "android" => st.src = NoSource
  /\ form = "files" => (st.active # "none" /\ ~st.stray => st.active = st.meant)

-----------------------------------------------------------------------------
(* What the excepted cases above come to, for configurations that show it. *)
(* No closure of an overlay is given an entry that has moved (GTK's are    *)
(* raw pointers into a table that grows), nor a call a window that is gone.*)
NothingFreedIsTouched == form = "surfaces" => ~st.torn
(* "HELD once per live window", gtk4.c says of the application: the loop   *)
(* runs as long as a window is on the screen, one made before the run too. *)
HeldPerWindow ==
  form = "surfaces" /\ ~st.torn /\ st.loop = "over" /\ backend # "android" => st.quit \/ LiveWindows(st) = {}
================================================================================
