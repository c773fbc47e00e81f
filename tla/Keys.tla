---------------------------------- MODULE Keys ----------------------------------
(***************************************************************************)
(* One key press, typed by a person or sent by the driver's /window/key,   *)
(* on GTK4, Win32 and Android: menu accelerators, chords (a prefix, then a *)
(* second key), shortcuts (some only in a scope), the any-key handlers,    *)
(* which may claim a key, and what the toolkit does with a key nobody took:*)
(* Escape closes an overlay, Tab moves the focus, others are typed. Every  *)
(* operator takes the state, a record s, through the whole of one press;   *)
(* log is what the press did, in order.                                    *)
(***************************************************************************)
EXTENDS Integers, Sequences, FiniteSets, Sweeping

(* pending: the prefix armed. late: more than 1.5 s have passed since.     *)
(* before: the key of the press before this one, with what became of it.   *)
NoKeys(backend, stops, accels) ==
  [on |-> backend, shortcuts |-> <<>>, chords |-> <<>>, handlers |-> <<>>,
   pending |-> "none", late |-> FALSE, scope |-> TRUE, accels |-> accels,
   stops |-> stops, overlays |-> 0, log |-> <<>>, before |-> "none"]

Did(s, what) == [s EXCEPT !.log = Append(@, what)]
Ran(s, layer) == \E i \in DOMAIN s.log : s.log[i].layer = layer
Deed(layer, n) == [layer |-> layer, n |-> n]

AddShortcut(s, key, scoped) ==
  [s EXCEPT !.shortcuts = Append(@, [key |-> key, scoped |-> scoped])]
AddChord(s, first, second) == [s EXCEPT !.chords = Append(@, [first |-> first, second |-> second])]
(* A handler uses, and claims, the keys in claims; adds: it registers      *)
(* another one when it first hears a key.                                  *)
AddHandler(s, claims, adds) ==
  [s EXCEPT !.handlers = Append(@, [claims |-> claims, adds |-> adds])]
(* GTK's timeout comes by itself; Android looks at the clock with the next *)
(* key; Win32 waits for it as long as it takes.                            *)
PrefixExpires(s) ==
  IF s.on = "gtk" THEN [s EXCEPT !.pending = "none"] ELSE [s EXCEPT !.late = TRUE]

-----------------------------------------------------------------------------
(* Chords. Fed(s) is the state after the feed; whether it took the key is  *)
(* whether the log has grown.                                              *)
Armed(s, key) ==
  IF \E i \in DOMAIN s.chords : s.chords[i].first = key
  THEN Did([s EXCEPT !.pending = key, !.late = FALSE], Deed("armed", 0))
  ELSE [s EXCEPT !.pending = "none", !.late = FALSE]
Completes(s, key) ==
  {i \in DOMAIN s.chords : s.chords[i].first = s.pending /\ s.chords[i].second = key}
Completed(s, key) ==
  Did([s EXCEPT !.pending = "none", !.late = FALSE],
      Deed("chord", CHOOSE i \in Completes(s, key) : \A j \in Completes(s, key) : i <= j))
(* MUTANT of GtkFeed: a wrong second key leaves the prefix armed.          *)
GtkFeedKeepsPrefix(s, key) ==
  IF Completes(s, key) # {} THEN Completed(s, key)
  ELSE LET armed == Armed(s, key)
       IN IF armed.log # s.log THEN armed ELSE s
GtkFeed(s, key) == IF Completes(s, key) # {} THEN Completed(s, key) ELSE Armed(s, key)
Win32Feed(s, key) == IF Completes(s, key) # {} THEN Completed(s, key) ELSE Armed(s, key)
AndroidFeed(s, key) ==
  LET now == IF s.late THEN [s EXCEPT !.pending = "none", !.late = FALSE] ELSE s
  IN IF Completes(now, key) # {} THEN Completed(now, key) ELSE Armed(now, key)

(* Shortcuts: those bound to the key whose scope is active.                *)
Bound(s, key) ==
  Kept([i \in DOMAIN s.shortcuts |-> i],
       {i \in DOMAIN s.shortcuts :
          s.shortcuts[i].key = key /\ (s.shortcuts[i].scoped => s.scope)})
AllFired(s, key) ==
  [s EXCEPT !.log = @ \o [i \in DOMAIN Bound(s, key) |-> Deed("shortcut", Bound(s, key)[i])]]
FirstFired(s, key) ==
  IF Bound(s, key) = <<>> THEN s ELSE Did(s, Deed("shortcut", Bound(s, key)[1]))

(* The any-key handlers, in order. One that a handler registers hears the  *)
(* same press on GTK and Win32, which look at the count as they go; not on *)
(* Android. Claimed: one that heard the press uses the key.                *)
Adders(s) == {i \in DOMAIN s.handlers : s.handlers[i].adds}
HandlersAfter(s) ==
  [i \in DOMAIN s.handlers |-> [s.handlers[i] EXCEPT !.adds = FALSE]]
    \o [i \in 1 .. Cardinality(Adders(s)) |-> [claims |-> {}, adds |-> FALSE]]
Hearers(s) == IF s.on = "android" THEN Len(s.handlers) ELSE Len(HandlersAfter(s))
Delivered(s) ==
  [s EXCEPT !.handlers = HandlersAfter(s),
            !.log = @ \o [i \in 1 .. Hearers(s) |-> Deed("handler", i)]]
Claimed(s, key) == \E i \in DOMAIN s.handlers : key \in s.handlers[i].claims

Escaped(s) ==
  IF s.overlays = 0 THEN s ELSE Did([s EXCEPT !.overlays = @ - 1], Deed("overlay", 0))
Tabbed(s) == IF s.stops = 0 THEN s ELSE Did(s, Deed("focus", 0))
(* A claim only drops what would have followed.                            *)
Unclaimed(s, key, after) == IF Claimed(s, key) THEN s ELSE after
Typed(s, key) == IF key = "Tab" THEN Tabbed(s) ELSE Did(s, Deed("typed", 0))
Accelerated(s) == Did(s, Deed("accel", 0))

-----------------------------------------------------------------------------
(* A person's key. On GTK a single controller holds the shortcuts, the     *)
(* chord keys and Escape's own, and runs them round-robin until one says it*)
(* has handled the key: which is first is not the program's choice. The    *)
(* focused control may keep a key that none of them took.                  *)
ChordKey(s, key) == \E i \in DOMAIN s.chords : key \in {s.chords[i].first, s.chords[i].second}
GtkControllers(s, key) ==
  LET fed == IF ChordKey(s, key) THEN GtkFeed(s, key) ELSE s
      before == IF fed.log = s.log THEN {s, fed} ELSE {s}
  IN {Did(b, Deed("shortcut", Bound(s, key)[i])) : i \in DOMAIN Bound(s, key), b \in before}
       \cup (IF fed.log # s.log THEN {fed} ELSE {})
       \cup (IF key = "Escape" /\ s.overlays > 0 THEN {Escaped(b) : b \in before} ELSE {})
GtkAnyKey(s, key) == Unclaimed(Delivered(s), key, Typed(Delivered(s), key))
GtkTyped(s, key) ==
  LET fed == IF ChordKey(s, key) THEN GtkFeed(s, key) ELSE s
  IN CASE key \in s.accels -> {Accelerated(s)}
       [] key \notin s.accels /\ GtkControllers(s, key) # {} -> GtkControllers(s, key)
       [] OTHER -> {GtkAnyKey(fed, key)}
                     \cup (IF key \in {"Escape", "Tab"} THEN {} ELSE {Typed(fed, key)})

(* The message loop. An Escape nobody took is the dialog manager's cancel, *)
(* which the application windows ignore.                                   *)
Win32Shortcut(s, key) ==
  LET fed == Win32Feed(s, key)
  IN IF fed.log # s.log THEN fed ELSE AllFired(fed, key)
Win32Typed(s, key) ==
  LET tried == Win32Shortcut(s, key)
      heard == Delivered(tried)
  IN CASE key \in s.accels -> {Accelerated(s)}
       [] key \notin s.accels /\ tried.log # s.log -> {tried}
       [] OTHER -> {Unclaimed(heard, key, IF key = "Escape" THEN heard ELSE Typed(heard, key))}

(* The platform's menu shortcut comes last, with what the View system gets.*)
AndroidShortcut(s, key) ==
  LET fed == AndroidFeed(s, key)
  IN IF fed.log # s.log THEN fed ELSE FirstFired(fed, key)
AndroidTyped(s, key) ==
  LET tried == AndroidShortcut(s, key)
      heard == Delivered(tried)
  IN IF tried.log # s.log THEN {tried}
     ELSE {Unclaimed(heard, key,
             CASE key = "Escape" -> Escaped(heard)
               [] key \in s.accels -> Accelerated(heard)
               [] OTHER -> Typed(heard, key))}

PersonTypes(s, key) ==
  CASE s.on = "gtk" -> GtkTyped(s, key)
    [] s.on = "win32" -> Win32Typed(s, key)
    [] s.on = "android" -> AndroidTyped(s, key)

-----------------------------------------------------------------------------
(* The driver's key. GTK's falls through to the handlers with whatever     *)
(* nothing has taken, a Tab they have already heard too.                   *)
GtkTabFired(s) ==
  LET heard == Delivered(s)
  IN CASE Claimed(heard, "Tab") -> heard
       [] ~Claimed(heard, "Tab") /\ s.stops > 0 -> Tabbed(heard)
       [] OTHER -> Delivered(heard)
GtkFired(s, key) ==
  LET fed == GtkFeed(s, key)
      fired == IF fed.log # s.log THEN fed ELSE AllFired(fed, key)
  IN CASE fired.log # s.log -> fired
       [] fired.log = s.log /\ key = "Tab" -> GtkTabFired(fired)
       [] fired.log = s.log /\ key = "Escape" /\ s.overlays > 0 -> Escaped(fired)
       [] OTHER -> Delivered(fired)

(* Win32's does not ask whether a handler has claimed Escape or Tab.       *)
Win32Fired(s, key) ==
  LET tried == Win32Shortcut(s, key)
      heard == Delivered(tried)
  IN CASE tried.log # s.log -> tried
       [] tried.log = s.log /\ key = "Escape" -> Escaped(heard)
       [] tried.log = s.log /\ key = "Tab" -> Tabbed(heard)
       [] OTHER -> heard
(* Android's closes an overlay or moves the focus only where no handler    *)
(* is registered at all.                                                   *)
AndroidDriverKey(s, key) ==
  LET tried == AndroidShortcut(s, key)
  IN CASE tried.log # s.log -> tried
       [] tried.log = s.log /\ s.handlers # <<>> -> Delivered(tried)
       [] OTHER -> IF key = "Escape" THEN Escaped(tried)
                   ELSE IF key = "Tab" THEN Tabbed(tried) ELSE tried

DriverSends(s, key) ==
  IF key \in s.accels THEN Accelerated(s)
  ELSE CASE s.on = "gtk" -> GtkFired(s, key)
         [] s.on = "win32" -> Win32Fired(s, key)
         [] s.on = "android" -> AndroidDriverKey(s, key)
=================================================================================
