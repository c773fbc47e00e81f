-------------------------------- MODULE Menus --------------------------------
(***************************************************************************)
(* Menus: what the toolkit knows of a menu, in three places at once.       *)
(*   store    the shared side-store the driver and the tray read: one      *)
(*            table for all menus, whose slots a cleared menu leaves to    *)
(*            whichever menu adds next (aether_ui_system_extras.c);        *)
(*   native   the platform's menu, item by item, in the order added (a     *)
(*            GMenu, an HMENU, Android's AeuiMenuRec);                     *)
(*   commands what the platform finds an item's closure by (the actions    *)
(*            queued for GTK's application, Win32's command ids; Android   *)
(*            keeps the closure in the item).                              *)
(* A closure is a number, given when its item is added; 0 is the NULL of a *)
(* disabled item. menu_clear frees closures a clear later, because an      *)
(* item's own closure may be what is clearing. Init picks the backend.     *)
(***************************************************************************)
EXTENDS Integers, SequencesExt, FiniteSetsExt

CONSTANTS
  MenuHandles,   \* the menus
  Labels,        \* what an item can say
  Accelerated,   \* the labels of the items made with an accelerator
  Backends,      \* of "gtk", "win32" and "android", those looked at
  Slots,         \* MENU_ITEM_MAX, 512 in the code
  MaxItems,      \* bound: items ever added
  ClearsPerRun   \* bound: clears within one run of an item's closure

ASSUME MenusAssumption ==
  /\ MenuHandles \subseteq Nat \ {0} /\ IsFiniteSet(Labels) /\ Accelerated \subseteq Labels
  /\ Backends \subseteq {"gtk", "win32", "android"}
  /\ {Slots, MaxItems, ClearsPerRun} \subseteq Nat

VARIABLES
  backend,   \* the one this process was built with
  store,     \* g_menu_items[0 .. g_menu_item_count - 1]
  native,    \* by menu, the platform's items
  nextId,    \* e->next_item of each menu (GTK), next_menu_id at 0 (Win32)
  commands,  \* gtk_menu_actions or menu_commands
  accels,    \* aeui_accels: the boxes that have an accelerator (0 too), by menu
  grave,     \* g_menu_graveyard
  freed,     \* the closures freed so far
  added,     \* how many items were added
  running,   \* the closure now running, 0 when none
  clears,    \* clears made since it was started
  shown,     \* the menu on screen, as its items were when it was filled
  chosen     \* the item a click chose whose command is still under way

vars == <<backend, store, native, nextId, commands, accels, grave, freed, added,
          running, clears, shown, chosen>>
memory   == <<grave, freed>>

Boxes  == 1 .. MaxItems
NoItem == [sep |-> TRUE]
NoMenu == [menu |-> 0, items |-> <<>>]

(* A native item: its text, whether an accelerator is part of it, the id   *)
(* of its command, and its closure (which Android keeps in the item).      *)
Item(l, acc, id, b) ==
  [sep |-> FALSE, label |-> l, acc |-> acc, id |-> id, box |-> b]
Separator      == [sep |-> TRUE]

Init ==
  /\ backend \in Backends
  /\ store = <<>> /\ native = [m \in MenuHandles |-> <<>>]
  /\ nextId = [m \in MenuHandles \cup {0} |-> 0]
  /\ commands = {} /\ accels = {} /\ grave = {} /\ freed = {} /\ added = 0
  /\ running = 0 /\ clears = 0 /\ shown = NoMenu /\ chosen = NoItem

(***************************************************************************)
(* The side-store.                                                         *)
(***************************************************************************)
Record(m, sep, l, b) == [used |-> TRUE, menu |-> m, sep |-> sep, label |-> l, box |-> b]
Unused == [used |-> FALSE]

(* menu_item_slot: the first slot a cleared menu left, or a new one, or    *)
(* none: then the record is dropped.                                       *)
Put(st, r) ==
  LET left == {i \in DOMAIN st : ~st[i].used}
  IN  IF left # {} THEN [st EXCEPT ![Min(left)] = r]
      ELSE IF Len(st) < Slots THEN Append(st, r) ELSE st

(* MUTANT of IsItem: the item of any menu.                                 *)
IsAnyItem(r, m) == r.used /\ ~r.sep

OfMenu(r, m) == r.used /\ r.menu = m
IsItem(r, m) == r.used /\ ~r.sep /\ r.menu = m

(* The slots of a menu's items.                                            *)
Items(m) == {i \in DOMAIN store : IsItem(store[i], m)}

(* The first record with the label: the slot, 0 when there is none.        *)
Slot(m, l) ==
  LET hits == {i \in Items(m) : store[i].label = l}
  IN  IF hits = {} THEN 0 ELSE Min(hits)

(* menu_item_label_at, for every index: what the driver and the tray list. *)
Listed(m) == SelectSeq(store, LAMBDA r : IsItem(r, m))

BoxesIn(m) == {store[i].box : i \in {j \in DOMAIN store : OfMenu(store[j], m)}} \ {0}

(* MUTANT of Forget: the closures are freed at once.                       *)
ForgetNow(m) ==
  /\ store' = [i \in DOMAIN store |-> IF OfMenu(store[i], m) THEN Unused ELSE store[i]]
  /\ grave' = {}
  /\ freed' = freed \cup BoxesIn(m)

(* aether_ui_menu_items_forget: the menu's closures go to the graveyard,   *)
(* and what was there is freed.                                            *)
Forget(m) ==
  /\ store' = [i \in DOMAIN store |-> IF OfMenu(store[i], m) THEN Unused ELSE store[i]]
  /\ grave' = BoxesIn(m)
  /\ freed' = freed \cup grave

(***************************************************************************)
(* Building a menu.                                                        *)
(***************************************************************************)
Places(m) == {i \in DOMAIN native[m] : ~native[m][i].sep}

(* MUTANT of GtkNewId: numbered from 0 again in every section.             *)
GtkNewIdInSection(m, b) ==
  IF b = 0 THEN <<0, -1>>
  ELSE <<m, Cardinality({i \in Places(m) : \A j \in i .. Len(native[m]) : ~native[m][j].sep})>>

(* GTK numbers an item within its menu, and not from 0 again after a       *)
(* clear; disabled items share one action that no application has. Win32   *)
(* numbers every item of every menu, Android none.                         *)
GtkNewId(m, b)  == IF b = 0 THEN <<0, -1>> ELSE <<m, nextId[m]>>
Win32NewId      == <<0, nextId[0]>>
AndroidNewId    == <<0, -1>>
NewId(m, b) ==
  CASE backend = "gtk" -> GtkNewId(m, b)
    [] backend = "win32" -> Win32NewId
    [] backend = "android" -> AndroidNewId

(* A GTK action is not the application's until it is registered.           *)
GtkCommand(id, b)   == IF b = 0 THEN {} ELSE {[id |-> id, box |-> b, onApp |-> FALSE]}
Win32Command(id, b) == {[id |-> id, box |-> b, onApp |-> TRUE]}
NewCommand(id, b) ==
  CASE backend = "gtk" -> GtkCommand(id, b)
    [] backend = "win32" -> Win32Command(id, b)
    [] backend = "android" -> {}

Unlisted(m, l) == \A i \in Places(m) : native[m][i].label # l

(* menu_add_item, menu_add_item_accel and menu_item_disabled (no closure). *)
(* An application tells its items apart by their labels.                   *)
AddItem(m, l, enabled) ==
  /\ added < MaxItems /\ Unlisted(m, l)
  /\ added' = added + 1
  /\ LET b  == IF enabled THEN added + 1 ELSE 0
         id == NewId(m, b)
     IN  /\ native' = [native EXCEPT ![m] = Append(@, Item(l, l \in Accelerated, id, b))]
         /\ nextId' = IF id[2] # -1 THEN [nextId EXCEPT ![id[1]] = @ + 1] ELSE nextId
         /\ commands' = commands \cup NewCommand(id, b)
         /\ store' = Put(store, Record(m, FALSE, l, b))
         /\ accels' = accels \cup IF l \in Accelerated THEN {[menu |-> m, box |-> b]} ELSE {}
  /\ UNCHANGED <<backend, memory, running, clears, shown, chosen>>

(* menu_add_separator. A record of its own; on GTK it starts a section.    *)
AddSeparator(m) ==
  /\ native[m] # <<>> /\ ~Last(native[m]).sep
  /\ native' = [native EXCEPT ![m] = Append(@, Separator)]
  /\ store' = Put(store, Record(m, TRUE, "", 0))
  /\ UNCHANGED <<backend, nextId, commands, accels, memory, added, running, clears, shown, chosen>>

(* The ids a cleared menu takes out of the commands: all with the menu's   *)
(* prefix on GTK, those of the items deleted on Win32.                     *)
GtkIdsOf(m)   == {c.id : c \in {d \in commands : d.id[1] = m}}
Win32IdsOf(m) == {native[m][i].id : i \in Places(m)}
IdsOf(m) ==
  CASE backend = "gtk" -> GtkIdsOf(m)
    [] backend = "win32" -> Win32IdsOf(m)
    [] backend = "android" -> {}

(* menu_clear. ClearsPerRun bounds an item's own closure.                  *)
Clear(m) ==
  /\ native[m] # <<>>
  /\ running # 0 => clears < ClearsPerRun
  /\ clears' = IF running # 0 THEN clears + 1 ELSE 0
  /\ Forget(m)
  /\ native' = [native EXCEPT ![m] = <<>>]
  /\ commands' = {c \in commands : c.id \notin IdsOf(m)}
  /\ accels' = {a \in accels : a.menu # m}
  /\ UNCHANGED <<backend, nextId, added, running, shown, chosen>>

(* The platform's first item whose text is the label. Win32 keeps an item  *)
(* with an accelerator as "label<TAB>keys".                                *)
GtkSays(it, l)     == it.label = l
Win32Says(it, l)   == it.label = l /\ ~it.acc
AndroidSays(it, l) == it.label = l
At(m, l) ==
  LET says(it) == CASE backend = "gtk" -> GtkSays(it, l)
                    [] backend = "win32" -> Win32Says(it, l)
                    [] backend = "android" -> AndroidSays(it, l)
      hits == {i \in Places(m) : says(native[m][i])}
  IN  IF hits = {} THEN 0 ELSE Min(hits)

(* menu_item_set_label, as commands call it when their key changes: on the *)
(* items without an accelerator that menu_item_command made.               *)
Relabel(m, old, new) ==
  /\ old # new /\ Unlisted(m, new) /\ At(m, old) # 0 /\ ~native[m][At(m, old)].acc
  /\ native' = [native EXCEPT ![m][At(m, old)].label = new]
  /\ store' = IF Slot(m, old) = 0 THEN store ELSE [store EXCEPT ![Slot(m, old)].label = new]
  /\ UNCHANGED <<backend, nextId, commands, accels, memory, added, running, clears, shown, chosen>>

(***************************************************************************)
(* An item is chosen, and its closure runs.                                *)
(***************************************************************************)
Idle == running = 0
Run(b) == running' = b /\ clears' = 0
Built == <<backend, store, native, nextId, accels, memory, added>>

(* The closure a command reaches; 0 when it reaches none.                  *)
Dispatched(id) ==
  LET hits == {c \in commands : c.id = id /\ c.onApp}
  IN  IF hits = {} THEN 0 ELSE (CHOOSE c \in hits : TRUE).box

(* aeui_register_menu_actions: at the application's start, with a window's *)
(* menu bar and before a popup. Win32's commands need none.                *)
Registered == {[c EXCEPT !.onApp = TRUE] : c \in commands}
RegisterActions ==
  /\ backend = "gtk" /\ \E c \in commands : ~c.onApp
  /\ commands' = Registered
  /\ UNCHANGED <<Built, running, clears, shown, chosen>>

(* menu_popup, or a menu of the bar opened. Android fills a copy, whose    *)
(* items are numbered by their place in the menu.                          *)
GtkPopUp(m)     == shown' = [menu |-> m, items |-> <<>>] /\ commands' = Registered
Win32PopUp(m)   == shown' = [menu |-> m, items |-> <<>>] /\ UNCHANGED commands
AndroidPopUp(m) == shown' = [menu |-> m, items |-> native[m]] /\ UNCHANGED commands
PopUp(m) ==
  /\ Idle /\ shown = NoMenu /\ chosen = NoItem /\ native[m] # <<>>
  /\ CASE backend = "gtk" -> GtkPopUp(m)
       [] backend = "win32" -> Win32PopUp(m)
       [] backend = "android" -> AndroidPopUp(m)
  /\ UNCHANGED <<Built, running, clears, chosen>>

Visible == IF backend = "android" THEN shown.items ELSE native[shown.menu]

(* aeui_menu_fire_id: Android's item is found by its place, in the menu as *)
(* it is when the click comes.                                             *)
FiredAt(m, i) ==
  IF i \in Places(m) THEN native[m][i].box ELSE 0

(* The user clicks the i-th item. On Win32 the click posts WM_COMMAND.     *)
Choose(i) ==
  /\ Idle /\ shown # NoMenu /\ i \in DOMAIN Visible
  /\ ~Visible[i].sep /\ Visible[i].box # 0
  /\ shown' = NoMenu
  /\ CASE backend = "gtk"     -> Run(Dispatched(Visible[i].id)) /\ UNCHANGED chosen
       [] backend = "android" -> Run(FiredAt(shown.menu, i)) /\ UNCHANGED chosen
       [] backend = "win32"   -> chosen' = Visible[i] /\ UNCHANGED <<running, clears>>
  /\ UNCHANGED <<Built, commands>>

Dismiss ==
  /\ Idle /\ shown # NoMenu
  /\ shown' = NoMenu
  /\ UNCHANGED <<Built, commands, running, clears, chosen>>

(* menu_dispatch_command, when the posted WM_COMMAND is handled.           *)
CommandArrives ==
  /\ Idle /\ chosen # NoItem
  /\ Run(Dispatched(chosen.id))
  /\ chosen' = NoItem
  /\ UNCHANGED <<Built, commands, shown>>

(* The driver's /menu/{h}/activate: through the side-store.                *)
Invoke(m, l) ==
  /\ Idle /\ Slot(m, l) # 0 /\ store[Slot(m, l)].box # 0
  /\ Run(store[Slot(m, l)].box)
  /\ UNCHANGED <<Built, commands, shown, chosen>>

(* Its /menu/{h}/native_activate: through the platform's own binding, the  *)
(* action the item names or the command id it bears. (Android performs an  *)
(* item of the options menu, filled some time after the records changed.)  *)
GtkNative(m, l)   == Dispatched(native[m][At(m, l)].id)
Win32Native(m, l) == Dispatched(native[m][At(m, l)].id)
NativeActivate(m, l) ==
  /\ Idle /\ backend # "android" /\ At(m, l) # 0
  /\ Run(IF backend = "gtk" THEN GtkNative(m, l) ELSE Win32Native(m, l))
  /\ UNCHANGED <<Built, commands, shown, chosen>>

(* aether_ui_accel_fire: the newest item with the key and a closure.       *)
AccelFire ==
  /\ Idle /\ \E a \in accels : a.box # 0
  /\ Run(Max({a.box : a \in accels}))
  /\ UNCHANGED <<Built, commands, shown, chosen>>

Returns ==
  /\ ~Idle
  /\ Run(0)
  /\ UNCHANGED <<Built, commands, shown, chosen>>

Build ==
  \E m \in MenuHandles :
    \/ \E l \in Labels, enabled \in BOOLEAN : AddItem(m, l, enabled)
    \/ AddSeparator(m)
    \/ Clear(m)
    \/ \E old, new \in Labels : Relabel(m, old, new)

Use ==
  \/ RegisterActions
  \/ \E m \in MenuHandles : PopUp(m)
  \/ \E i \in 1 .. 2 * MaxItems : Choose(i)
  \/ Dismiss
  \/ CommandArrives
  \/ \E m \in MenuHandles, l \in Labels : Invoke(m, l) \/ NativeActivate(m, l)
  \/ AccelFire
  \/ Returns

Next == Build \/ Use

Spec == Init /\ [][Next]_vars

-----------------------------------------------------------------------------
(***************************************************************************)
(* What must hold.                                                         *)
(***************************************************************************)
(* What each variable can be; the table never outgrows MENU_ITEM_MAX.      *)
TypeOK ==
  /\ backend \in Backends
  /\ Len(store) <= Slots
  /\ \A i \in DOMAIN store :
       store[i].used => store[i].menu \in MenuHandles /\ store[i].box \in 0 .. added
  /\ DOMAIN native = MenuHandles
  /\ \A m \in MenuHandles : \A i \in Places(m) :
       native[m][i].label \in Labels /\ native[m][i].box \in 0 .. added
  /\ \A c \in commands : c.box \in 0 .. added /\ c.onApp \in BOOLEAN
  /\ grave \cup freed \subseteq Boxes /\ running \in 0 .. added
  /\ clears \in 0 .. ClearsPerRun

Recorded(m) == {<<store[i].label, store[i].box>> : i \in Items(m)}
Displayed(m) ==
  {<<native[m][i].label, native[m][i].box>> : i \in Places(m)}

Reachable ==
  ( (UNION {BoxesIn(m) : m \in MenuHandles}) \cup {c.box : c \in commands}
    \cup (UNION {{d[2] : d \in Displayed(m)} : m \in MenuHandles})
    \cup {a.box : a \in accels} ) \ {0}

(* The closure that runs is not freed under its own call, nor was before   *)
(* it: a clear from inside an item's own closure only retires it           *)
(* (aether_ui_menu_items_forget). Holds while a closure clears once.       *)
RunningNotFreed == running \notin freed

(* No table, native item, command or accelerator keeps a closure that was  *)
(* retired or freed, whichever menus are cleared and rebuilt; and, as long *)
(* as the table has never been full, every closure is in use, retired or   *)
(* freed, so that none is lost.                                            *)
ClosuresAccounted ==
  /\ Reachable \cap (grave \cup freed) = {}
  /\ grave \cap freed = {}
  /\ Len(store) < Slots =>
       \A m \in MenuHandles : {d[2] : d \in Displayed(m)} \subseteq BoxesIn(m) \cup {0}

(* A closure lives as long as it is called or can be, and no longer.       *)
ClosuresHold == RunningNotFreed /\ ClosuresAccounted

(* The driver and the tray know of a menu what the platform shows of it:   *)
(* no item of another menu, no old label, no closure but the item's own;   *)
(* and all of them until the table has been full (menu_item_set_label,     *)
(* menu_clear, menu_item_slot).                                            *)
StoreMirrorsNative ==
  \A m \in MenuHandles :
    /\ Recorded(m) \subseteq Displayed(m)
    /\ Len(store) < Slots => Recorded(m) = Displayed(m)

(* A click runs the closure of the item it was made on or, when that item  *)
(* is gone by then, none: GTK's action names and Win32's command ids are   *)
(* not given twice. (Android numbers the items of an open menu by place.)  *)
ClickRunsItsItem ==
  [][backend # "android" =>
       /\ \A i \in 1 .. 2 * MaxItems : Choose(i) =>
            running' \in {0, Visible[i].box}
       /\ CommandArrives => running' \in {0, chosen.box}]_vars
=============================================================================
