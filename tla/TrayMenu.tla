------------------------------- MODULE TrayMenu -------------------------------
(***************************************************************************)
(* A tray icon's menu over D-Bus (aether_ui_sni.c), on top of Menus: the   *)
(* tray names a menu, the StatusNotifierItem keeps a numbered snapshot of  *)
(* its items, and a host in another process shows the layout it fetched    *)
(* last and sends back an item's number when it is clicked.                *)
(*                                                                         *)
(* Everything of this process runs on its GTK main loop; the host's side   *)
(* is how a DBusMenu host uses these calls.                                *)
(***************************************************************************)
EXTENDS Menus

CONSTANTS
  SnapshotMax,   \* MENU_ITEMS_MAX of aether_ui_sni.c, 64 in the code
  MaxRevision    \* bound: times the application sets the tray's menu, plus 1

ASSUME TrayAssumption == {SnapshotMax, MaxRevision} \subseteq Nat

VARIABLES
  tray,   \* TrayRec: the menu's handle (0 none) and the seal
  sni,    \* SniState and SniMenu: the connection, menu_revision, the labels
  host    \* the host: its layout, that layout's revision, the signal pending,
          \* and whether it has asked AboutToShow since it fetched the layout

trayVars == <<tray, sni, host>>

TrayInit ==
  /\ Init
  /\ tray = [menu |-> 0, sealed |-> FALSE]
  /\ sni = [conn |-> FALSE, revision |-> 1, items |-> <<>>]
  /\ host = [layout |-> <<>>, revision |-> 0, told |-> FALSE, asked |-> FALSE]

(* sni_refresh_menu_snapshot: the labels of a menu's items as the store    *)
(* lists them, no separators; an item's id is its place, from 1.           *)
Snapshot(m) ==
  LET labels == [i \in DOMAIN Listed(m) |-> Listed(m)[i].label]
  IN  IF m = 0 THEN <<>> ELSE SubSeq(labels, 1, Min({Len(labels), SnapshotMax}))

(* MUTANT of SetMenu: the snapshot is taken under the old revision.        *)
SetMenuSameRevision(m) ==
  /\ sni.revision < MaxRevision
  /\ tray' = [tray EXCEPT !.menu = m]
  /\ sni' = [sni EXCEPT !.items = Snapshot(m)]
  /\ host' = [host EXCEPT !.told = @ \/ sni.conn]
  /\ UNCHANGED vars

(* MUTANT of SetMenu: no LayoutUpdated.                                    *)
SetMenuSilently(m) ==
  /\ sni.revision < MaxRevision
  /\ tray' = [tray EXCEPT !.menu = m]
  /\ sni' = [sni EXCEPT !.revision = @ + 1, !.items = Snapshot(m)]
  /\ UNCHANGED <<host, vars>>

(* aether_ui_tray_set_menu_impl and aether_ui_sni_invalidate_menu.         *)
SetMenu(m) ==
  /\ sni.revision < MaxRevision
  /\ tray' = [tray EXCEPT !.menu = m]
  /\ sni' = [sni EXCEPT !.revision = @ + 1, !.items = Snapshot(m)]
  /\ host' = [host EXCEPT !.told = @ \/ sni.conn]
  /\ UNCHANGED vars

Seal ==
  /\ ~tray.sealed
  /\ tray' = [tray EXCEPT !.sealed = TRUE]
  /\ UNCHANGED <<sni, host, vars>>

(* on_bus_acquired: the objects are on the bus, the snapshot is made.      *)
BusAcquired ==
  /\ ~sni.conn
  /\ sni' = [sni EXCEPT !.conn = TRUE, !.items = Snapshot(tray.menu)]
  /\ UNCHANGED <<tray, host, vars>>

(* menu_build_layout_for: the host fetches the layout, when it first shows *)
(* the tray and when it is told that the layout was updated.               *)
GetLayout ==
  /\ sni.conn /\ (host.told \/ host.revision = 0)
  /\ host' = [layout |-> sni.items, revision |-> sni.revision, told |-> FALSE, asked |-> FALSE]
  /\ UNCHANGED <<tray, sni, vars>>

(* AboutToShow: the snapshot is made anew, and the answer is that the host *)
(* need not fetch it.                                                      *)
AboutToShow ==
  /\ sni.conn /\ host.revision # 0
  /\ sni' = [sni EXCEPT !.items = Snapshot(tray.menu)]
  /\ host' = [host EXCEPT !.asked = TRUE]
  /\ UNCHANGED <<tray, vars>>

(* aether_ui_tray_menu_activate.                                           *)
Activate(l) ==
  LET i == IF tray.sealed \/ tray.menu = 0 THEN 0 ELSE Slot(tray.menu, l)
  IN  IF i = 0 THEN 0 ELSE store[i].box

(* Event "clicked" (and one of an EventGroup): the number the host got     *)
(* with its layout, looked up in the snapshot as it is now.                *)
Event(id) ==
  /\ Idle /\ id \in DOMAIN host.layout /\ id \in DOMAIN sni.items
  /\ Run(Activate(sni.items[id]))
  /\ UNCHANGED <<Built, commands, shown, chosen, trayVars>>

TrayNext ==
  \/ \E m \in MenuHandles : SetMenu(m)
  \/ Seal
  \/ BusAcquired
  \/ GetLayout
  \/ AboutToShow
  \/ \E id \in 1 .. SnapshotMax : Event(id)
  \/ Next /\ UNCHANGED trayVars

TraySafeSpec == TrayInit /\ [][TrayNext]_<<vars, trayVars>>

(* The bus is reached and the host answers a LayoutUpdated.                *)
TraySpec ==
  /\ TraySafeSpec
  /\ WF_<<vars, trayVars>>(BusAcquired)
  /\ WF_<<vars, trayVars>>(GetLayout)

-----------------------------------------------------------------------------
(***************************************************************************)
(* What must hold.                                                         *)
(***************************************************************************)
(* What an event of the host ran: nothing, or an item that bore the label  *)
(* the host showed under that number.                                      *)
RanAsShown(id) ==
  \/ running' = 0
  \/ <<host.layout[id], running'>> \in Displayed(tray.menu)

(* A host with the newest layout that has not asked AboutToShow since gets *)
(* what it shows: an item whose menu was rebuilt in the meantime runs only *)
(* if it bears the label shown.                                            *)
ClickRunsShownLabel ==
  [][\A id \in 1 .. SnapshotMax :
       Event(id) /\ host.revision = sni.revision /\ ~host.asked
         => RanAsShown(id)]_<<vars, trayVars>>

(* The same of every host that has fetched the newest layout: AboutToShow  *)
(* answers that "the layout the host already has is still valid"           *)
(* (aether_ui_sni.c).                                                      *)
NewestLayoutIsValid ==
  [][\A id \in 1 .. SnapshotMax :
       Event(id) /\ host.revision = sni.revision => RanAsShown(id)]_<<vars, trayVars>>

(* Every menu the application gives the tray reaches the host: once it no  *)
(* longer changes, the host has the newest revision.                       *)
HostCatchesUp == <>[](host.revision = sni.revision)
=============================================================================
