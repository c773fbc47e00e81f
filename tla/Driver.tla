-------------------------------- MODULE Driver --------------------------------
(***************************************************************************)
(* The driver: an HTTP server in the application (test_server.c), one      *)
(* request after another on a thread of its own, against the UI thread on  *)
(* which the application lives.                                            *)
(*                                                                         *)
(* GTK and Android service a whole request on the UI thread                *)
(* (run_on_ui_thread), from the recv to the reply. Win32 has no such hook: *)
(* the HTTP thread parses and reads widgets itself, sends each action to   *)
(* the UI thread and waits (SendMessage), and calls some closures itself.  *)
(*                                                                         *)
(* A widget's closure is a box, named by the widget's handle. A closure    *)
(* may remove its own widget (a row's button that rebuilds its list), and  *)
(* what becomes of the box then differs: Win32 buries it and frees it      *)
(* between two messages, GTK's signal frees it with its last reference,    *)
(* Android keeps it.                                                       *)
(***************************************************************************)
EXTENDS DriverVerbs, FiniteSets, Sequences

CONSTANTS
  Backends,     \* of Backend3, those looked at
  KindsTried,   \* of Kinds
  Handles,      \* the widgets
  MaxRequests,  \* bound: requests of the client
  MaxActs       \* bound: acts of a person and of the application

ASSUME DriverAssumption ==
  /\ Backends \subseteq Backend3 /\ KindsTried \subseteq Kinds
  /\ Handles \subseteq Nat \ {0} /\ {MaxRequests, MaxActs} \subseteq Nat

VARIABLES
  backend,
  widgets,   \* the registry: a record of each widget
  version,   \* counts the changes of the tree
  owed,      \* who changed the tree since it was laid out
  grave,     \* Win32: w32_graveyard
  freed,     \* the boxes freed
  calls,     \* by thread, the closure under way
  override,  \* g_mod_override is set
  http,      \* the server thread: where it is, and its request
  posted,    \* Win32: the messages posted, here of Return in a field
  bounds     \* the bounded counts
vars == <<backend, widgets, version, owed, grave, freed, calls, override, http, posted, bounds>>
tree == <<widgets, version, owed, grave, freed>>

Threads == {"ui", "server"}
Idle    == [box |-> 0, by |-> "none", emission |-> FALSE, mods |-> FALSE]
NoReq   == [verb |-> "widgets", w |-> 0, arg |-> 0, mods |-> FALSE]
Waiting == [at |-> "accept", req |-> NoReq, seen |-> {}, left |-> {}, outcome |-> 0]

Requests ==
  {NoReq}
    \cup {[verb |-> v, w |-> h, arg |-> 0, mods |-> FALSE] : v \in Verbs, h \in Handles}
    \cup {[verb |-> v, w |-> h, arg |-> 1, mods |-> FALSE] : v \in WithValue, h \in Handles}
    \cup {[verb |-> "click", w |-> h, arg |-> 0, mods |-> TRUE] : h \in Handles}

Hop == backend \in HopBackends
Init ==
  /\ backend \in Backends
  /\ \E kinds \in [Handles -> KindsTried], banner \in {0, 1} :
       widgets = [h \in Handles |-> [kind |-> kinds[h], live |-> TRUE, sealed |-> FALSE,
                                     banner |-> h = banner, value |-> 0]]
  /\ version = 0 /\ owed = {} /\ grave = {} /\ freed = {}
  /\ calls = [t \in Threads |-> Idle] /\ override = FALSE /\ http = Waiting
  /\ posted = <<>> /\ bounds = [requests |-> 0, acts |-> 0]

(* MUTANT of OnUi: the request is serviced on the thread that accepted it. *)
OnUiNever == FALSE

(* The UI thread is inside a request (the hop holds it through the recv).  *)
OnUi == Hop /\ http.at \notin {"accept", "hopping"}
UiFree == calls["ui"] = Idle /\ ~OnUi
Here == IF Hop THEN "ui" ELSE "server"      \* the thread of handle_request_inner

(***************************************************************************)
(* Widgets go, and their boxes with them.                                  *)
(***************************************************************************)
Running == {calls[t].box : t \in Threads} \ {0}

(* GTK: a closure lives as long as its signal, or the emission of it that  *)
(* is under way.                                                           *)
GtkRelease(h) ==
  /\ freed' = IF \E t \in Threads : calls[t].box = h /\ calls[t].emission
              THEN freed ELSE freed \cup {h}
  /\ UNCHANGED grave

(* MUTANT of Win32Release: the box is freed as the widget goes.            *)
Win32ReleaseNow(h) == freed' = freed \cup {h} /\ UNCHANGED grave

(* w32_release_box: buried, and freed by the run loop.                     *)
Win32Release(h) == grave' = grave \cup {h} /\ UNCHANGED freed

(* aeui_retire_tree lets go of the view only.                              *)
AndroidRelease(h) == UNCHANGED <<grave, freed>>

Remove(h, who) ==
  /\ widgets' = [widgets EXCEPT ![h].live = FALSE]
  /\ version' = version + 1
  /\ owed' = owed \cup {who}
  /\ CASE backend = "gtk" -> GtkRelease(h)
       [] backend = "win32" -> Win32Release(h)
       [] backend = "android" -> AndroidRelease(h)

(* w32_drain_graveyard, between two messages of the run loop.              *)
DrainGraveyard ==
  /\ backend = "win32" /\ UiFree /\ grave # {}
  /\ freed' = freed \cup grave /\ grave' = {}
  /\ UNCHANGED <<backend, widgets, version, owed, calls, override, http, posted, bounds>>

(***************************************************************************)
(* A closure runs.                                                         *)
(***************************************************************************)
(* modifiers() inside it answers the driver's, when they are set.          *)
Call(t, h, by, emission) ==
  calls' = [calls EXCEPT ![t] = [box |-> h, by |-> by, emission |-> emission, mods |-> override]]

(* It removes its own widget.                                              *)
ClosureRebuilds(t) ==
  /\ calls[t].box # 0 /\ widgets[calls[t].box].live
  /\ Remove(calls[t].box, IF calls[t].by = "driver" THEN http.req.verb ELSE "app")
  /\ UNCHANGED <<backend, calls, override, http, posted, bounds>>

(* It returns; the emission's own reference goes with it.                  *)
ClosureReturns(t) ==
  /\ calls[t].box # 0
  /\ calls' = [calls EXCEPT ![t] = Idle]
  /\ freed' = IF backend = "gtk" /\ calls[t].emission /\ ~widgets[calls[t].box].live
              THEN freed \cup {calls[t].box} ELSE freed
  /\ UNCHANGED <<backend, widgets, version, owed, grave, override, http, posted, bounds>>

Act == bounds.acts < MaxActs /\ bounds' = [bounds EXCEPT !.acts = @ + 1]

(* A person clicks: an emission, a posted message, a listener.             *)
PersonClicks(h) ==
  /\ UiFree /\ Act /\ widgets[h].live /\ Tap(backend, widgets[h]) # {}
  /\ Call("ui", h, "person", backend = "gtk")
  /\ widgets' = [widgets EXCEPT ![h].value = IF @ \in {0, 1} /\ widgets[h].kind = "toggle" THEN 1 - @ ELSE @]
  /\ UNCHANGED <<backend, version, owed, grave, freed, override, http, posted>>

(* The application, between events: a timer's rebuild, seal_widget.        *)
AppRemoves(h) ==
  /\ UiFree /\ Act /\ widgets[h].live
  /\ Remove(h, "app")
  /\ UNCHANGED <<backend, calls, override, http, posted>>

SealWidget(h) ==
  /\ UiFree /\ Act /\ ~widgets[h].sealed
  /\ widgets' = [widgets EXCEPT ![h].sealed = TRUE]
  /\ UNCHANGED <<backend, version, owed, grave, freed, calls, override, http, posted>>

(* The next frame lays the tree out.                                       *)
FrameLaysOut ==
  /\ UiFree /\ owed # {}
  /\ owed' = {}
  /\ UNCHANGED <<backend, widgets, version, grave, freed, calls, override, http, posted, bounds>>

(***************************************************************************)
(* The server thread.                                                      *)
(***************************************************************************)
(* accept: the hop is asked for before anything is read.                   *)
Accept(r) ==
  /\ http.at = "accept" /\ bounds.requests < MaxRequests
  /\ bounds' = [bounds EXCEPT !.requests = @ + 1]
  /\ http' = [Waiting EXCEPT !.at = IF Hop THEN "hopping" ELSE "recv", !.req = r]
  /\ UNCHANGED <<backend, tree, calls, override, posted>>

(* aeui_ui_call_idle lays the tree out, Android's hop does not.            *)
HopSettles == IF backend = "gtk" THEN {} ELSE owed

(* aeui_ui_call_idle, aeui_bridge_cb: the UI thread takes the request up.  *)
Hopped ==
  /\ http.at = "hopping" /\ calls["ui"] = Idle
  /\ http' = [http EXCEPT !.at = "recv"]
  /\ owed' = HopSettles
  /\ UNCHANGED <<backend, widgets, version, grave, freed, calls, override, posted, bounds>>

(* recv: the request, or a client that has gone.                           *)
Received ==
  /\ http.at = "recv"
  /\ http' = [http EXCEPT !.at = IF http.req.verb = "widgets" THEN "list" ELSE "route",
                          !.left = IF http.req.verb = "widgets" THEN Handles ELSE {}]
  /\ UNCHANGED <<backend, tree, calls, override, posted, bounds>>

Disconnected ==
  /\ http.at = "recv"
  /\ http' = Waiting
  /\ UNCHANGED <<backend, tree, calls, override, posted, bounds>>

(* hook_widget_rect on Win32 flushes the layout queue first.               *)
ReadSettles == IF backend = "win32" THEN {} ELSE owed

(* GET /widgets, one widget of it: the tree it is read from, and who had   *)
(* changed it since its layout.                                            *)
ListOne ==
  /\ http.at = "list" /\ http.left # {}
  /\ backend = "win32" /\ owed # {} => calls["ui"] = Idle
  /\ owed' = ReadSettles
  /\ \E h \in http.left :
       http' = [http EXCEPT !.left = @ \ {h}, !.seen = @ \cup {<<version, ReadSettles>>}]
  /\ UNCHANGED <<backend, widgets, version, grave, freed, calls, override, posted, bounds>>

Listed ==
  /\ http.at = "list" /\ http.left = {}
  /\ http' = Waiting
  /\ UNCHANGED <<backend, tree, calls, override, posted, bounds>>

Target == widgets[http.req.w]

(* /click?mods=: the keys are set before the dispatch.                     *)
SetModifiers ==
  /\ http.at = "route" /\ http.req.mods /\ ~override
  /\ override' = TRUE
  /\ UNCHANGED <<backend, tree, calls, http, posted, bounds>>

(* What an action does to its widget, and the closure it runs on thread t. *)
Apply(t, o, emission) ==
  /\ widgets' = [widgets EXCEPT ![http.req.w].value = o.value]
  /\ IF o.ran # {} THEN Call(t, http.req.w, "driver", emission) ELSE UNCHANGED calls
  /\ http' = [http EXCEPT !.at = "answer", !.outcome = o]

(* MUTANT of DispatchMayRun: the dispatch is queued to the UI thread, and  *)
(* waited for, also when the request holds it.                             *)
DispatchQueued == UiFree

DispatchMayRun == IF Hop THEN calls["ui"] = Idle ELSE UiFree

(* hook_dispatch_action, on the UI thread: at once where the request is    *)
(* there already, else when the run loop takes the message up.             *)
Dispatched ==
  LET o == Perform(backend, http.req.verb, Target, http.req.arg)
  IN  /\ http.at = "route" /\ http.req.verb \notin Direct
      /\ http.req.mods => override
      /\ DispatchMayRun
      /\ Apply("ui", o, backend = "gtk" /\ Target.kind # "row")
      /\ posted' = IF o.posted THEN Append(posted, http.req.w) ELSE posted
      /\ UNCHANGED <<backend, version, owed, grave, freed, override, bounds>>

(* aether_ui_fire_double_click sends itself to the UI thread, drop, scroll *)
(* and undo are called where the request is.                               *)
Win32Hops == {"double_click"}

CalledDirectly ==
  LET t == IF http.req.verb \in Win32Hops THEN "ui" ELSE Here
      o == FireDirect(http.req.verb, Target)
  IN  /\ http.at = "route" /\ http.req.verb \in Direct
      /\ t = "ui" => calls["ui"] = Idle
      /\ Apply(t, o, FALSE)
      /\ UNCHANGED <<backend, version, owed, grave, freed, override, posted, bounds>>

Unset == override /\ ~http.req.mods

(* w32_drv_settle_layout, driver_perform_trampoline: after an action.      *)
ActionSettles == IF backend = "gtk" \/ http.req.verb \in Direct THEN owed ELSE {}

Busy(t) == calls[t].by = "driver"

(* The closure has returned: the reply goes out.                           *)
Answer ==
  /\ http.at = "answer" /\ \A t \in Threads : ~Busy(t)
  /\ backend = "win32" /\ owed # {} => calls["ui"] = Idle
  /\ owed' = ActionSettles
  /\ override' = Unset
  /\ http' = Waiting
  /\ UNCHANGED <<backend, widgets, version, grave, freed, calls, posted, bounds>>

(* Win32: the posted Return reaches the message loop.                      *)
PostedReturn ==
  /\ posted # <<>> /\ UiFree
  /\ posted' = Tail(posted)
  /\ IF widgets[Head(posted)].live THEN Call("ui", Head(posted), "post", FALSE) ELSE UNCHANGED calls
  /\ UNCHANGED <<backend, tree, override, http, bounds>>

ServerStep ==
  \/ Hopped \/ ListOne \/ Listed
  \/ SetModifiers \/ Dispatched \/ CalledDirectly \/ Answer

Next ==
  \/ \E r \in Requests : Accept(r)
  \/ Received \/ Disconnected
  \/ ServerStep
  \/ \E t \in Threads : ClosureRebuilds(t) \/ ClosureReturns(t)
  \/ \E h \in Handles : PersonClicks(h) \/ AppRemoves(h) \/ SealWidget(h)
  \/ DrainGraveyard \/ FrameLaysOut \/ PostedReturn

SafeSpec == Init /\ [][Next]_vars

(* Threads run on, closures return; nothing makes a client send.           *)
Spec ==
  /\ SafeSpec
  /\ WF_vars(ServerStep)
  /\ \A t \in Threads : WF_vars(ClosureReturns(t))

-------------------------------------------------------------------------------
Modifiers == override /\ Hop => http.at \in {"route", "answer"} /\ http.req.mods

(* The state is well formed, and the driver's modifiers are set for no     *)
(* longer than its own request.                                            *)
TypeOK ==
  /\ backend \in Backends /\ version \in 0 .. Cardinality(Handles)
  /\ widgets \in [Handles -> [kind : Kinds, live : BOOLEAN, sealed : BOOLEAN,
                              banner : BOOLEAN, value : {0, 1}]]
  /\ owed \subseteq Verbs \cup {"app"}
  /\ grave \subseteq Handles /\ freed \subseteq Handles
  /\ \A t \in Threads : calls[t].box \in Handles \cup {0}
  /\ http.at \in {"accept", "hopping", "recv", "list", "route", "answer"}
  /\ http.req \in Requests /\ http.left \subseteq Handles
  /\ posted \in Seq(Handles)
  /\ Modifiers

(* A closure that runs from the platform's own event (a person's click, a  *)
(* posted key, a signal), or that Win32's run loop called for the driver,  *)
(* is not freed under its own call, whatever it removes.                   *)
NotFreedInEvent ==
  LET c == calls["ui"]
  IN  c.emission \/ c.by \in {"person", "post"} \/ backend = "win32" => c.box \notin freed

(* No closure at all is. The driver calls some on its own thread, where    *)
(* "between messages" of the run loop is no protection.                    *)
NotFreedUnderItsCall == \A t \in Threads : calls[t].box \notin freed

(* The widgets of one GET /widgets are of one moment, where the request is *)
(* serviced on the UI thread: nothing is half of before a change and half  *)
(* of after it.                                                            *)
OneVersionPerListing == Hop => \A a, b \in http.seen : a[1] = b[1]

(* What a listing says of positions is of a tree that was laid out since   *)
(* the driver's last action changed it. The verbs called without a         *)
(* dispatch do not settle it on Android.                                   *)
DrivenEffectsLaidOut ==
  \A s \in http.seen : s[2] \cap Verbs \subseteq IF backend = "android" THEN Direct ELSE {}

(* A listing is of one moment, and of a settled one.                       *)
ListingIsOneMoment == OneVersionPerListing /\ DrivenEffectsLaidOut

(* Only the click it was sent with sees a driven modifier, where requests  *)
(* are serviced on the UI thread: a person's click never does.             *)
ModifiersOfTheClickOnly ==
  Hop => \A t \in Threads : calls[t].mods => calls[t].by = "driver" /\ http.req.mods

(* A driven click or toggle that is not refused runs what a person's runs, *)
(* and the three backends agree on what a driven click, toggle and text    *)
(* run and on what they make of the value. A button's text is no text on   *)
(* GTK and Win32.                                                          *)
DrivenAsByHand ==
  http.at = "answer" /\ http.outcome.result = 0 /\ http.req.verb \in {"click", "toggle", "set_text"} =>
    LET ran == http.outcome.ran
    IN  /\ http.req.verb = "click" => ran = Tap(backend, Target)
        /\ http.req.verb = "toggle" => ran \in {{}, Tap(backend, Target)}
        /\ http.req.verb = "set_text" /\ Target.kind # "button" =>
             (ran # {}) = (Target.kind = "field")

(* A driven action is the person's own, with its modifiers and no others'. *)
DrivenIsTheAction == ModifiersOfTheClickOnly /\ DrivenAsByHand

(* The reply is the truth: a request answered 403 or 404 has changed no    *)
(* widget and run no closure; and a verb that is checked on every backend  *)
(* is answered so when its widget is gone, sealed or the banner, by        *)
(* whatever other verb the route sends it.                                 *)
CheckedVerbs == {"click", "set_text", "toggle", "set_value", "hover", "press"}
RefusalIsTrue ==
  [][http.at = "route" /\ http'.at = "answer" =>
       LET w == Target
           r == Routed(http.req.verb, w)
           refused == Status(http.req.verb, http'.outcome) \in {403, 404}
       IN  /\ refused => widgets' = widgets /\ calls' = calls
           /\ r \in CheckedVerbs /\ (w.live => w.sealed \/ w.banner) => refused]_vars

(* A widget sealed by seal_widget takes no driven action ("the test server *)
(* returns 403 for sealed widgets").                                       *)
SealedIsRefused ==
  [][http.at = "route" /\ http'.at = "answer" /\ Target.sealed /\ http.req.verb \in Enveloped \cup OwnReply =>
       http'.outcome.ran = {} /\ widgets' = widgets]_vars

(* Every request that has been read is answered: the hop, the dispatch and *)
(* the wait for a closure end, whatever the UI thread is busy with.        *)
RequestAnswered == http.at = "route" ~> http.at = "accept"
=============================================================================
