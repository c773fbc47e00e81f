----------------------------- MODULE FrameClock -----------------------------
(***************************************************************************)
(* The shared frame clock of backend/aether_ui_system_extras.c: on_frame's *)
(* subscribers, the dispatch that calls them, and the fallback timer that  *)
(* watches the native clock and stands in for it.                          *)
(*                                                                         *)
(* A subscriber is application code: during its call it may subscribe,     *)
(* cancel any subscription, or turn a nested event loop (a modal dialog),  *)
(* in which another frame can be delivered.  The deliveries under way form *)
(* a stack, g_frame_dispatching high.                                      *)
(*                                                                         *)
(* Time is counted in display periods and only its distance to the last    *)
(* native frame matters.  The native clock is that of one backend: a tick  *)
(* callback of GTK's, a thread of Win32's that waits for the compositor,   *)
(* or a callback that posts the next one, Android's.  It starts or does    *)
(* not and may stall at any time.                                          *)
(***************************************************************************)
EXTENDS Integers, Sequences, SequencesExt, FiniteSets, Sweeping

CONSTANTS
  Stall,      \* AEUI_FRAME_STALL_MS, in display periods
  Backends,   \* "gtk", "win32" and "android", or some of them
  HandOver,   \* 2 periods and 1 ms: how recent a native frame must be
  MaxSubs,    \* bound: subscriptions made
  MaxNest     \* bound: deliveries nested in one another

ASSUME BackendsAssumption == Backends \subseteq {"gtk", "win32", "android"}
ASSUME StallAssumption == Stall \in Nat /\ HandOver \in 0 .. Stall
ASSUME BoundsAssumption == MaxSubs \in Nat /\ MaxNest \in Nat

VARIABLES
  g_frame_subs,      \* [id, alive], in subscription order
  g_frame_next_id,
  g_frame_live,
  g_frame_native,
  g_frame_timer,
  g_frame_mode,
  since,             \* periods since g_frame_native_seen, at most Stall + 1
  clock,             \* the backend's own clock
  deliveries,        \* the deliveries under way, innermost first
  released           \* ids of the closure boxes freed

clockVars == <<g_frame_native, g_frame_timer, g_frame_mode, since>>
subVars == <<g_frame_subs, g_frame_next_id, g_frame_live, released>>
vars == <<subVars, clockVars, clock, deliveries>>

Modes == {"none", "watch", "drive"}
Ids == 1 .. MaxSubs

(* --- the native clocks ------------------------------------------------- *)

(* GTK: whether the tick callback is there, runs, or is to go when it ends.*)
(* Win32: the clock's generation, the threads with theirs, the message on  *)
(* its way, and whether the compositor turned out to be none.  Android:    *)
(* the generation and those of the callbacks posted.                       *)
NoClock(backend) ==
  CASE backend = "gtk" ->
         [backend |-> "gtk", tick |-> FALSE, in_tick |-> FALSE, stop_req |-> FALSE]
    [] backend = "win32" ->
         [backend |-> "win32", running |-> FALSE, gen |-> 0, threads |-> {},
          posted |-> 0, no_dwm |-> FALSE]
    [] backend = "android" ->
         [backend |-> "android", running |-> FALSE, gen |-> 0, posted |-> <<>>]

Runs(c) == IF c.backend = "gtk" THEN c.tick ELSE c.running
MayStart(c) == IF c.backend = "win32" THEN Runs(c) \/ ~c.no_dwm ELSE TRUE

(* aether_ui_frame_clock_start_impl where it can be had.                   *)
Started(c) ==
  CASE c.backend = "gtk" -> [c EXCEPT !.tick = TRUE, !.stop_req = FALSE]
    [] Runs(c) /\ c.backend # "gtk" -> c
    [] ~Runs(c) /\ c.backend = "win32" ->
         [c EXCEPT !.running = TRUE, !.gen = @ + 1,
                   !.threads = @ \cup {c.gen + 1}]
    [] ~Runs(c) /\ c.backend = "android" ->
         [c EXCEPT !.running = TRUE, !.gen = @ + 1, !.posted = Append(@, c.gen + 1)]

(* aether_ui_frame_clock_stop_impl: a thread or callback that is left has  *)
(* an old generation; GTK's callback is not removed while it runs.         *)
Stopped(c) ==
  CASE ~Runs(c) -> c
    [] Runs(c) /\ c.backend = "gtk" ->
         IF c.in_tick THEN [c EXCEPT !.stop_req = TRUE] ELSE [c EXCEPT !.tick = FALSE]
    [] Runs(c) /\ c.backend # "gtk" -> [c EXCEPT !.running = FALSE, !.gen = @ + 1]

(* The end of GTK's aeui_frame_tick, after the frame.                      *)
TickEnded(c) ==
  IF c.backend # "gtk" THEN c
  ELSE [c EXCEPT !.in_tick = FALSE, !.stop_req = FALSE, !.tick = @ /\ ~c.stop_req]
Ended(c, is_tick) == IF is_tick THEN TickEnded(c) ELSE c

Init ==
  /\ g_frame_subs = <<>>
  /\ g_frame_next_id = 1
  /\ g_frame_live = 0
  /\ g_frame_native = FALSE
  /\ g_frame_timer = FALSE
  /\ g_frame_mode = "none"
  /\ since = Stall + 1
  /\ clock \in {NoClock(b) : b \in Backends}
  /\ deliveries = <<>>
  /\ released = {}

Dispatching == deliveries # <<>>
Top == Head(deliveries)

(* The application's code runs: a handler of the event loop, or a          *)
(* subscriber in the middle of its call.                                   *)
AppRuns == Dispatching => Top.calling

(* An event is taken from the queue: by the event loop, or by a loop that  *)
(* the running subscriber turns.                                           *)
LoopTurns == AppRuns /\ Len(deliveries) < MaxNest

Alive(subs) == Kept(subs, {i \in DOMAIN subs : subs[i].alive})
IdsOf(subs) == {subs[i].id : i \in DOMAIN subs}

(* aeui_frame_sweep.                                                       *)
Sweep(subs) ==
  /\ g_frame_subs' = Alive(subs)
  /\ released' = released \cup (IdsOf(subs) \ IdsOf(Alive(subs)))

(* g_frame_dispatching is 0.                                               *)
MaySweep == deliveries' = <<>>

(* MUTANT of StopAll: the native clock is left running.                    *)
StopTimer(is_tick) ==
  /\ g_frame_timer' = FALSE
  /\ g_frame_mode' = "none"
  /\ clock' = Ended(clock, is_tick)
  /\ UNCHANGED <<g_frame_native, since>>

(* aeui_frame_stop_all, and the end of the native frame if it is in one.   *)
StopAll(is_tick) ==
  /\ clock' = Ended(IF g_frame_native THEN Stopped(clock) ELSE clock, is_tick)
  /\ g_frame_native' = FALSE
  /\ g_frame_timer' = FALSE
  /\ g_frame_mode' = "none"
  /\ UNCHANGED since

(* aeui_frame_fallback_set, in another mode than the present one: a new    *)
(* timer, if the backend has one to give.                                  *)
FallbackSet(mode) ==
  /\ g_frame_timer' \in BOOLEAN
  /\ g_frame_mode' = mode

(* The native clock is asked to start, and may refuse.                     *)
StartNative ==
  \/ MayStart(clock) /\ clock' = Started(clock) /\ g_frame_native' = TRUE
  \/ ~Runs(clock) /\ UNCHANGED clock /\ g_frame_native' = FALSE

(* What starts the clock: the native one if it can be had, under watch.    *)
StartClock ==
  /\ StartNative
  /\ since' = 0
  /\ FallbackSet(IF g_frame_native' THEN "watch" ELSE "drive")

(* aeui_frame_deliver up to its loop.  Its subscribers are those there are *)
(* now.  For the properties a delivery remembers which are due, which it   *)
(* has called, and which a later one called while it was under way.        *)
Deliver(is_tick) ==
  deliveries' = <<[at |-> 0, n |-> Len(g_frame_subs), calling |-> FALSE, tick |-> is_tick,
                   due |-> IdsOf(Alive(g_frame_subs)), called |-> <<>>,
                   overtaken |-> {}]>>
                \o deliveries

(* --- the application --------------------------------------------------- *)

(* aether_ui_frame_add_impl.                                               *)
Add ==
  /\ AppRuns
  /\ g_frame_next_id <= MaxSubs
  /\ g_frame_subs' = Append(g_frame_subs, [id |-> g_frame_next_id, alive |-> TRUE])
  /\ g_frame_next_id' = g_frame_next_id + 1
  /\ g_frame_live' = g_frame_live + 1
  /\ IF \/ g_frame_live = 0 /\ ~ Dispatching
        \/ ~ g_frame_timer /\ ~ g_frame_native
     THEN StartClock
     ELSE UNCHANGED <<clockVars, clock>>
  /\ UNCHANGED <<deliveries, released>>

(* The end of a cancel or of a delivery that leaves subs behind it.        *)
SweepAndStop(subs, is_tick) ==
  IF MaySweep /\ g_frame_live' = 0 THEN Sweep(subs) /\ StopAll(is_tick)
  ELSE /\ IF MaySweep THEN Sweep(subs) ELSE g_frame_subs' = subs /\ UNCHANGED released
       /\ clock' = Ended(clock, is_tick)
       /\ UNCHANGED clockVars

Subscribed(s, id) == s.id = id /\ s.alive

(* aether_ui_frame_cancel_impl of a live subscription.                     *)
Cancel(id) ==
  /\ AppRuns
  /\ g_frame_live' = g_frame_live - 1
  /\ UNCHANGED <<g_frame_next_id, deliveries>>
  /\ \E i \in DOMAIN g_frame_subs :
       /\ Subscribed(g_frame_subs[i], id)
       /\ SweepAndStop([g_frame_subs EXCEPT ![i].alive = FALSE], FALSE)

(* --- the clocks -------------------------------------------------------- *)

(* aether_ui_frame_dispatch, called by the native clock c.                 *)
Dispatch(c) ==
  /\ since' = 0
  /\ IF g_frame_live = 0 THEN clock' = TickEnded(c) /\ UNCHANGED deliveries
     ELSE clock' = c /\ Deliver(TRUE)
  /\ UNCHANGED <<subVars, g_frame_native, g_frame_timer, g_frame_mode>>

(* The backend's own handler drops a frame of a generation that is gone.   *)
Drop(c) == clock' = c /\ UNCHANGED <<subVars, clockVars, deliveries>>

GtkFrame ==
  /\ LoopTurns /\ clock.backend = "gtk" /\ clock.tick
  /\ Dispatch([clock EXCEPT !.in_tick = TRUE])

(* frame_sink_proc.                                                        *)
Win32Frame ==
  /\ LoopTurns /\ clock.backend = "win32" /\ clock.posted # 0
  /\ LET c == [clock EXCEPT !.posted = 0]
     IN  IF clock.running /\ clock.posted = clock.gen THEN Dispatch(c) ELSE Drop(c)

(* aeui_frame_cb posts the next one first.                                 *)
AndroidPosted(c) ==
  [c EXCEPT !.posted = IF c.running /\ Head(@) = c.gen THEN Append(Tail(@), c.gen) ELSE Tail(@)]
AndroidFrame ==
  /\ LoopTurns /\ clock.backend = "android" /\ clock.posted # <<>>
  /\ IF clock.running /\ Head(clock.posted) = clock.gen
     THEN Dispatch(AndroidPosted(clock)) ELSE Drop(AndroidPosted(clock))

(* frame_thread_main: a thread posts a frame unless one is on its way, and *)
(* ends when its generation has gone, after one more post if it had looked *)
(* before, or when the compositor did not wait.                            *)
ThreadPosts(gen) ==
  clock' = [clock EXCEPT !.posted = IF @ = 0 THEN gen ELSE @,
                         !.threads = IF gen = clock.gen THEN @ ELSE @ \ {gen}]
ThreadEnds(gen) ==
  /\ gen # clock.gen
  /\ clock' = [clock EXCEPT !.threads = @ \ {gen}]
ThreadGivesUp(gen) ==
  clock' = [clock EXCEPT !.threads = @ \ {gen}, !.no_dwm = TRUE]
ThreadStep ==
  /\ clock.backend = "win32"
  /\ \E gen \in clock.threads : ThreadPosts(gen) \/ ThreadEnds(gen) \/ ThreadGivesUp(gen)
  /\ UNCHANGED <<subVars, clockVars, deliveries>>

(* aeui_frame_fallback_tick: nothing left to drive; ...                    *)
TickStops ==
  /\ LoopTurns /\ g_frame_timer
  /\ g_frame_live = 0
  /\ StopAll(FALSE)
  /\ UNCHANGED <<subVars, deliveries>>

(* MUTANT of Stalled: a native clock that said it started is believed.     *)
NeverStarted == ~ g_frame_native
Stalled == since > Stall

(* ... on watch, the native clock stalled; ...                             *)
TickTakesOver ==
  /\ LoopTurns /\ g_frame_timer /\ g_frame_live > 0
  /\ g_frame_mode = "watch" /\ Stalled
  /\ FallbackSet("drive")
  /\ Deliver(FALSE)
  /\ UNCHANGED <<subVars, g_frame_native, since, clock>>

(* ... driving, native frames are back; ...                                *)
TickHandsOver ==
  /\ LoopTurns /\ g_frame_timer /\ g_frame_live > 0
  /\ g_frame_mode = "drive" /\ g_frame_native /\ since <= HandOver
  /\ FallbackSet("watch")
  /\ UNCHANGED <<subVars, g_frame_native, since, clock, deliveries>>

(* ... or it drives, and about once a second tries the native clock again. *)
TickDrives ==
  /\ LoopTurns /\ g_frame_timer /\ g_frame_live > 0
  /\ g_frame_mode = "drive" /\ ~ (g_frame_native /\ since <= HandOver)
  /\ \/ UNCHANGED <<g_frame_native, clock>>
     \/ ~g_frame_native /\ StartNative
  /\ Deliver(FALSE)
  /\ UNCHANGED <<subVars, g_frame_timer, g_frame_mode, since>>

Elapse ==
  /\ since <= Stall
  /\ since' = since + 1
  /\ UNCHANGED <<subVars, g_frame_native, g_frame_timer, g_frame_mode, clock, deliveries>>

(* --- the loop of aeui_frame_deliver ------------------------------------ *)

(* MUTANT of LoopEnd: the loop runs to the end of the list as it is now.   *)
ListEnd == Len(g_frame_subs)
LoopEnd == Top.n

(* On to the next subscriber, which is called if it is alive.              *)
DeliverTurn ==
  /\ Dispatching /\ Top.at < LoopEnd
  /\ LET next == g_frame_subs[Top.at + 1]
         new  == IF next.alive THEN <<next.id>> ELSE <<>>
         turned == [Top EXCEPT !.at = @ + 1, !.calling = next.alive,
                               !.called = @ \o new]
     IN  deliveries' = <<turned>> \o
           [k \in DOMAIN Tail(deliveries) |->
             [Tail(deliveries)[k] EXCEPT !.overtaken = @ \cup ToSet(new)]]
  /\ UNCHANGED <<subVars, clockVars, clock>>

DeliverEnd ==
  /\ Dispatching /\ Top.at = LoopEnd
  /\ deliveries' = Tail(deliveries)
  /\ UNCHANGED <<g_frame_next_id, g_frame_live>>
  /\ SweepAndStop(g_frame_subs, Top.tick)

DeliverStep == DeliverTurn \/ DeliverEnd
TimerTick == TickStops \/ TickTakesOver \/ TickHandsOver \/ TickDrives

Next ==
  \/ Add
  \/ \E id \in Ids : Cancel(id)
  \/ GtkFrame \/ Win32Frame \/ AndroidFrame
  \/ ThreadStep
  \/ TickStops \/ TickTakesOver \/ TickHandsOver \/ TickDrives
  \/ Elapse
  \/ DeliverTurn \/ DeliverEnd

SafeSpec == Init /\ [][Next]_vars

(* Subscribers return, timers fire, time passes.  Nothing is assumed of    *)
(* the native clock.                                                       *)
Spec == SafeSpec /\ WF_vars(DeliverStep) /\ WF_vars(TimerTick) /\ WF_vars(Elapse)

-----------------------------------------------------------------------------
Delivery == [at : Nat, n : Nat, calling : BOOLEAN, tick : BOOLEAN, due : SUBSET Ids,
             called : Seq(Ids), overtaken : SUBSET Ids]

TypeOK ==
  /\ g_frame_subs \in Seq([id : Ids, alive : BOOLEAN])
  /\ g_frame_next_id \in 1 .. MaxSubs + 1
  /\ g_frame_live = Len(Alive(g_frame_subs))
  /\ g_frame_native \in BOOLEAN /\ g_frame_timer \in BOOLEAN
  /\ g_frame_mode \in Modes
  /\ since \in 0 .. Stall + 1
  /\ deliveries \in Seq(Delivery)
  /\ released \subseteq Ids

(* A subscriber that cancels itself, or another whose call is under way    *)
(* further down the stack, keeps its closure until every call returned.    *)
RunningNotReleased ==
  \A k \in DOMAIN deliveries :
    deliveries[k].calling =>
      deliveries[k].called # <<>> /\ Last(deliveries[k].called) \notin released

(* One delivery calls nobody twice and nobody who subscribed after it      *)
(* began, and when it ends everyone who was subscribed then and still is   *)
(* has been called, whatever was cancelled, added or delivered meanwhile.  *)
EveryoneOncePerFrame ==
  \A k \in DOMAIN deliveries :
    LET d == deliveries[k]
    IN  /\ IsInjective(d.called)
        /\ ToSet(d.called) \subseteq d.due
        /\ d.at = d.n =>
             d.due \cap IdsOf(Alive(g_frame_subs)) \subseteq ToSet(d.called)

(* A delivery reaches whom it should, and what it calls is there.          *)
DeliveriesHold == RunningNotReleased /\ EveryoneOncePerFrame

(* on_frame's comment: t_ms is strictly increasing.  The time of a frame is *)
(* fixed when its delivery begins, so this says that no subscriber gets an *)
(* older frame after a newer one.                                          *)
FrameTimesIncrease ==
  [][DeliverTurn /\ Top'.calling => Last(Top'.called) \notin Top.overtaken]_vars

(* The native clock is what g_frame_native says it is, also when it was    *)
(* stopped and started again inside its own frame: GTK's callback is there *)
(* and is not about to go, Win32's thread waits for the compositor unless  *)
(* there is none, and on Android one callback is posted and not two.       *)
ClockAsSaid ==
  LET PostedNow == {i \in DOMAIN clock.posted : clock.posted[i] = clock.gen} IN
  CASE clock.backend = "gtk" -> g_frame_native <=> clock.tick /\ ~clock.stop_req
    [] clock.backend = "win32" ->
         /\ g_frame_native <=> clock.running
         /\ clock.running => clock.gen \in clock.threads \/ clock.no_dwm
         /\ ~clock.running => clock.gen \notin clock.threads
    [] clock.backend = "android" ->
         /\ g_frame_native <=> clock.running
         /\ clock.running => \E i \in DOMAIN clock.posted : PostedNow = {i}
         /\ ~clock.running => PostedNow = {}

(* "The clock runs only while something is subscribed", and it does run    *)
(* then: between frames a fallback mode is set exactly while somebody      *)
(* subscribes, neither clock runs on without one, and no stop is pending.  *)
RunsIffSubscribed ==
  /\ ClockAsSaid
  /\ ~ Dispatching =>
       /\ g_frame_mode # "none" <=> g_frame_live > 0
       /\ g_frame_native \/ g_frame_timer => g_frame_mode # "none"
       /\ clock.backend = "gtk" => ~clock.in_tick /\ ~clock.stop_req

(* The backend had no timer to give when the mode was last set.            *)
TimerRefused == g_frame_mode # "none" /\ ~ g_frame_timer

(* "on_frame throttles but never silently stops": as long as somebody is   *)
(* subscribed, subscribers are called again and again, whatever the native *)
(* clock does, unless the backend refuses the fallback timer.              *)
NeverSilentlyStops ==
  []<>(\/ g_frame_live = 0
       \/ TimerRefused
       \/ \E k \in DOMAIN deliveries : deliveries[k].calling)
=============================================================================
