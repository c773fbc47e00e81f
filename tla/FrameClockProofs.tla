-------------------------- MODULE FrameClockProofs --------------------------
(***************************************************************************)
(* The frame clock, for any number of subscriptions and of deliveries      *)
(* nested in one another, and any subset of the backends.                  *)
(*                                                                         *)
(* A delivery walks a list of subscribers by place while that list is      *)
(* changed under it.  What makes that safe is that ids increase along the  *)
(* list and are never given again, and that the list loses no entry while  *)
(* a delivery is under way: so a place names the same subscriber to the    *)
(* end, and what was called is what was passed.                            *)
(***************************************************************************)
EXTENDS FrameClock, SweepingProofs, FiniteSetTheorems

Sub == [id : Nat, alive : BOOLEAN]
Frame == [at : Nat, n : Nat, calling : BOOLEAN, tick : BOOLEAN, due : SUBSET Nat,
          called : Seq(Nat), overtaken : SUBSET Nat]

Typed ==
  /\ g_frame_subs \in Seq(Sub)
  /\ g_frame_next_id \in Nat /\ g_frame_next_id >= 1
  /\ g_frame_native \in BOOLEAN /\ g_frame_timer \in BOOLEAN
  /\ g_frame_mode \in Modes
  /\ deliveries \in Seq(Frame)

(* --- subscriptions ----------------------------------------------------- *)

InOrder(s) == \A i, j \in DOMAIN s : i < j => s[i].id < s[j].id
Numbered(s, next) == \A i \in DOMAIN s : s[i].id \in 1 .. next - 1
LiveIds(s) == {s[i].id : i \in {j \in DOMAIN s : s[j].alive}}

SubsInOrder == InOrder(g_frame_subs) /\ Numbered(g_frame_subs, g_frame_next_id)

(* A box that was freed is no entry's, and none that will be made.         *)
ReleasedGone ==
  /\ released \subseteq 1 .. g_frame_next_id - 1
  /\ \A i \in DOMAIN g_frame_subs : g_frame_subs[i].id \notin released

Counted == g_frame_live = Cardinality(LiveIds(g_frame_subs))

(* --- deliveries -------------------------------------------------------- *)

(* What the delivery d has done of the list s: it called the live ones it  *)
(* passed, in their order, and nobody else.                                *)
Passed(d, s) ==
  /\ d.at <= d.n /\ d.n <= Len(s)
  /\ \A a, b \in DOMAIN d.called : a < b => d.called[a] < d.called[b]
  /\ \A a \in DOMAIN d.called : d.called[a] \in d.due
  /\ \A a \in DOMAIN d.called : \E i \in 1 .. d.at : s[i].id = d.called[a]
  /\ \A i \in 1 .. d.at : s[i].alive => \E a \in DOMAIN d.called : s[i].id = d.called[a]
  /\ \A x \in d.due : \E i \in 1 .. d.n : s[i].id = x
  /\ \A i \in 1 .. d.n : s[i].alive => s[i].id \in d.due
AtItsCall(d, s) ==
  d.calling => d.at >= 1 /\ d.called # <<>> /\ d.called[Len(d.called)] = s[d.at].id

FramesHold ==
  \A k \in DOMAIN deliveries :
    Passed(deliveries[k], g_frame_subs) /\ AtItsCall(deliveries[k], g_frame_subs)

(* --- the clocks -------------------------------------------------------- *)

GtkClock == [backend : {"gtk"}, tick : BOOLEAN, in_tick : BOOLEAN, stop_req : BOOLEAN]
Win32Clock == [backend : {"win32"}, running : BOOLEAN, gen : Nat, threads : SUBSET Nat,
               posted : Nat, no_dwm : BOOLEAN]
AndroidClock == [backend : {"android"}, running : BOOLEAN, gen : Nat, posted : Seq(Nat)]

GtkSays(c, native) ==
  /\ c \in GtkClock
  /\ native <=> c.tick /\ ~c.stop_req
  /\ c.stop_req => c.in_tick

(* No thread is of a generation to come: the next start cannot take an old *)
(* thread for its own.                                                     *)
Win32Says(c, native) ==
  /\ c \in Win32Clock
  /\ native <=> c.running
  /\ \A t \in c.threads : t <= c.gen
  /\ c.running => c.gen \in c.threads \/ c.no_dwm
  /\ ~c.running => c.gen \notin c.threads

AndroidSays(c, native) ==
  /\ c \in AndroidClock
  /\ native <=> c.running
  /\ \A i \in DOMAIN c.posted : c.posted[i] <= c.gen
  /\ c.running => \E i \in DOMAIN c.posted :
                    \A j \in DOMAIN c.posted : c.posted[j] = c.gen <=> j = i
  /\ ~c.running => \A j \in DOMAIN c.posted : c.posted[j] # c.gen

Says(c, native) == GtkSays(c, native) \/ Win32Says(c, native) \/ AndroidSays(c, native)

ClockSays == Says(clock, g_frame_native)

(* GTK's callback is inside a frame of its own.                            *)
InTick(c) == c.backend = "gtk" /\ c.in_tick
TicksAreFrames == InTick(clock) => \E k \in DOMAIN deliveries : deliveries[k].tick

ModeSays ==
  /\ g_frame_live > 0 => g_frame_mode # "none"
  /\ g_frame_native \/ g_frame_timer => g_frame_mode # "none"
  /\ ~Dispatching /\ g_frame_mode # "none" => g_frame_live > 0

IInv ==
  Typed /\ SubsInOrder /\ ReleasedGone /\ Counted /\ FramesHold
        /\ ClockSays /\ TicksAreFrames /\ ModeSays

-----------------------------------------------------------------------------
(* A sweep keeps the live entries, each once, in their order.              *)
LEMMA AliveFacts ==
  ASSUME NEW s \in Seq(Sub)
  PROVE  /\ Alive(s) \in Seq(Sub)
         /\ \A j \in DOMAIN Alive(s) :
              Alive(s)[j].alive /\ \E i \in DOMAIN s : Alive(s)[j] = s[i]
         /\ \A i \in DOMAIN s : s[i].alive => \E j \in DOMAIN Alive(s) : Alive(s)[j] = s[i]
         /\ InOrder(s) => InOrder(Alive(s))
<1> DEFINE K == {i \in DOMAIN s : s[i].alive}
           c == Kept(s, K)
<1>1. Alive(s) = c
  BY DEF Alive
<1> HIDE DEF K
<1>2. c \in Seq(Sub) /\ \E f : Picked(s, K, Len(s), c, f)
  BY KeptFacts
<1> HIDE DEF c
<1>3. PICK f : Picked(s, K, Len(s), c, f)
  BY <1>2
<1>4. /\ \A j \in 1 .. Len(c) : f[j] \in K /\ f[j] \in 1 .. Len(s) /\ c[j] = s[f[j]]
      /\ \A j, k \in 1 .. Len(c) : j < k => f[j] < f[k]
      /\ \A i \in K \cap (1 .. Len(s)) : \E j \in 1 .. Len(c) : f[j] = i
  BY <1>3 DEF Picked
<1>5. DOMAIN s = 1 .. Len(s) /\ DOMAIN c = 1 .. Len(c)
  BY <1>2
<1>6. ASSUME NEW j \in DOMAIN c
      PROVE  c[j].alive /\ \E i \in DOMAIN s : c[j] = s[i]
  BY <1>4, <1>5 DEF K
<1>7. ASSUME NEW i \in DOMAIN s, s[i].alive
      PROVE  \E j \in DOMAIN c : c[j] = s[i]
  <2>1. i \in K \cap (1 .. Len(s))
    BY <1>5, <1>7 DEF K
  <2>2. PICK j \in 1 .. Len(c) : f[j] = i
    BY <1>4, <2>1
  <2> QED
    BY <1>4, <1>5, <2>2
<1>8. ASSUME InOrder(s)
      PROVE  InOrder(c)
  BY <1>4, <1>5, <1>8 DEF InOrder
<1> QED
  BY <1>1, <1>2, <1>6, <1>7, <1>8

(* A sweep neither loses nor adds a live id.                               *)
LEMMA SweptIds ==
  ASSUME NEW s \in Seq(Sub)
  PROVE  IdsOf(Alive(s)) = LiveIds(s) /\ LiveIds(Alive(s)) = LiveIds(s)
<1> DEFINE c == Alive(s)
<1>1. /\ \A j \in DOMAIN c : c[j].alive /\ \E i \in DOMAIN s : c[j] = s[i]
      /\ \A i \in DOMAIN s : s[i].alive => \E j \in DOMAIN c : c[j] = s[i]
  BY AliveFacts
<1> HIDE DEF c
<1>2. {j \in DOMAIN c : c[j].alive} = DOMAIN c
  BY <1>1
<1>3. LiveIds(c) = IdsOf(c)
  BY <1>2 DEF LiveIds, IdsOf
<1>4. IdsOf(c) \subseteq LiveIds(s)
  BY <1>1 DEF LiveIds, IdsOf
<1>5. LiveIds(s) \subseteq IdsOf(c)
  BY <1>1 DEF LiveIds, IdsOf
<1> QED
  BY <1>3, <1>4, <1>5 DEF c

(* --- the clocks, started, stopped and ended ---------------------------- *)

(* A clock started is a clock the shared code believes in.                 *)
LEMMA StartedSays ==
  ASSUME NEW c, NEW native \in BOOLEAN, Says(c, native)
  PROVE  Says(Started(c), TRUE) /\ (InTick(Started(c)) => InTick(c))
<1>1. CASE GtkSays(c, native)
  <2>1. Started(c) = [c EXCEPT !.tick = TRUE, !.stop_req = FALSE]
    BY <1>1 DEF Started, GtkSays, GtkClock
  <2> QED
    BY <1>1, <2>1 DEF Says, GtkSays, GtkClock, InTick
<1>2. CASE Win32Says(c, native)
  <2>1. CASE c.running
    BY <1>2, <2>1 DEF Started, Runs, Says, Win32Says, Win32Clock, InTick
  <2>2. CASE ~c.running
    <3> DEFINE d == Started(c)
    <3>1. d = [c EXCEPT !.running = TRUE, !.gen = @ + 1, !.threads = @ \cup {c.gen + 1}]
      BY <1>2, <2>2 DEF Started, Runs, Win32Says, Win32Clock
    <3>2. c \in Win32Clock /\ \A t \in c.threads : t <= c.gen
      BY <1>2 DEF Win32Says
    <3>3. /\ d \in Win32Clock /\ d.running /\ d.gen = c.gen + 1
          /\ d.threads = c.threads \cup {c.gen + 1} /\ c.gen \in Nat /\ c.threads \in SUBSET Nat
      <4>1. c.gen \in Nat /\ c.threads \in SUBSET Nat
        BY <3>2 DEF Win32Clock
      <4>2. c.gen + 1 \in Nat /\ c.threads \cup {c.gen + 1} \in SUBSET Nat
        BY <4>1
      <4> DEFINE g == c.gen + 1
                 ts == c.threads \cup {g}
      <4>3. d = [c EXCEPT !.running = TRUE, !.gen = g, !.threads = ts]
        BY <3>1, <3>2 DEF Win32Clock
      <4> HIDE DEF d, g, ts
      <4>4. /\ d.running /\ d.gen = g /\ d.threads = ts
            /\ (g \in Nat /\ ts \in SUBSET Nat => d \in Win32Clock)
        BY ONLY <3>2, <4>3 DEF Win32Clock
      <4> QED
        BY <4>1, <4>2, <4>4 DEF g, ts
    <3> HIDE DEF d
    <3>4. \A t \in d.threads : t <= d.gen
      BY <3>2, <3>3
    <3>5. Win32Says(d, TRUE)
      BY <3>3, <3>4 DEF Win32Says
    <3> QED
      BY <3>3, <3>5 DEF Says, InTick, Win32Clock, d
  <2> QED
    BY <1>2, <2>1, <2>2 DEF Win32Says, Win32Clock
<1>3. CASE AndroidSays(c, native)
  <2>1. CASE c.running
    BY <1>3, <2>1 DEF Started, Runs, Says, AndroidSays, AndroidClock, InTick
  <2>2. CASE ~c.running
    <3> DEFINE d == Started(c)
    <3>1. d = [c EXCEPT !.running = TRUE, !.gen = @ + 1, !.posted = Append(@, c.gen + 1)]
      BY <1>3, <2>2 DEF Started, Runs, AndroidSays, AndroidClock
    <3>2. d \in AndroidClock /\ d.running /\ d.gen = c.gen + 1
          /\ d.posted = Append(c.posted, c.gen + 1) /\ c.posted \in Seq(Nat) /\ c.gen \in Nat
      <4>1. c \in AndroidClock /\ c.gen \in Nat /\ c.posted \in Seq(Nat)
        BY <1>3 DEF AndroidSays, AndroidClock
      <4>2. Append(c.posted, c.gen + 1) \in Seq(Nat) /\ c.gen + 1 \in Nat
        BY <4>1
      <4> QED
        BY <4>1, <4>2, <3>1 DEF AndroidClock
    <3> HIDE DEF d
    <3>3. /\ DOMAIN d.posted = 1 .. Len(c.posted) + 1
          /\ d.posted[Len(c.posted) + 1] = c.gen + 1
          /\ \A i \in 1 .. Len(c.posted) : d.posted[i] = c.posted[i]
      BY <3>2
    <3>4. \A i \in 1 .. Len(c.posted) : c.posted[i] \in Nat /\ c.posted[i] <= c.gen
      BY <1>3, <3>2 DEF AndroidSays
    <3> DEFINE l == Len(c.posted)
    <3>5. l \in Nat /\ l + 1 \in DOMAIN d.posted
      BY <3>2, <3>3
    <3> HIDE DEF l
    <3>6. ASSUME NEW i \in 1 .. l + 1
          PROVE  /\ d.posted[i] <= d.gen
                 /\ d.posted[i] = d.gen <=> i = l + 1
      <4>1. i = l + 1 \/ (i \in 1 .. l /\ i # l + 1)
        BY ONLY <3>5
      <4>2. CASE i = l + 1
        BY <3>2, <3>3, <4>2 DEF l
      <4>3. CASE i \in 1 .. l /\ i # l + 1
        BY <3>2, <3>3, <3>4, <4>3 DEF l
      <4> QED
        BY <4>1, <4>2, <4>3
    <3>7. DOMAIN d.posted = 1 .. l + 1
      BY <3>3 DEF l
    <3>8. AndroidSays(d, TRUE)
      BY <3>2, <3>5, <3>6, <3>7 DEF AndroidSays
    <3> QED
      BY <3>2, <3>8 DEF Says, InTick, AndroidClock, d
  <2> QED
    BY <1>3, <2>1, <2>2 DEF AndroidSays, AndroidClock
<1> QED
  BY <1>1, <1>2, <1>3 DEF Says

(* One that was refused does not run.                                      *)
LEMMA NotStartedSays ==
  ASSUME NEW c, NEW native \in BOOLEAN, Says(c, native), ~Runs(c)
  PROVE  Says(c, FALSE)
BY DEF Says, GtkSays, Win32Says, AndroidSays, Runs, GtkClock, Win32Clock, AndroidClock

(* A clock stopped, or asked to stop inside its own tick.                  *)
LEMMA StoppedSays ==
  ASSUME NEW c, Says(c, TRUE)
  PROVE  Says(Stopped(c), FALSE) /\ (InTick(Stopped(c)) => InTick(c))
<1>1. CASE GtkSays(c, TRUE)
  <2>1. Stopped(c) = IF c.in_tick THEN [c EXCEPT !.stop_req = TRUE]
                     ELSE [c EXCEPT !.tick = FALSE]
    BY <1>1 DEF Stopped, Runs, GtkSays, GtkClock
  <2> QED
    BY <1>1, <2>1 DEF Says, GtkSays, GtkClock, InTick
<1>2. CASE Win32Says(c, TRUE)
  <2>1. Stopped(c) = [c EXCEPT !.running = FALSE, !.gen = @ + 1]
    BY <1>2 DEF Stopped, Runs, Win32Says, Win32Clock
  <2> DEFINE d == Stopped(c)
  <2>2. c \in Win32Clock /\ c.gen \in Nat /\ \A t \in c.threads : t <= c.gen
    BY <1>2 DEF Win32Says, Win32Clock
  <2>3. /\ d \in Win32Clock /\ ~d.running /\ d.gen = c.gen + 1 /\ d.threads = c.threads
        /\ d.threads \in SUBSET Nat
    <3>1. c.gen + 1 \in Nat
      BY <2>2
    <3> HIDE DEF d
    <3> QED
      BY ONLY <2>1, <2>2, <3>1 DEF Win32Clock, d
  <2> HIDE DEF d
  <2>4. d.gen \notin d.threads /\ \A t \in d.threads : t <= d.gen
    BY <2>2, <2>3
  <2>5. Win32Says(d, FALSE)
    BY <2>3, <2>4 DEF Win32Says
  <2> QED
    BY <2>3, <2>5 DEF Says, InTick, Win32Clock, d
<1>3. CASE AndroidSays(c, TRUE)
  <2>1. Stopped(c) = [c EXCEPT !.running = FALSE, !.gen = @ + 1]
    BY <1>3 DEF Stopped, Runs, AndroidSays, AndroidClock
  <2> DEFINE d == Stopped(c)
  <2>2. /\ c \in AndroidClock /\ c.gen \in Nat /\ c.posted \in Seq(Nat)
        /\ \A i \in DOMAIN c.posted : c.posted[i] <= c.gen
    BY <1>3 DEF AndroidSays, AndroidClock
  <2>3. d \in AndroidClock /\ ~d.running /\ d.gen = c.gen + 1 /\ d.posted = c.posted
    <3>1. c.gen + 1 \in Nat
      BY <2>2
    <3> QED
      BY ONLY <2>1, <2>2, <3>1 DEF AndroidClock, d
  <2>4. \A i \in DOMAIN c.posted : c.posted[i] \in Nat
    BY <2>2
  <2> HIDE DEF d
  <2>5. \A i \in DOMAIN d.posted : d.posted[i] <= d.gen /\ d.posted[i] # d.gen
    BY <2>2, <2>3, <2>4
  <2>6. AndroidSays(d, FALSE)
    BY <2>3, <2>5 DEF AndroidSays
  <2> QED
    BY <2>3, <2>6 DEF Says, InTick, AndroidClock, d
<1> QED
  BY <1>1, <1>2, <1>3 DEF Says

(* The end of GTK's tick callback carries out the stop it was asked for.   *)
LEMMA TickEndedSays ==
  ASSUME NEW c, NEW native \in BOOLEAN, Says(c, native)
  PROVE  Says(TickEnded(c), native) /\ ~InTick(TickEnded(c))
<1>1. CASE GtkSays(c, native)
  BY <1>1 DEF TickEnded, Says, GtkSays, GtkClock, InTick
<1>2. CASE Win32Says(c, native)
  BY <1>2 DEF TickEnded, Says, Win32Says, Win32Clock, InTick
<1>3. CASE AndroidSays(c, native)
  BY <1>3 DEF TickEnded, Says, AndroidSays, AndroidClock, InTick
<1> QED
  BY <1>1, <1>2, <1>3 DEF Says

(* A delivery's end, which is that of a callback only if it is a tick's.   *)
LEMMA EndedSays ==
  ASSUME NEW c, NEW native \in BOOLEAN, Says(c, native), NEW is_tick \in BOOLEAN
  PROVE  /\ Says(Ended(c, is_tick), native)
         /\ InTick(Ended(c, is_tick)) => InTick(c) /\ ~is_tick
<1>1. CASE is_tick
  BY <1>1, TickEndedSays DEF Ended
<1>2. CASE ~is_tick
  BY <1>2 DEF Ended
<1> QED
  BY <1>1, <1>2

(* --- deliveries and the list ------------------------------------------- *)

(* A list that grows at its end and whose entries die keeps every delivery *)
(* as it was.                                                              *)
LEMMA StillPassed ==
  ASSUME NEW s \in Seq(Sub), NEW t \in Seq(Sub), NEW d \in Frame,
         Len(s) <= Len(t),
         \A i \in 1 .. Len(s) : t[i].id = s[i].id /\ (t[i].alive => s[i].alive),
         Passed(d, s), AtItsCall(d, s)
  PROVE  Passed(d, t) /\ AtItsCall(d, t)
<1>1. /\ Len(s) \in Nat /\ Len(t) \in Nat
      /\ d.at \in Nat /\ d.n \in Nat /\ d.at <= d.n /\ d.n <= Len(s)
  BY DEF Frame, Passed
<1>2. \A i \in 1 .. d.n : t[i].id = s[i].id /\ (t[i].alive => s[i].alive)
  BY <1>1
<1>3. \A i \in 1 .. d.at : i \in 1 .. d.n
  BY <1>1
<1>4. Passed(d, t)
  <2>1. d.n <= Len(t)
    BY <1>1
  <2>2. \A a \in DOMAIN d.called : \E i \in 1 .. d.at : t[i].id = d.called[a]
    BY <1>2, <1>3 DEF Passed
  <2>3. \A i \in 1 .. d.at : t[i].alive => \E a \in DOMAIN d.called : t[i].id = d.called[a]
    BY <1>2, <1>3 DEF Passed
  <2>4. \A x \in d.due : \E i \in 1 .. d.n : t[i].id = x
    BY <1>2 DEF Passed
  <2>5. \A i \in 1 .. d.n : t[i].alive => t[i].id \in d.due
    BY <1>2 DEF Passed
  <2> QED
    BY <2>1, <2>2, <2>3, <2>4, <2>5 DEF Passed
<1>5. d.calling => d.at \in 1 .. d.n
  BY <1>1 DEF AtItsCall
<1> QED
  BY <1>2, <1>4, <1>5 DEF AtItsCall

(* A delivery that begins has passed nobody.                               *)
LEMMA BeginsPassed ==
  ASSUME NEW s \in Seq(Sub), InOrder(s), NEW is_tick \in BOOLEAN, NEW d,
         d = [at |-> 0, n |-> Len(s), calling |-> FALSE, tick |-> is_tick,
              due |-> IdsOf(Alive(s)), called |-> <<>>, overtaken |-> {}]
  PROVE  d \in Frame /\ Passed(d, s) /\ AtItsCall(d, s) /\ d.tick = is_tick
<1>1. Len(s) \in Nat /\ DOMAIN s = 1 .. Len(s) /\ \A i \in 1 .. Len(s) : s[i] \in Sub
  OBVIOUS
<1>2. /\ d.at = 0 /\ d.n = Len(s) /\ ~d.calling /\ d.due = LiveIds(s) /\ d.called = <<>>
      /\ d.tick = is_tick
  BY SweptIds
<1>3. /\ \A x \in LiveIds(s) : \E i \in 1 .. Len(s) : s[i].id = x
      /\ \A i \in 1 .. Len(s) : s[i].alive => s[i].id \in LiveIds(s)
      /\ LiveIds(s) \in SUBSET Nat
  BY <1>1 DEF LiveIds, Sub
<1>4. d \in Frame
  BY <1>1, <1>3, SweptIds DEF Frame
<1>5. DOMAIN d.called = {}
  BY <1>2
<1>6. Passed(d, s)
  BY <1>1, <1>2, <1>3, <1>5 DEF Passed
<1> QED
  BY <1>2, <1>4, <1>6 DEF AtItsCall

(* The next subscriber is called after all that were, for its id is higher *)
(* than theirs.                                                            *)
Turned(d, s) ==
  LET x == s[d.at + 1]
  IN  [d EXCEPT !.at = @ + 1, !.calling = x.alive,
                !.called = @ \o (IF x.alive THEN <<x.id>> ELSE <<>>)]

(* Its next turn passes one more, and calls it if it is still subscribed.  *)
LEMMA TurnPasses ==
  ASSUME NEW s \in Seq(Sub), InOrder(s), NEW d \in Frame, Passed(d, s), d.at < d.n
  PROVE  /\ Turned(d, s) \in Frame /\ Passed(Turned(d, s), s) /\ AtItsCall(Turned(d, s), s)
         /\ Turned(d, s).tick = d.tick
<1> DEFINE p == d.at + 1
           x == s[p]
           e == Turned(d, s)
<1>1. /\ Len(s) \in Nat /\ DOMAIN s = 1 .. Len(s) /\ d.at \in Nat /\ d.n \in Nat
      /\ d.n <= Len(s) /\ d.called \in Seq(Nat) /\ p \in 1 .. d.n /\ p \in DOMAIN s
  BY DEF Frame, Passed
<1>2. x \in Sub /\ x.id \in Nat /\ x.alive \in BOOLEAN
  <2>1. x \in Sub
    BY <1>1
  <2> QED
    BY <2>1 DEF Sub
<1> DEFINE new == IF x.alive THEN <<x.id>> ELSE <<>>
           c == d.called \o new
<1>3. c \in Seq(Nat)
  BY <1>1, <1>2
<1>4. e = [d EXCEPT !.at = p, !.calling = x.alive, !.called = c]
  BY DEF Turned
<1> HIDE DEF x, c, e
<1>5. e \in Frame
  <2>1. d \in Frame /\ p \in Nat
    BY <1>1
  <2> HIDE DEF p
  <2> QED
    BY ONLY <1>2, <1>3, <1>4, <2>1 DEF Frame
<1>6. /\ e.at = p /\ e.n = d.n /\ e.calling = x.alive /\ e.called = c /\ e.tick = d.tick
      /\ e.due = d.due
  BY <1>4 DEF Frame
<1>7. CASE x.alive
  <2> DEFINE l == Len(d.called)
  <2>1. /\ l \in Nat /\ DOMAIN d.called = 1 .. l /\ DOMAIN c = 1 .. l + 1 /\ Len(c) = l + 1
        /\ c[l + 1] = x.id /\ \A a \in 1 .. l : c[a] = d.called[a]
    BY <1>1, <1>2, <1>7 DEF c
  <2> HIDE DEF l, p
  <2>2. \A a \in 1 .. l + 1 : a = l + 1 \/ a \in 1 .. l
    BY ONLY <2>1
  <2>3. \A i \in 1 .. p : i = p \/ i \in 1 .. d.at
    BY ONLY <1>1 DEF p
  <2>4. \A i \in 1 .. d.at : i \in 1 .. p /\ i \in DOMAIN s /\ i < p
    BY ONLY <1>1 DEF p
  <2>5. \A a \in 1 .. l : \E i \in 1 .. d.at : s[i].id = c[a]
    BY <2>1 DEF Passed
  <2>6. \A a \in 1 .. l : c[a] < x.id
    BY <1>1, <2>4, <2>5 DEF InOrder, x
  <2>7. \A a, b \in 1 .. l + 1 : a < b => c[a] < c[b]
    <3> SUFFICES ASSUME NEW a \in 1 .. l + 1, NEW b \in 1 .. l + 1, a < b
                 PROVE  c[a] < c[b]
      OBVIOUS
    <3>1. a \in 1 .. l
      BY ONLY <2>1, a \in 1 .. l + 1, b \in 1 .. l + 1, a < b
    <3>2. CASE b = l + 1
      BY <2>1, <2>6, <3>1, <3>2
    <3>3. CASE b \in 1 .. l
      BY <2>1, <3>1, <3>3 DEF Passed
    <3> QED
      BY <2>2, <3>2, <3>3
  <2>8. \A a \in 1 .. l + 1 : c[a] \in d.due
    <3>1. x.id \in d.due
      BY <1>1, <1>7 DEF Passed, x
    <3> QED
      BY <2>1, <2>2, <3>1 DEF Passed
  <2>9. \A a \in 1 .. l + 1 : \E i \in 1 .. p : s[i].id = c[a]
    <3>1. p \in 1 .. p
      BY <1>1
    <3> QED
      BY <2>1, <2>2, <2>4, <2>5, <3>1 DEF x
  <2>10. \A i \in 1 .. p : s[i].alive => \E a \in 1 .. l + 1 : s[i].id = c[a]
    <3>1. \A i \in 1 .. d.at : s[i].alive => \E a \in 1 .. l : s[i].id = c[a]
      BY <2>1 DEF Passed
    <3>2. l + 1 \in 1 .. l + 1 /\ \A a \in 1 .. l : a \in 1 .. l + 1
      BY ONLY <2>1
    <3> QED
      BY <2>1, <2>3, <3>1, <3>2 DEF x
  <2>11. Passed(e, s)
    <3>1. p <= d.n
      BY <1>1
    <3>2. /\ \A y \in d.due : \E i \in 1 .. d.n : s[i].id = y
          /\ \A i \in 1 .. d.n : s[i].alive => s[i].id \in d.due
      BY DEF Passed
    <3>3. e.at <= e.n /\ e.n <= Len(s)
      BY ONLY <1>1, <1>6, <3>1
    <3>4. /\ \A a, b \in DOMAIN e.called : a < b => e.called[a] < e.called[b]
          /\ \A a \in DOMAIN e.called : e.called[a] \in e.due
      BY ONLY <1>6, <2>1, <2>7, <2>8
    <3>5. /\ \A a \in DOMAIN e.called : \E i \in 1 .. e.at : s[i].id = e.called[a]
          /\ \A i \in 1 .. e.at :
               s[i].alive => \E a \in DOMAIN e.called : s[i].id = e.called[a]
      BY ONLY <1>6, <2>1, <2>9, <2>10
    <3>6. /\ \A y \in e.due : \E i \in 1 .. e.n : s[i].id = y
          /\ \A i \in 1 .. e.n : s[i].alive => s[i].id \in e.due
      BY ONLY <1>6, <3>2
    <3> QED
      BY ONLY <3>3, <3>4, <3>5, <3>6 DEF Passed
  <2>12. AtItsCall(e, s)
    <3>1. p >= 1 /\ c # <<>> /\ c[Len(c)] = s[p].id
      BY <1>1, <2>1 DEF x
    <3> QED
      BY <1>6, <3>1 DEF AtItsCall
  <2> QED
    BY <1>5, <1>6, <2>11, <2>12 DEF e
<1>8. CASE ~x.alive
  <2>1. c = d.called
    BY <1>1, <1>8 DEF c
  <2>2. \A i \in 1 .. p : i = p \/ i \in 1 .. d.at
    BY <1>1
  <2>3. \A i \in 1 .. d.at : i \in 1 .. p
    BY <1>1
  <2> HIDE DEF p
  <2>4. \A a \in DOMAIN c : \E i \in 1 .. p : s[i].id = c[a]
    BY <2>1, <2>3 DEF Passed
  <2>5. \A i \in 1 .. p : s[i].alive => \E a \in DOMAIN c : s[i].id = c[a]
    BY <1>8, <2>1, <2>2 DEF Passed, x
  <2>6. p <= d.n
    BY <1>1
  <2>7. Passed(e, s) /\ AtItsCall(e, s)
    <3>1. /\ \A a, b \in DOMAIN c : a < b => c[a] < c[b]
          /\ \A a \in DOMAIN c : c[a] \in d.due
          /\ \A y \in d.due : \E i \in 1 .. d.n : s[i].id = y
          /\ \A i \in 1 .. d.n : s[i].alive => s[i].id \in d.due
      BY <2>1 DEF Passed
    <3> QED
      BY ONLY <1>1, <1>6, <1>8, <2>4, <2>5, <2>6, <3>1 DEF Passed, AtItsCall
  <2> QED
    BY <1>5, <1>6, <2>7 DEF e
<1> QED
  BY <1>2, <1>7, <1>8

(* --- the steps --------------------------------------------------------- *)

(* The count g_frame_live, in terms of the list.                           *)
LEMMA Cards ==
  ASSUME Typed, SubsInOrder, Counted
  PROVE  /\ IsFiniteSet(LiveIds(g_frame_subs)) /\ g_frame_live \in Nat
         /\ LiveIds(g_frame_subs) \subseteq 1 .. g_frame_next_id - 1
         /\ \A i \in DOMAIN g_frame_subs : g_frame_subs[i].alive => g_frame_live > 0
<1> DEFINE L == LiveIds(g_frame_subs)
<1>1. L \subseteq 1 .. g_frame_next_id - 1
  BY DEF LiveIds, SubsInOrder, Numbered
<1>2. IsFiniteSet(1 .. g_frame_next_id - 1)
  BY FS_Interval DEF Typed
<1>3. IsFiniteSet(L)
  BY <1>1, <1>2, FS_Subset
<1>4. \A i \in DOMAIN g_frame_subs : g_frame_subs[i].alive => L # {}
  BY DEF LiveIds
<1> HIDE DEF L
<1>5. Cardinality(L) \in Nat /\ (Cardinality(L) = 0 <=> L = {})
  BY <1>3, FS_CardinalityType, FS_EmptySet
<1> QED
  BY <1>1, <1>3, <1>4, <1>5 DEF Counted, L

(* The clock is off and nobody is subscribed.                              *)
LEMMA InitHolds == Init => IInv
<1> SUFFICES ASSUME Init
             PROVE  IInv
  OBVIOUS
<1>1. g_frame_subs = <<>> /\ deliveries = <<>> /\ DOMAIN g_frame_subs = {}
      /\ DOMAIN deliveries = {}
  BY DEF Init
<1>2. LiveIds(g_frame_subs) = {}
  BY <1>1 DEF LiveIds
<1>3. Counted
  BY <1>2, FS_EmptySet DEF Counted, Init
<1>4. ClockSays /\ ~InTick(clock)
  <2>1. PICK b \in {"gtk", "win32", "android"} : clock = NoClock(b)
    BY BackendsAssumption DEF Init
  <2>2. CASE b = "gtk"
    BY <2>1, <2>2 DEF NoClock, ClockSays, Says, GtkSays, GtkClock, InTick, Init
  <2>3. CASE b = "win32"
    BY <2>1, <2>3 DEF NoClock, ClockSays, Says, Win32Says, Win32Clock, InTick, Init
  <2>4. CASE b = "android"
    BY <2>1, <2>4 DEF NoClock, ClockSays, Says, AndroidSays, AndroidClock, InTick, Init
  <2> QED
    BY <2>2, <2>3, <2>4
<1>5. Typed
  <2>1. <<>> \in Seq(Sub) /\ <<>> \in Seq(Frame)
    OBVIOUS
  <2>2. g_frame_native \in BOOLEAN /\ g_frame_timer \in BOOLEAN /\ g_frame_mode \in Modes
    BY DEF Init, Modes
  <2>3. g_frame_next_id = 1
    BY DEF Init
  <2> QED
    BY <1>1, <2>1, <2>2, <2>3 DEF Typed
<1>6. SubsInOrder /\ ReleasedGone /\ FramesHold
  BY <1>1 DEF SubsInOrder, InOrder, Numbered, ReleasedGone, FramesHold, Init
<1>7. ModeSays
  BY DEF ModeSays, Init
<1> QED
  BY <1>3, <1>4, <1>5, <1>6, <1>7 DEF IInv, TicksAreFrames

(* The end of a cancel, and of a delivery.                                 *)
LEMMA EndKeeps ==
  ASSUME Typed, SubsInOrder, ReleasedGone, ClockSays, ModeSays,
         NEW subs \in Seq(Sub), InOrder(subs), Numbered(subs, g_frame_next_id),
         \A i \in DOMAIN subs : subs[i].id \notin released,
         g_frame_next_id' = g_frame_next_id,
         g_frame_live' = Cardinality(LiveIds(subs)), g_frame_live' \in Nat,
         g_frame_live' > 0 => g_frame_live > 0,
         deliveries' \in Seq(Frame),
         \A k \in DOMAIN deliveries' :
           Passed(deliveries'[k], subs) /\ AtItsCall(deliveries'[k], subs),
         NEW is_tick \in BOOLEAN,
         InTick(clock) /\ ~is_tick => \E k \in DOMAIN deliveries' : deliveries'[k].tick,
         SweepAndStop(subs, is_tick)
  PROVE  IInv'
<1>1. CASE MaySweep
  <2> DEFINE s == Alive(subs)
  <2>1. g_frame_subs' = s /\ released' = released \cup (IdsOf(subs) \ IdsOf(s))
    BY <1>1 DEF SweepAndStop, Sweep
  <2>2. /\ s \in Seq(Sub) /\ InOrder(s) /\ LiveIds(s) = LiveIds(subs)
        /\ \A j \in DOMAIN s : \E i \in DOMAIN subs : s[j] = subs[i]
    BY AliveFacts, SweptIds
  <2> HIDE DEF s
  <2>3. DOMAIN deliveries' = {}
    BY <1>1 DEF MaySweep
  <2>4. Numbered(s, g_frame_next_id) /\ \A j \in DOMAIN s : s[j].id \notin released
    BY <2>2 DEF Numbered
  <2>5. ReleasedGone'
    <3>1. IdsOf(subs) \subseteq 1 .. g_frame_next_id - 1
      BY DEF IdsOf, Numbered
    <3>2. \A j \in DOMAIN s : s[j].id \in IdsOf(s)
      BY DEF IdsOf
    <3> QED
      BY <2>1, <2>4, <3>1, <3>2 DEF ReleasedGone
  <2>6. SubsInOrder' /\ Counted' /\ FramesHold'
    BY <2>1, <2>2, <2>3, <2>4 DEF SubsInOrder, Counted, FramesHold
  <2>7. CASE g_frame_live' = 0
    <3>1. StopAll(is_tick)
      BY <1>1, <2>7 DEF SweepAndStop
    <3>2. Says(IF g_frame_native THEN Stopped(clock) ELSE clock, FALSE)
      BY StoppedSays DEF ClockSays, Typed
    <3> DEFINE c == IF g_frame_native THEN Stopped(clock) ELSE clock
    <3>3. InTick(c) => InTick(clock)
      BY StoppedSays DEF ClockSays, Typed
    <3> HIDE DEF c
    <3>4. clock' = Ended(c, is_tick) /\ ~g_frame_native'
      BY <3>1 DEF StopAll, c
    <3>5. Says(clock', FALSE) /\ (InTick(clock') => InTick(clock) /\ ~is_tick)
      BY <3>2, <3>3, <3>4, EndedSays DEF c
    <3>6. ClockSays' /\ TicksAreFrames'
      BY <3>1, <3>4, <3>5 DEF ClockSays, TicksAreFrames, StopAll
    <3>7. ~g_frame_native' /\ ~g_frame_timer' /\ g_frame_mode' = "none"
      BY <3>1 DEF StopAll
    <3>8. g_frame_native' \in BOOLEAN /\ g_frame_timer' \in BOOLEAN
      BY <3>1 DEF StopAll
    <3>9. Typed'
      BY <2>1, <2>2, <3>7, <3>8 DEF Typed, Modes
    <3>10. ModeSays'
      BY <2>7, <3>7 DEF ModeSays
    <3> QED
      BY <2>5, <2>6, <3>6, <3>9, <3>10 DEF IInv
  <2>8. CASE g_frame_live' # 0
    <3>1. clock' = Ended(clock, is_tick) /\ UNCHANGED clockVars
      BY <2>8 DEF SweepAndStop
    <3>2. ClockSays' /\ TicksAreFrames'
      BY <3>1, EndedSays DEF ClockSays, TicksAreFrames, Typed, clockVars
    <3>3. Typed' /\ ModeSays'
      BY <2>1, <2>2, <2>8, <3>1 DEF Typed, ModeSays, clockVars
    <3> QED
      BY <2>5, <2>6, <3>2, <3>3 DEF IInv
  <2> QED
    BY <2>7, <2>8
<1>2. CASE ~MaySweep
  <2>1. /\ g_frame_subs' = subs /\ UNCHANGED released
        /\ clock' = Ended(clock, is_tick) /\ UNCHANGED clockVars
    BY <1>2 DEF SweepAndStop
  <2>2. ClockSays' /\ TicksAreFrames'
    BY <2>1, EndedSays DEF ClockSays, TicksAreFrames, Typed, clockVars
  <2>3. Typed' /\ ModeSays'
    BY <1>2, <2>1 DEF Typed, ModeSays, clockVars, MaySweep, Dispatching
  <2>4. SubsInOrder' /\ ReleasedGone' /\ Counted' /\ FramesHold'
    BY <2>1 DEF SubsInOrder, ReleasedGone, Counted, FramesHold
  <2> QED
    BY <2>2, <2>3, <2>4 DEF IInv
<1> QED
  BY <1>1, <1>2

(* What starts the clock, in Add and in a driving tick.                    *)
LEMMA StartSays ==
  ASSUME Typed, ClockSays, StartNative
  PROVE  /\ ClockSays' /\ g_frame_native' \in BOOLEAN
         /\ InTick(clock') => InTick(clock)
<1>1. CASE clock' = Started(clock) /\ g_frame_native' = TRUE
  BY <1>1, StartedSays DEF Typed, ClockSays
<1>2. CASE ~Runs(clock) /\ UNCHANGED clock /\ g_frame_native' = FALSE
  BY <1>2, NotStartedSays DEF Typed, ClockSays
<1> QED
  BY <1>1, <1>2 DEF StartNative

(* on_frame puts the new id at the end of the list, beyond what any        *)
(* delivery will come to.                                                  *)
LEMMA AddKeeps ==
  ASSUME IInv, Add
  PROVE  IInv'
<1> DEFINE s == g_frame_subs
           x == [id |-> g_frame_next_id, alive |-> TRUE]
           t == Append(s, x)
<1>1. Typed /\ SubsInOrder /\ ReleasedGone /\ Counted /\ FramesHold /\ ClockSays /\ ModeSays
      /\ TicksAreFrames
  BY DEF IInv
<1>2. /\ g_frame_subs' = t /\ g_frame_next_id' = g_frame_next_id + 1
      /\ g_frame_live' = g_frame_live + 1 /\ deliveries' = deliveries /\ released' = released
  BY DEF Add
<1>3. x \in Sub /\ x.id = g_frame_next_id /\ x.alive
  BY <1>1 DEF Sub, Typed
<1>4. s \in Seq(Sub) /\ Len(s) \in Nat /\ DOMAIN s = 1 .. Len(s) /\ g_frame_next_id \in Nat
  BY <1>1 DEF Typed
<1> HIDE DEF x
<1>5. /\ t \in Seq(Sub) /\ Len(t) = Len(s) + 1 /\ DOMAIN t = 1 .. Len(s) + 1
      /\ t[Len(s) + 1] = x /\ \A i \in 1 .. Len(s) : t[i] = s[i]
  BY <1>3, <1>4
<1> HIDE DEF t
<1>6. \A i \in DOMAIN t : i = Len(s) + 1 \/ i \in 1 .. Len(s)
  BY ONLY <1>4, <1>5
<1>7. /\ \A i \in 1 .. Len(s) : s[i].id \in 1 .. g_frame_next_id - 1
      /\ \A i \in 1 .. Len(s) : s[i].id \notin released
      /\ released \subseteq 1 .. g_frame_next_id - 1
  BY <1>1, <1>4 DEF SubsInOrder, Numbered, ReleasedGone
<1>8. InOrder(t)
  <2> SUFFICES ASSUME NEW i \in DOMAIN t, NEW j \in DOMAIN t, i < j
               PROVE  t[i].id < t[j].id
    BY DEF InOrder
  <2>1. i \in 1 .. Len(s)
    BY ONLY <1>4, <1>5, i \in DOMAIN t, j \in DOMAIN t, i < j
  <2>2. CASE j = Len(s) + 1
    BY <1>3, <1>4, <1>5, <1>7, <2>1, <2>2
  <2>3. CASE j \in 1 .. Len(s)
    BY <1>1, <1>4, <1>5, <2>1, <2>3 DEF SubsInOrder, InOrder
  <2> QED
    BY <1>6, <2>2, <2>3
<1>9. Numbered(t, g_frame_next_id + 1)
  <2> SUFFICES ASSUME NEW i \in DOMAIN t
               PROVE  t[i].id \in 1 .. g_frame_next_id
    BY <1>4 DEF Numbered
  <2>1. CASE i = Len(s) + 1
    BY <1>1, <1>3, <1>5, <2>1 DEF Typed
  <2>2. CASE i \in 1 .. Len(s)
    BY <1>4, <1>5, <1>7, <2>2
  <2> QED
    BY <1>6, <2>1, <2>2
<1>10. ReleasedGone'
  <2>1. released \subseteq 1 .. (g_frame_next_id + 1) - 1
    BY ONLY <1>4, <1>7
  <2>2. g_frame_next_id \notin released
    BY ONLY <1>4, <1>7
  <2>3. \A i \in DOMAIN t : t[i].id \notin released
    BY <1>3, <1>5, <1>6, <1>7, <2>2
  <2> QED
    BY <1>2, <2>1, <2>3 DEF ReleasedGone
<1>11. LiveIds(t) = LiveIds(s) \cup {g_frame_next_id}
  <2>1. LiveIds(t) \subseteq LiveIds(s) \cup {g_frame_next_id}
    BY <1>3, <1>4, <1>5, <1>6 DEF LiveIds
  <2>2. \A i \in 1 .. Len(s) : i \in DOMAIN t
    BY ONLY <1>4, <1>5
  <2>3. LiveIds(s) \subseteq LiveIds(t)
    BY <1>4, <1>5, <2>2 DEF LiveIds
  <2>4. Len(s) + 1 \in DOMAIN t
    BY ONLY <1>4, <1>5
  <2>5. g_frame_next_id \in LiveIds(t)
    BY <1>3, <1>5, <2>4 DEF LiveIds
  <2> QED
    BY <2>1, <2>3, <2>5
<1>12. Counted' /\ g_frame_live \in Nat
  <2>1. IsFiniteSet(LiveIds(s)) /\ g_frame_live \in Nat
        /\ LiveIds(s) \subseteq 1 .. g_frame_next_id - 1
    BY <1>1, Cards
  <2>2. g_frame_next_id \notin LiveIds(s)
    BY ONLY <1>4, <2>1
  <2>3. Cardinality(LiveIds(t)) = Cardinality(LiveIds(s)) + 1
    BY <1>11, <2>1, <2>2, FS_AddElement
  <2> QED
    BY <1>1, <1>2, <2>1, <2>3 DEF Counted
<1>13. FramesHold'
  <2> SUFFICES ASSUME NEW k \in DOMAIN deliveries
               PROVE  Passed(deliveries[k], t) /\ AtItsCall(deliveries[k], t)
    BY <1>2 DEF FramesHold
  <2>1. deliveries[k] \in Frame /\ Passed(deliveries[k], s) /\ AtItsCall(deliveries[k], s)
    BY <1>1 DEF Typed, FramesHold
  <2>2. Len(s) <= Len(t)
    BY ONLY <1>4, <1>5
  <2> QED
    BY <1>4, <1>5, <2>1, <2>2, StillPassed
<1>14. Typed' /\ ClockSays' /\ TicksAreFrames' /\ ModeSays'
  <2>1. CASE StartClock
    <3>1. /\ ClockSays' /\ g_frame_native' \in BOOLEAN /\ g_frame_timer' \in BOOLEAN
          /\ g_frame_mode' \in {"watch", "drive"} /\ (InTick(clock') => InTick(clock))
      BY <1>1, <2>1, StartSays DEF StartClock, FallbackSet
    <3>2. Typed'
      BY <1>1, <1>2, <1>4, <1>5, <3>1 DEF Typed, Modes
    <3> QED
      BY <1>1, <1>2, <1>12, <3>1, <3>2 DEF TicksAreFrames, ModeSays
  <2>2. CASE /\ UNCHANGED <<clockVars, clock>>
             /\ ~(g_frame_live = 0 /\ ~Dispatching)
             /\ g_frame_timer \/ g_frame_native
    <3>1. Typed'
      BY <1>1, <1>2, <1>4, <1>5, <2>2 DEF Typed, clockVars
    <3> QED
      BY <1>1, <1>2, <1>12, <2>2, <3>1
      DEF ClockSays, TicksAreFrames, ModeSays, clockVars, Dispatching
  <2> QED
    BY <2>1, <2>2 DEF Add
<1> QED
  BY <1>2, <1>8, <1>9, <1>10, <1>12, <1>13, <1>14 DEF IInv, SubsInOrder

(* frame_cancel only marks, unless no delivery is under way.               *)
LEMMA CancelKeeps ==
  ASSUME IInv, NEW id, Cancel(id)
  PROVE  IInv'
<1> DEFINE s == g_frame_subs
<1>1. Typed /\ SubsInOrder /\ ReleasedGone /\ Counted /\ FramesHold /\ ClockSays /\ ModeSays
      /\ TicksAreFrames
  BY DEF IInv
<1>2. PICK i \in DOMAIN s : Subscribed(s[i], id)
                            /\ SweepAndStop([s EXCEPT ![i].alive = FALSE], FALSE)
  BY DEF Cancel
<1> DEFINE t == [s EXCEPT ![i].alive = FALSE]
<1>3. /\ s \in Seq(Sub) /\ DOMAIN s = 1 .. Len(s) /\ Len(s) \in Nat
      /\ \A j \in DOMAIN s : s[j] \in Sub
  BY <1>1 DEF Typed
<1>4. /\ t \in Seq(Sub) /\ DOMAIN t = DOMAIN s /\ Len(t) = Len(s)
      /\ \A j \in DOMAIN s : t[j] = IF j = i THEN [s[i] EXCEPT !.alive = FALSE] ELSE s[j]
  <2>1. [s[i] EXCEPT !.alive = FALSE] \in Sub
    BY <1>2, <1>3 DEF Sub
  <2> DEFINE y == [s[i] EXCEPT !.alive = FALSE]
  <2> HIDE DEF y
  <2>2. t = [s EXCEPT ![i] = y]
    BY DEF y
  <2> HIDE DEF t
  <2>3. /\ t \in Seq(Sub) /\ DOMAIN t = DOMAIN s /\ Len(t) = Len(s)
        /\ \A j \in DOMAIN s : t[j] = IF j = i THEN y ELSE s[j]
    BY <1>2, <1>3, <2>1, <2>2 DEF y
  <2> QED
    BY <2>3 DEF y
<1>5. /\ \A j \in DOMAIN s : t[j].id = s[j].id /\ (t[j].alive <=> s[j].alive /\ j # i)
      /\ s[i].id = id /\ s[i].alive
  BY <1>2, <1>3, <1>4 DEF Sub, Subscribed
<1>6. SweepAndStop(t, FALSE)
  BY <1>2
<1> HIDE DEF t
<1>7. InOrder(t) /\ Numbered(t, g_frame_next_id) /\ \A j \in DOMAIN t : t[j].id \notin released
  BY <1>1, <1>4, <1>5 DEF SubsInOrder, InOrder, Numbered, ReleasedGone
<1>8. LiveIds(t) = LiveIds(s) \ {id} /\ id \in LiveIds(s)
  <2>1. ASSUME NEW j \in DOMAIN s, s[j].id = id
        PROVE  j = i
    <3>1. s[i].id \in Nat
      BY <1>2, <1>3 DEF Sub
    <3>2. ~(i < j) /\ ~(j < i)
      BY <1>1, <1>2, <1>5, <2>1, <3>1 DEF SubsInOrder, InOrder
    <3>3. i \in 1 .. Len(s) /\ j \in 1 .. Len(s)
      BY <1>2, <1>3
    <3> QED
      BY ONLY <1>3, <3>2, <3>3
  <2> QED
    BY <1>2, <1>4, <1>5, <2>1 DEF LiveIds
<1>9. /\ g_frame_live' = Cardinality(LiveIds(t)) /\ g_frame_live' \in Nat
      /\ g_frame_live > 0
  <2>1. IsFiniteSet(LiveIds(s)) /\ g_frame_live \in Nat /\ g_frame_live > 0
    BY <1>1, <1>2, <1>5, Cards
  <2>2. Cardinality(LiveIds(t)) = Cardinality(LiveIds(s)) - 1
    BY <1>8, <2>1, FS_RemoveElement
  <2> QED
    BY <1>1, <2>1, <2>2 DEF Cancel, Counted
<1>10. deliveries' = deliveries /\ g_frame_next_id' = g_frame_next_id
  BY DEF Cancel
<1>11. \A k \in DOMAIN deliveries : Passed(deliveries[k], t) /\ AtItsCall(deliveries[k], t)
  <2> SUFFICES ASSUME NEW k \in DOMAIN deliveries
               PROVE  Passed(deliveries[k], t) /\ AtItsCall(deliveries[k], t)
    OBVIOUS
  <2>1. deliveries[k] \in Frame /\ Passed(deliveries[k], s) /\ AtItsCall(deliveries[k], s)
    BY <1>1 DEF Typed, FramesHold
  <2>2. Len(s) <= Len(t)
    BY <1>3, <1>4
  <2> QED
    BY <1>3, <1>4, <1>5, <2>1, <2>2, StillPassed
<1>12. deliveries' \in Seq(Frame)
  BY <1>1, <1>10 DEF Typed
<1>13. InTick(clock) /\ ~FALSE => \E k \in DOMAIN deliveries' : deliveries'[k].tick
  BY <1>1, <1>10 DEF TicksAreFrames
<1> QED
  BY <1>1, <1>4, <1>6, <1>7, <1>9, <1>10, <1>11, <1>12, <1>13, EndKeeps

(* A delivery begins: by a native clock, or by the fallback timer.         *)
LEMMA DeliverKeeps ==
  ASSUME Typed, SubsInOrder, FramesHold, NEW is_tick \in BOOLEAN, Deliver(is_tick),
         UNCHANGED g_frame_subs
  PROVE  /\ deliveries' \in Seq(Frame) /\ FramesHold' /\ Dispatching'
         /\ is_tick => \E k \in DOMAIN deliveries' : deliveries'[k].tick
         /\ (\E k \in DOMAIN deliveries : deliveries[k].tick)
              => \E k \in DOMAIN deliveries' : deliveries'[k].tick
<1> DEFINE d == [at |-> 0, n |-> Len(g_frame_subs), calling |-> FALSE, tick |-> is_tick,
                 due |-> IdsOf(Alive(g_frame_subs)), called |-> <<>>, overtaken |-> {}]
           l == Len(deliveries)
<1>1. deliveries' = <<d>> \o deliveries
  BY DEF Deliver
<1>2. /\ d \in Frame /\ Passed(d, g_frame_subs) /\ AtItsCall(d, g_frame_subs)
      /\ d.tick = is_tick
  BY BeginsPassed DEF Typed, SubsInOrder
<1> HIDE DEF d
<1>3. /\ deliveries \in Seq(Frame) /\ l \in Nat /\ DOMAIN deliveries = 1 .. l
      /\ deliveries' \in Seq(Frame) /\ DOMAIN deliveries' = 1 .. l + 1 /\ deliveries'[1] = d
      /\ \A k \in 2 .. l + 1 : deliveries'[k] = deliveries[k - 1]
  BY <1>1, <1>2 DEF Typed
<1> HIDE DEF l
<1>4. /\ \A k \in 1 .. l + 1 : k = 1 \/ (k \in 2 .. l + 1 /\ k - 1 \in 1 .. l)
      /\ \A k \in 1 .. l : k + 1 \in 2 .. l + 1 /\ k + 1 \in 1 .. l + 1 /\ (k + 1) - 1 = k
      /\ 1 \in 1 .. l + 1
  <2>1. l \in Nat
    BY <1>3
  <2> QED
    BY ONLY <2>1
<1>5. FramesHold'
  BY <1>2, <1>3, <1>4 DEF FramesHold
<1>6. Dispatching'
  BY <1>3, <1>4 DEF Dispatching
<1>7. ASSUME NEW k \in DOMAIN deliveries, deliveries[k].tick
      PROVE  \E j \in DOMAIN deliveries' : deliveries'[j].tick
  <2>1. k + 1 \in DOMAIN deliveries' /\ deliveries'[k + 1] = deliveries[k]
    BY <1>3, <1>4
  <2> QED
    BY <1>7, <2>1
<1> QED
  BY <1>2, <1>3, <1>4, <1>5, <1>6, <1>7

(* A delivery begins, from whichever clock.                                *)
LEMMA DispatchKeeps ==
  ASSUME IInv, NEW c, Says(c, g_frame_native), Dispatch(c)
  PROVE  IInv'
<1>1. Typed /\ SubsInOrder /\ ReleasedGone /\ Counted /\ FramesHold /\ ClockSays /\ ModeSays
      /\ TicksAreFrames
  BY DEF IInv
<1>2. UNCHANGED <<subVars, g_frame_native, g_frame_timer, g_frame_mode>>
  BY DEF Dispatch
<1>3. SubsInOrder' /\ ReleasedGone' /\ Counted'
  BY <1>1, <1>2 DEF SubsInOrder, ReleasedGone, Counted, subVars
<1>4. CASE g_frame_live = 0
  <2>1. clock' = TickEnded(c) /\ UNCHANGED deliveries
    BY <1>4 DEF Dispatch
  <2>2. Says(TickEnded(c), g_frame_native) /\ ~InTick(TickEnded(c))
    BY <1>1, TickEndedSays DEF Typed
  <2>3. Says(clock', g_frame_native) /\ ~InTick(clock')
    BY <2>1, <2>2
  <2>4. Typed' /\ FramesHold' /\ ClockSays' /\ TicksAreFrames' /\ ModeSays'
    BY <1>1, <1>2, <2>1, <2>3
    DEF Typed, FramesHold, ClockSays, TicksAreFrames, ModeSays, subVars, Dispatching
  <2> QED
    BY <1>3, <2>4 DEF IInv
<1>5. CASE g_frame_live # 0
  <2>1. clock' = c /\ Deliver(TRUE) /\ UNCHANGED g_frame_subs
    BY <1>2, <1>5 DEF Dispatch, subVars
  <2>2. /\ deliveries' \in Seq(Frame) /\ FramesHold' /\ Dispatching'
        /\ \E k \in DOMAIN deliveries' : deliveries'[k].tick
    BY <1>1, <2>1, DeliverKeeps
  <2>3. Typed' /\ ClockSays' /\ TicksAreFrames' /\ ModeSays'
    BY <1>1, <1>2, <2>1, <2>2 DEF Typed, ClockSays, TicksAreFrames, ModeSays, subVars
  <2> QED
    BY <1>3, <2>2, <2>3 DEF IInv
<1> QED
  BY <1>4, <1>5

(* Nothing changes but a clock that still says what it is.                 *)
LEMMA ClockKeeps ==
  ASSUME IInv, Says(clock', g_frame_native), InTick(clock') => InTick(clock),
         UNCHANGED <<subVars, g_frame_native, g_frame_timer, g_frame_mode, deliveries>>
  PROVE  IInv'
<1>1. Typed' /\ SubsInOrder' /\ ReleasedGone' /\ Counted' /\ FramesHold'
  BY DEF IInv, Typed, SubsInOrder, ReleasedGone, Counted, FramesHold, subVars
<1>2. ClockSays' /\ TicksAreFrames' /\ ModeSays'
  BY DEF IInv, ClockSays, TicksAreFrames, ModeSays, Dispatching, subVars
<1> QED
  BY <1>1, <1>2 DEF IInv

(* A frame of GTK's tick callback.                                         *)
LEMMA GtkFrameKeeps ==
  ASSUME IInv, GtkFrame
  PROVE  IInv'
<1> DEFINE c == [clock EXCEPT !.in_tick = TRUE]
<1>1. GtkSays(clock, g_frame_native)
  BY DEF IInv, ClockSays, Says, GtkFrame, Win32Says, Win32Clock, AndroidSays, AndroidClock
<1>2. Says(c, g_frame_native)
  BY <1>1 DEF Says, GtkSays, GtkClock
<1>3. Dispatch(c)
  BY DEF GtkFrame
<1> QED
  BY <1>2, <1>3, DispatchKeeps

(* The message of Win32's thread arrives.                                  *)
LEMMA Win32FrameKeeps ==
  ASSUME IInv, Win32Frame
  PROVE  IInv'
<1> DEFINE c == [clock EXCEPT !.posted = 0]
<1>1. Win32Says(clock, g_frame_native)
  BY DEF IInv, ClockSays, Says, Win32Frame, GtkSays, GtkClock, AndroidSays, AndroidClock
<1>2. Win32Says(c, g_frame_native) /\ ~InTick(c)
  BY <1>1 DEF Win32Says, Win32Clock, InTick
<1>3. Dispatch(c) \/ Drop(c)
  BY DEF Win32Frame
<1> HIDE DEF c
<1>4. CASE Dispatch(c)
  BY <1>2, <1>4, DispatchKeeps DEF Says
<1>5. CASE Drop(c)
  BY <1>2, <1>5, ClockKeeps DEF Says, Drop, clockVars
<1> QED
  BY <1>3, <1>4, <1>5

(* The callback that runs is the one posted for now, and posts the next.   *)
LEMMA AndroidFrameKeeps ==
  ASSUME IInv, AndroidFrame
  PROVE  IInv'
<1> DEFINE c == AndroidPosted(clock)
           p == clock.posted
           q == Tail(p)
<1>1. AndroidSays(clock, g_frame_native) /\ p # <<>>
  BY DEF IInv, ClockSays, Says, AndroidFrame, GtkSays, GtkClock, Win32Says, Win32Clock
<1>2. /\ clock \in AndroidClock /\ p \in Seq(Nat) /\ clock.gen \in Nat
      /\ clock.running \in BOOLEAN
      /\ \A i \in DOMAIN p : p[i] <= clock.gen
  BY <1>1 DEF AndroidSays, AndroidClock
<1>3. /\ Len(q) \in Nat /\ Len(p) = Len(q) + 1 /\ DOMAIN p = 1 .. Len(q) + 1 /\ q \in Seq(Nat)
      /\ DOMAIN q = 1 .. Len(q) /\ \A i \in 1 .. Len(q) : q[i] = p[i + 1]
      /\ Head(p) = p[1]
  BY <1>1, <1>2
<1>4. /\ \A i \in 1 .. Len(q) : i + 1 \in DOMAIN p /\ i + 1 # 1
      /\ 1 \in DOMAIN p
  BY <1>3
<1>5. \A i \in 1 .. Len(q) : q[i] <= clock.gen
  BY <1>2, <1>3, <1>4
<1>6. AndroidSays(c, g_frame_native) /\ ~InTick(c)
  <2>1. CASE clock.running /\ p[1] = clock.gen
    <3> DEFINE r == Append(q, clock.gen)
               l == Len(q)
    <3>1. \A i \in 1 .. l : q[i] # clock.gen
      <4>1. PICK i \in DOMAIN p : \A j \in DOMAIN p : p[j] = clock.gen <=> j = i
        BY <1>1, <2>1 DEF AndroidSays
      <4>2. i = 1
        BY <1>4, <2>1, <4>1
      <4> QED
        BY <1>3, <1>4, <4>1, <4>2
    <3>2. /\ r \in Seq(Nat) /\ DOMAIN r = 1 .. l + 1 /\ r[l + 1] = clock.gen
          /\ \A i \in 1 .. l : r[i] = q[i]
      BY <1>2, <1>3
    <3>3. l \in Nat
      BY <1>3
    <3>4. c = [clock EXCEPT !.posted = r]
      BY <1>3, <2>1 DEF AndroidPosted
    <3> HIDE DEF c, r, l, p, q
    <3>5. c \in AndroidClock /\ c.posted = r /\ c.running = clock.running /\ c.gen = clock.gen
          /\ c.backend = "android"
      BY ONLY <1>2, <3>2, <3>4 DEF AndroidClock
    <3>6. /\ \A i \in 1 .. l + 1 : i = l + 1 \/ (i \in 1 .. l /\ i # l + 1)
          /\ l + 1 \in 1 .. l + 1
      BY ONLY <3>3
    <3>7. \A i \in 1 .. l + 1 : r[i] <= clock.gen
      BY <1>2, <1>5, <3>2, <3>6, SMTT(30) DEF l
    <3>8. \A j \in 1 .. l + 1 : r[j] = clock.gen <=> j = l + 1
      BY <3>1, <3>2, <3>6
    <3>9. g_frame_native <=> c.running
      BY <1>1, <3>5 DEF AndroidSays
    <3>10. DOMAIN c.posted = 1 .. l + 1 /\ c.running
      BY <2>1, <3>2, <3>5
    <3> QED
      BY ONLY <3>5, <3>6, <3>7, <3>8, <3>9, <3>10 DEF AndroidSays, InTick
  <2>2. CASE ~(clock.running /\ p[1] = clock.gen)
    <3>1. c = [clock EXCEPT !.posted = q]
      BY <1>3, <2>2 DEF AndroidPosted
    <3> HIDE DEF c, q
    <3>2. c \in AndroidClock /\ c.posted = q /\ c.running = clock.running /\ c.gen = clock.gen
          /\ c.backend = "android"
      BY ONLY <1>2, <1>3, <3>1 DEF AndroidClock
    <3>3. g_frame_native <=> c.running
      BY <1>1, <3>2 DEF AndroidSays
    <3>4. ASSUME clock.running
          PROVE  \E i \in DOMAIN q : \A j \in DOMAIN q : q[j] = clock.gen <=> j = i
      <4>1. PICK k \in DOMAIN p : \A j \in DOMAIN p : p[j] = clock.gen <=> j = k
        BY <1>1, <3>4 DEF AndroidSays
      <4>2. k # 1
        BY <2>2, <3>4, <4>1
      <4>3. k - 1 \in 1 .. Len(q) /\ k \in Nat
        BY <1>3, <4>2
      <4>4. \A j \in 1 .. Len(q) : q[j] = clock.gen <=> j + 1 = k
        BY <1>3, <1>4, <4>1
      <4>5. \A j \in 1 .. Len(q) : j + 1 = k <=> j = k - 1
        BY ONLY <4>3
      <4>6. \A j \in DOMAIN q : q[j] = clock.gen <=> j = k - 1
        BY <1>3, <4>4, <4>5 DEF q
      <4>7. k - 1 \in DOMAIN q
        BY <1>3, <4>3 DEF q
      <4> QED
        BY ONLY <4>6, <4>7
    <3>5. ASSUME ~clock.running
          PROVE  \A j \in DOMAIN q : q[j] # clock.gen
      BY <1>1, <1>3, <1>4, <3>5 DEF AndroidSays, p
    <3> QED
      BY <1>3, <1>5, <3>2, <3>3, <3>4, <3>5 DEF AndroidSays, InTick
  <2> QED
    BY <2>1, <2>2
<1>7. Dispatch(c) \/ Drop(c)
  BY DEF AndroidFrame
<1> HIDE DEF c
<1>8. CASE Dispatch(c)
  BY <1>6, <1>8, DispatchKeeps DEF Says
<1>9. CASE Drop(c)
  BY <1>6, <1>9, ClockKeeps DEF Says, Drop, clockVars
<1> QED
  BY <1>7, <1>8, <1>9

(* Win32's thread posts for its own generation, or ends.                   *)
LEMMA ThreadStepKeeps ==
  ASSUME IInv, ThreadStep
  PROVE  IInv'
<1>1. Win32Says(clock, g_frame_native)
  BY DEF IInv, ClockSays, Says, ThreadStep, GtkSays, GtkClock, AndroidSays, AndroidClock
<1>2. PICK gen \in clock.threads : ThreadPosts(gen) \/ ThreadEnds(gen) \/ ThreadGivesUp(gen)
  BY DEF ThreadStep
<1>3. /\ clock \in Win32Clock /\ clock.threads \in SUBSET Nat /\ gen \in Nat
      /\ clock.posted \in Nat
  BY <1>1 DEF Win32Says, Win32Clock
<1>4. UNCHANGED <<subVars, clockVars, deliveries>>
  BY DEF ThreadStep
<1>5. Win32Says(clock', g_frame_native) /\ ~InTick(clock')
  <2>1. CASE ThreadPosts(gen)
    <3> DEFINE at == IF clock.posted = 0 THEN gen ELSE clock.posted
               ts == IF gen = clock.gen THEN clock.threads ELSE clock.threads \ {gen}
    <3>1. clock' = [clock EXCEPT !.posted = at, !.threads = ts]
      BY <2>1, <1>3 DEF ThreadPosts, Win32Clock
    <3>2. at \in Nat /\ ts \in SUBSET clock.threads /\ ts \in SUBSET Nat
          /\ (clock.gen \in clock.threads <=> clock.gen \in ts)
      BY <1>3
    <3> HIDE DEF at, ts
    <3> QED
      BY <1>1, <1>3, <3>1, <3>2 DEF Win32Says, Win32Clock, InTick
  <2>2. CASE ThreadEnds(gen)
    BY <1>1, <1>3, <2>2 DEF ThreadEnds, Win32Says, Win32Clock, InTick
  <2>3. CASE ThreadGivesUp(gen)
    BY <1>1, <1>3, <2>3 DEF ThreadGivesUp, Win32Says, Win32Clock, InTick
  <2> QED
    BY <1>2, <2>1, <2>2, <2>3
<1> QED
  BY <1>4, <1>5, ClockKeeps DEF Says, clockVars

(* Time alone changes neither clock.                                       *)
LEMMA ElapseKeeps ==
  ASSUME IInv, Elapse
  PROVE  IInv'
<1>1. Says(clock', g_frame_native) /\ (InTick(clock') => InTick(clock))
  BY DEF IInv, ClockSays, Elapse
<1> QED
  BY <1>1, ClockKeeps DEF Elapse

(* A fallback tick with nobody subscribed stops.                           *)
LEMMA TickStopsKeeps ==
  ASSUME IInv, TickStops
  PROVE  IInv'
<1>1. StopAll(FALSE) /\ UNCHANGED <<subVars, deliveries>> /\ g_frame_live = 0
  BY DEF TickStops
<1> DEFINE c == IF g_frame_native THEN Stopped(clock) ELSE clock
<1>2. Says(c, FALSE) /\ (InTick(c) => InTick(clock))
  BY StoppedSays DEF IInv, ClockSays, Typed
<1>3. /\ clock' = Ended(c, FALSE) /\ g_frame_mode' = "none"
      /\ g_frame_native' = FALSE /\ g_frame_timer' = FALSE
  BY <1>1 DEF StopAll
<1> HIDE DEF c
<1>4. Says(clock', FALSE) /\ (InTick(clock') => InTick(clock))
  BY <1>2, <1>3, EndedSays
<1>5. Typed' /\ SubsInOrder' /\ ReleasedGone' /\ Counted' /\ FramesHold'
  BY <1>1, <1>3
  DEF IInv, Typed, Modes, SubsInOrder, ReleasedGone, Counted, FramesHold, subVars
<1>6. ClockSays' /\ TicksAreFrames'
  BY <1>1, <1>3, <1>4 DEF IInv, ClockSays, TicksAreFrames
<1>7. ModeSays'
  BY <1>1, <1>3 DEF ModeSays, subVars
<1> QED
  BY <1>5, <1>6, <1>7 DEF IInv

(* A tick that finds the native clock stalled takes over.                  *)
LEMMA TickTakesOverKeeps ==
  ASSUME IInv, TickTakesOver
  PROVE  IInv'
<1>1. /\ g_frame_timer' \in BOOLEAN /\ g_frame_mode' = "drive" /\ Deliver(FALSE)
      /\ UNCHANGED <<subVars, g_frame_native, clock>> /\ UNCHANGED g_frame_subs
  BY DEF TickTakesOver, FallbackSet, subVars
<1>2. /\ deliveries' \in Seq(Frame) /\ FramesHold' /\ Dispatching'
      /\ (\E k \in DOMAIN deliveries : deliveries[k].tick)
           => \E k \in DOMAIN deliveries' : deliveries'[k].tick
  BY <1>1, DeliverKeeps DEF IInv
<1>3. Typed' /\ SubsInOrder' /\ ReleasedGone' /\ Counted'
  BY <1>1, <1>2 DEF IInv, Typed, Modes, SubsInOrder, ReleasedGone, Counted, subVars
<1>4. ClockSays' /\ TicksAreFrames' /\ ModeSays'
  BY <1>1, <1>2 DEF IInv, ClockSays, TicksAreFrames, ModeSays, subVars
<1> QED
  BY <1>2, <1>3, <1>4 DEF IInv

(* A tick that finds it at work again hands over.                          *)
LEMMA TickHandsOverKeeps ==
  ASSUME IInv, TickHandsOver
  PROVE  IInv'
<1>1. /\ g_frame_timer' \in BOOLEAN /\ g_frame_mode' = "watch" /\ g_frame_live > 0
      /\ UNCHANGED <<subVars, g_frame_native, clock, deliveries>>
  BY DEF TickHandsOver, FallbackSet
<1>2. Typed' /\ SubsInOrder' /\ ReleasedGone' /\ Counted' /\ FramesHold'
  BY <1>1 DEF IInv, Typed, Modes, SubsInOrder, ReleasedGone, Counted, FramesHold, subVars
<1>3. ClockSays' /\ TicksAreFrames' /\ ModeSays'
  BY <1>1 DEF IInv, ClockSays, TicksAreFrames, ModeSays, subVars
<1> QED
  BY <1>2, <1>3 DEF IInv

(* A tick that drives delivers a frame, and tries the native clock again.  *)
LEMMA TickDrivesKeeps ==
  ASSUME IInv, TickDrives
  PROVE  IInv'
<1>1. /\ g_frame_mode = "drive" /\ Deliver(FALSE) /\ UNCHANGED g_frame_subs
      /\ UNCHANGED <<subVars, g_frame_timer, g_frame_mode>>
  BY DEF TickDrives, subVars
<1>2. /\ deliveries' \in Seq(Frame) /\ FramesHold' /\ Dispatching'
      /\ (\E k \in DOMAIN deliveries : deliveries[k].tick)
           => \E k \in DOMAIN deliveries' : deliveries'[k].tick
  BY <1>1, DeliverKeeps DEF IInv
<1>3. ClockSays' /\ g_frame_native' \in BOOLEAN /\ (InTick(clock') => InTick(clock))
  <2>1. CASE UNCHANGED <<g_frame_native, clock>>
    BY <2>1 DEF IInv, Typed, ClockSays
  <2>2. CASE StartNative
    BY <2>2, StartSays DEF IInv
  <2> QED
    BY <2>1, <2>2 DEF TickDrives
<1>4. Typed' /\ SubsInOrder' /\ ReleasedGone' /\ Counted'
  BY <1>1, <1>2, <1>3 DEF IInv, Typed, SubsInOrder, ReleasedGone, Counted, subVars
<1>5. TicksAreFrames' /\ ModeSays'
  BY <1>1, <1>2, <1>3 DEF IInv, TicksAreFrames, ModeSays, subVars
<1> QED
  BY <1>2, <1>3, <1>4, <1>5 DEF IInv

(* A delivery goes on to its next subscriber.                              *)
LEMMA DeliverTurnKeeps ==
  ASSUME IInv, DeliverTurn
  PROVE  IInv'
<1> DEFINE d == Head(deliveries)
           next == g_frame_subs[d.at + 1]
           new == IF next.alive THEN <<next.id>> ELSE <<>>
           e == [d EXCEPT !.at = @ + 1, !.calling = next.alive, !.called = @ \o new]
           below == [k \in DOMAIN Tail(deliveries) |->
                      [Tail(deliveries)[k] EXCEPT !.overtaken = @ \cup ToSet(new)]]
           l == Len(Tail(deliveries))
<1>1. /\ deliveries # <<>> /\ d.at < d.n
      /\ deliveries' = <<e>> \o below /\ UNCHANGED <<subVars, clockVars, clock>>
  BY DEF DeliverTurn, Dispatching, Top, LoopEnd
<1>2. /\ deliveries \in Seq(Frame) /\ l \in Nat /\ DOMAIN deliveries = 1 .. l + 1
      /\ deliveries[1] = d /\ DOMAIN Tail(deliveries) = 1 .. l
      /\ \A k \in 1 .. l : Tail(deliveries)[k] = deliveries[k + 1]
  BY <1>1 DEF IInv, Typed
<1>3. /\ 1 \in 1 .. l + 1 /\ \A k \in 1 .. l : k + 1 \in 1 .. l + 1
      /\ \A k \in 1 .. l + 1 : k = 1 \/ (k \in 2 .. l + 1 /\ k - 1 \in 1 .. l /\ (k - 1) + 1 = k)
  <2>1. l \in Nat
    BY <1>2
  <2> HIDE DEF l
  <2> QED
    BY ONLY <2>1
<1>4. d \in Frame /\ Passed(d, g_frame_subs) /\ g_frame_subs \in Seq(Sub)
      /\ InOrder(g_frame_subs)
  BY <1>2, <1>3 DEF IInv, Typed, FramesHold, SubsInOrder
<1>5. e \in Frame /\ Passed(e, g_frame_subs) /\ AtItsCall(e, g_frame_subs) /\ e.tick = d.tick
  <2> HIDE DEF d
  <2>1. d.at < d.n
    BY <1>1
  <2>2. e = Turned(d, g_frame_subs)
    BY DEF Turned
  <2> HIDE DEF e
  <2> QED
    BY <1>4, <2>1, <2>2, TurnPasses
<1>6. ToSet(new) \in SUBSET Nat
  <2>1. d.at + 1 \in DOMAIN g_frame_subs
    BY <1>1, <1>4 DEF Frame, Passed
  <2>2. next \in Sub
    BY <1>4, <2>1
  <2>3. next.id \in Nat
    BY <2>2 DEF Sub
  <2> HIDE DEF next
  <2>4. CASE next.alive
    <3>1. new = <<next.id>> /\ next.id \in Nat
      BY <2>3, <2>4
    <3> HIDE DEF new
    <3>2. ToSet(new) = {next.id}
      BY ONLY <3>1 DEF ToSet
    <3> QED
      BY ONLY <3>1, <3>2
  <2>5. CASE ~next.alive
    <3>1. new = <<>>
      BY <2>5
    <3> HIDE DEF new
    <3> QED
      BY ONLY <3>1 DEF ToSet
  <2> QED
    BY <2>4, <2>5
<1> HIDE DEF new
<1> DEFINE Below(k) == [deliveries[k + 1] EXCEPT !.overtaken = @ \cup ToSet(new)]
<1>7. ASSUME NEW k \in 1 .. l
      PROVE  /\ Below(k) \in Frame /\ Below(k).tick = deliveries[k + 1].tick
             /\ Passed(Below(k), g_frame_subs) /\ AtItsCall(Below(k), g_frame_subs)
  <2>1. deliveries[k + 1] \in Frame /\ Passed(deliveries[k + 1], g_frame_subs)
        /\ AtItsCall(deliveries[k + 1], g_frame_subs)
    BY <1>2, <1>3 DEF IInv, FramesHold
  <2> DEFINE o == deliveries[k + 1]
             b == Below(k)
             ov == o.overtaken \cup ToSet(new)
  <2>2. o \in Frame /\ ov \in SUBSET Nat
    BY <1>6, <2>1 DEF Frame
  <2>3. b = [o EXCEPT !.overtaken = ov]
    OBVIOUS
  <2> HIDE DEF o, b, ov
  <2>4. /\ b \in Frame /\ b.tick = o.tick /\ b.at = o.at /\ b.n = o.n /\ b.calling = o.calling
        /\ b.called = o.called /\ b.due = o.due
    BY ONLY <2>2, <2>3 DEF Frame
  <2>5. Passed(o, g_frame_subs) /\ AtItsCall(o, g_frame_subs)
    BY <2>1 DEF o
  <2>6. Passed(b, g_frame_subs) /\ AtItsCall(b, g_frame_subs)
    BY ONLY <2>4, <2>5 DEF Passed, AtItsCall
  <2> QED
    BY <2>4, <2>6 DEF o, b
<1>8. below = [k \in 1 .. l |-> Below(k)]
  BY <1>2
<1> HIDE DEF e, d, l, Below, below
<1>9. below \in Seq(Frame) /\ Len(below) = l /\ \A k \in 1 .. l : below[k] = Below(k)
  BY <1>2, <1>7, <1>8
<1>10. /\ deliveries' \in Seq(Frame) /\ DOMAIN deliveries' = 1 .. l + 1 /\ deliveries'[1] = e
       /\ \A k \in 2 .. l + 1 : deliveries'[k] = Below(k - 1)
  BY <1>1, <1>2, <1>5, <1>9
<1>11. FramesHold'
  <2> SUFFICES ASSUME NEW k \in 1 .. l + 1
               PROVE  /\ Passed(deliveries'[k], g_frame_subs)
                      /\ AtItsCall(deliveries'[k], g_frame_subs)
    BY <1>1, <1>10 DEF FramesHold, subVars
  <2> QED
    BY <1>3, <1>5, <1>7, <1>10
<1>12. ASSUME NEW k \in DOMAIN deliveries, deliveries[k].tick
       PROVE  \E j \in DOMAIN deliveries' : deliveries'[j].tick
  <2>1. deliveries'[k].tick
    BY <1>2, <1>3, <1>5, <1>7, <1>10, <1>12
  <2> QED
    BY <1>2, <1>10, <2>1
<1>13. Typed' /\ SubsInOrder' /\ ReleasedGone' /\ Counted'
  BY <1>1, <1>10 DEF IInv, Typed, SubsInOrder, ReleasedGone, Counted, subVars, clockVars
<1>14. Dispatching /\ Dispatching'
  BY <1>1, <1>3, <1>10 DEF Dispatching
<1>15. ClockSays' /\ TicksAreFrames' /\ ModeSays'
  BY <1>1, <1>12, <1>14 DEF IInv, ClockSays, TicksAreFrames, ModeSays, subVars, clockVars
<1> QED
  BY <1>11, <1>13, <1>15 DEF IInv

(* The last of the nested deliveries sweeps the list and stops the clock   *)
(* nobody needs.                                                           *)
LEMMA DeliverEndKeeps ==
  ASSUME IInv, DeliverEnd
  PROVE  IInv'
<1> DEFINE l == Len(Tail(deliveries))
<1>1. /\ deliveries # <<>> /\ deliveries' = Tail(deliveries)
      /\ UNCHANGED <<g_frame_next_id, g_frame_live>>
      /\ SweepAndStop(g_frame_subs, deliveries[1].tick)
  BY DEF DeliverEnd, Dispatching, Top
<1>2. /\ deliveries \in Seq(Frame) /\ l \in Nat /\ DOMAIN deliveries = 1 .. l + 1
      /\ deliveries' \in Seq(Frame) /\ DOMAIN deliveries' = 1 .. l
      /\ \A k \in 1 .. l : deliveries'[k] = deliveries[k + 1]
  BY <1>1 DEF IInv, Typed
<1>3. /\ 1 \in 1 .. l + 1 /\ \A k \in 1 .. l : k + 1 \in 1 .. l + 1
      /\ \A k \in 1 .. l + 1 : k = 1 \/ (k - 1 \in 1 .. l /\ (k - 1) + 1 = k)
  <2>1. l \in Nat
    BY <1>2
  <2> HIDE DEF l
  <2> QED
    BY ONLY <2>1
<1> HIDE DEF l
<1>4. deliveries[1].tick \in BOOLEAN
  <2>1. deliveries[1] \in Frame
    BY <1>2, <1>3
  <2> QED
    BY <2>1 DEF Frame
<1>5. \A k \in DOMAIN deliveries' :
        Passed(deliveries'[k], g_frame_subs) /\ AtItsCall(deliveries'[k], g_frame_subs)
  BY <1>2, <1>3 DEF IInv, FramesHold
<1>6. ASSUME InTick(clock), ~deliveries[1].tick
      PROVE  \E k \in DOMAIN deliveries' : deliveries'[k].tick
  <2>1. PICK k \in DOMAIN deliveries : deliveries[k].tick
    BY <1>6 DEF IInv, TicksAreFrames
  <2>2. k - 1 \in 1 .. l /\ (k - 1) + 1 = k
    BY <1>2, <1>3, <1>6, <2>1
  <2> QED
    BY <1>2, <2>1, <2>2
<1>7. /\ g_frame_live' = Cardinality(LiveIds(g_frame_subs)) /\ g_frame_live' \in Nat
      /\ g_frame_live' > 0 => g_frame_live > 0
  BY <1>1, Cards DEF IInv, Counted
<1>8. /\ Typed /\ SubsInOrder /\ ReleasedGone /\ ClockSays /\ ModeSays
      /\ g_frame_subs \in Seq(Sub) /\ InOrder(g_frame_subs)
      /\ Numbered(g_frame_subs, g_frame_next_id)
      /\ \A i \in DOMAIN g_frame_subs : g_frame_subs[i].id \notin released
  BY DEF IInv, Typed, SubsInOrder, ReleasedGone
<1> QED
  BY <1>1, <1>2, <1>4, <1>5, <1>6, <1>7, <1>8, EndKeeps

(* Every step of the clock.                                                *)
LEMMA NextKeeps == IInv /\ [Next]_vars => IInv'
<1> SUFFICES ASSUME IInv, [Next]_vars
             PROVE  IInv'
  OBVIOUS
<1>1. CASE UNCHANGED vars
  <2>1. Says(clock', g_frame_native) /\ (InTick(clock') => InTick(clock))
    BY <1>1 DEF vars, IInv, ClockSays
  <2> QED
    BY <1>1, <2>1, ClockKeeps DEF vars, clockVars
<1>2. CASE Next
  <2>1. CASE Add
    BY <2>1, AddKeeps
  <2>2. CASE \E id \in Ids : Cancel(id)
    BY <2>2, CancelKeeps
  <2>3. CASE GtkFrame \/ Win32Frame \/ AndroidFrame
    BY <2>3, GtkFrameKeeps, Win32FrameKeeps, AndroidFrameKeeps
  <2>4. CASE ThreadStep \/ Elapse
    BY <2>4, ThreadStepKeeps, ElapseKeeps
  <2>5. CASE TickStops \/ TickTakesOver
    BY <2>5, TickStopsKeeps, TickTakesOverKeeps
  <2>6. CASE TickHandsOver \/ TickDrives
    BY <2>6, TickHandsOverKeeps, TickDrivesKeeps
  <2>7. CASE DeliverTurn \/ DeliverEnd
    BY <2>7, DeliverTurnKeeps, DeliverEndKeeps
  <2> QED
    BY <1>2, <2>1, <2>2, <2>3, <2>4, <2>5, <2>6, <2>7 DEF Next
<1> QED
  BY <1>1, <1>2

(* So it holds throughout.                                                 *)
LEMMA Invariance == Spec => []IInv
BY InitHolds, NextKeeps, PTL DEF Spec, SafeSpec

(* --- the theorems ------------------------------------------------------ *)

(* DeliveriesHold, read off the invariant.                                 *)
LEMMA PassedHolds ==
  ASSUME IInv
  PROVE  DeliveriesHold
<1>1. ASSUME NEW k \in DOMAIN deliveries, deliveries[k].calling
      PROVE  deliveries[k].called # <<>> /\ Last(deliveries[k].called) \notin released
  <2> DEFINE d == deliveries[k]
  <2>1. d \in Frame /\ Passed(d, g_frame_subs) /\ AtItsCall(d, g_frame_subs)
    BY DEF IInv, Typed, FramesHold
  <2> HIDE DEF d
  <2>2. d.at \in DOMAIN g_frame_subs /\ d.called # <<>>
        /\ d.called[Len(d.called)] = g_frame_subs[d.at].id
    BY <1>1, <2>1 DEF d, Passed, AtItsCall, IInv, Typed, Frame
  <2> QED
    BY <2>2 DEF d, Last, IInv, ReleasedGone
<1>2. ASSUME NEW k \in DOMAIN deliveries
      PROVE  /\ IsInjective(deliveries[k].called)
             /\ ToSet(deliveries[k].called) \subseteq deliveries[k].due
             /\ deliveries[k].at = deliveries[k].n =>
                  deliveries[k].due \cap IdsOf(Alive(g_frame_subs))
                    \subseteq ToSet(deliveries[k].called)
  <2> DEFINE d == deliveries[k]
             s == g_frame_subs
  <2>1. d \in Frame /\ Passed(d, s) /\ s \in Seq(Sub) /\ InOrder(s)
    BY DEF IInv, Typed, FramesHold, SubsInOrder
  <2> HIDE DEF d
  <2>2. /\ d.called \in Seq(Nat) /\ DOMAIN d.called = 1 .. Len(d.called)
        /\ DOMAIN s = 1 .. Len(s) /\ Len(s) \in Nat /\ d.n \in Nat /\ d.n <= Len(s)
        /\ Len(d.called) \in Nat
    BY <2>1 DEF Frame, Passed
  <2>3. IsInjective(d.called)
    <3> SUFFICES ASSUME NEW a \in DOMAIN d.called, NEW b \in DOMAIN d.called, a # b
                 PROVE  d.called[a] # d.called[b]
      BY DEF IsInjective
    <3>1. d.called[a] \in Nat /\ d.called[b] \in Nat
      BY <2>2, SMTT(30)
    <3>2. a < b \/ b < a
      BY <2>2
    <3> QED
      BY <2>1, <3>1, <3>2 DEF Passed
  <2>4. ToSet(d.called) \subseteq d.due
    BY <2>1 DEF Passed, ToSet
  <2>5. ASSUME d.at = d.n, NEW x \in d.due, x \in LiveIds(s)
        PROVE  x \in ToSet(d.called)
    <3>1. PICK i \in 1 .. d.n : s[i].id = x
      BY <2>1 DEF Passed
    <3>2. PICK j \in DOMAIN s : s[j].alive /\ s[j].id = x
      BY <2>5 DEF LiveIds
    <3>3. i \in DOMAIN s /\ i \in 1 .. d.at
      BY <2>2, <2>5
    <3>4. x \in Nat
      <4>1. s[j] \in Sub
        BY <2>1, <3>2
      <4> QED
        BY <3>2, <4>1 DEF Sub
    <3>5. ~(i < j) /\ ~(j < i)
      BY <2>1, <3>1, <3>2, <3>3, <3>4 DEF InOrder
    <3>6. i = j
      BY <2>2, <3>2, <3>3, <3>5
    <3> QED
      BY <2>1, <3>2, <3>3, <3>6 DEF Passed, ToSet
  <2> QED
    BY <2>1, <2>3, <2>4, <2>5, SweptIds DEF d
<1> QED
  BY <1>1, <1>2 DEF DeliveriesHold, RunningNotReleased, EveryoneOncePerFrame

(* RunsIffSubscribed, read off the invariant.                              *)
LEMMA ClockIsAsSaid ==
  ASSUME IInv
  PROVE  RunsIffSubscribed
<1>1. ClockAsSaid /\ (InTick(clock) <=> clock.backend = "gtk" /\ clock.in_tick)
      /\ (clock.backend = "gtk" /\ clock.stop_req => InTick(clock))
  <2>1. CASE GtkSays(clock, g_frame_native)
    BY <2>1 DEF ClockAsSaid, GtkSays, GtkClock, InTick
  <2>2. CASE Win32Says(clock, g_frame_native)
    BY <2>2 DEF ClockAsSaid, Win32Says, Win32Clock, InTick
  <2>3. CASE AndroidSays(clock, g_frame_native)
    BY <2>3 DEF ClockAsSaid, AndroidSays, AndroidClock, InTick
  <2> QED
    BY <2>1, <2>2, <2>3 DEF IInv, ClockSays, Says
<1>2. ASSUME ~Dispatching
      PROVE  /\ g_frame_mode # "none" <=> g_frame_live > 0
             /\ g_frame_native \/ g_frame_timer => g_frame_mode # "none"
             /\ clock.backend = "gtk" => ~clock.in_tick /\ ~clock.stop_req
  <2>1. DOMAIN deliveries = {}
    BY <1>2 DEF Dispatching
  <2>2. ~InTick(clock)
    BY <2>1 DEF IInv, TicksAreFrames
  <2> QED
    BY <1>1, <1>2, <2>2 DEF IInv, ModeSays
<1> QED
  BY <1>1, <1>2 DEF RunsIffSubscribed

(* Whatever subscribers do inside their calls, and however deliveries are  *)
(* nested, aeui_frame_deliver calls nobody twice, nobody who came after it *)
(* began and nobody whose closure is freed, and everyone who was and still *)
(* is subscribed.                                                          *)
THEOREM DeliveriesAlways == Spec => []DeliveriesHold
BY Invariance, PassedHolds, PTL

(* The native clock is what g_frame_native says it is, also after a stop   *)
(* and a start inside its own frame, and between frames the clocks run     *)
(* exactly while somebody is subscribed.                                   *)
THEOREM RunsIffSubscribedAlways == Spec => []RunsIffSubscribed
BY Invariance, ClockIsAsSaid, PTL
=============================================================================
