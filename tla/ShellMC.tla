-------------------------------- MODULE ShellMC --------------------------------
(***************************************************************************)
(* The shell (Shell) and its containers: how they are divided (Layout) and *)
(* when Win32 lays them out (Reflow). A behaviour looks at one form.       *)
(***************************************************************************)
EXTENDS Shell, Layout, Reflow

CONSTANTS
  Containers,  \* of the forms below, those looked at
  MaxKids,     \* bound: children of a stack, a flow, a grid
  MaxAxis,     \* bound: the length divided
  GridItems    \* Win32's items[], 64 in the code

ASSUME ShellMCAssumption ==
  /\ Containers \subseteq {"stack", "flow", "split", "grid", "reflow"}
  /\ {MaxKids, MaxAxis, GridItems} \subseteq Nat

(* Three items of different lengths, in one stack, and one in the other.   *)
MCLong == [item \in 1 .. 3 |-> item]
MCStacks == <<<<1, 2, 3>>, <<1>>>>

(* A splitview of Win32: where its divider is asked to be, and its panes.  *)
Splits ==
  [asked : -1 .. MaxAxis, extent : 0 .. MaxAxis, divider : {1}, minA : {1, 3}, minB : {1, 3}]

ContainerInit ==
  /\ backend \in Backends /\ form \in Containers
  /\ \/ form = "stack" /\ \E spacing \in 0 .. 1 : st = [kids |-> <<>>, spacing |-> spacing]
     \/ form = "flow" /\ backend = "win32" /\ st = <<>>
     \/ form = "split" /\ backend = "win32" /\ st \in Splits
     \/ form = "reflow" /\ backend = "win32" /\ \E second \in {"stack", "scroll"}, label \in {"text", "wrapping"} :
          st = NewTree(<<"stack", second, "stack", label>>)
     \/ form = "grid" /\ st = NewGrid(backend, 2)

-----------------------------------------------------------------------------
(* Layout. A container is filled a child at a time.                        *)
Kid(nat, min, weight, margin) ==
  [nat |-> nat, min |-> min, weight |-> weight, margin |-> margin,
   spacer |-> FALSE, greedy |-> FALSE]
Kids ==
  {Kid(nat, nat, weight, 0) : nat \in {1, 3}, weight \in 0 .. 2}
    \cup {Kid(3, IF backend = "gtk" THEN 1 ELSE 3, 1, 0), Kid(2, 2, 0, 1), Kid(1, 1, 1, 1)}
    \cup {[Kid(0, 0, 0, 0) EXCEPT !.spacer = TRUE], [Kid(1, 1, 0, 0) EXCEPT !.greedy = TRUE]}
AddsKid(kid) == Len(st.kids) < MaxKids /\ In("stack", [st EXCEPT !.kids = Append(@, kid)])
AddsToFlow(size) == Len(st) < MaxKids /\ In("flow", Append(st, size))
PlacesItem(id, at, spans) ==
  In("grid", Place(st, Item(id, at[1], at[2], spans[1], spans[2], 2 * id - 1), GridItems))
RemovesItem(id) == id \in st.there /\ In("grid", RemoveItem(st, id))
AddsItem(id) == id \notin st.there /\ PlacesItem(id, NextCell(st, 4 * GridItems), <<1, 1>>)
LayoutStep ==
  \/ form = "stack" /\ \E kid \in Kids : AddsKid(kid)
  \/ form = "flow" /\ \E w \in 1 .. 3, h \in 1 .. 2 : AddsToFlow(<<w, h>>)
  \/ form = "grid" /\ \E id \in 1 .. MaxKids :
       \/ AddsItem(id) \/ RemovesItem(id)
       \/ id < MaxKids /\ \E at \in (0 .. 1) \X (0 .. 1), spans \in {<<1, 1>>, <<1, 2>>, <<2, 1>>} :
            PlacesItem(id, at, spans)

(* A tree built, changed and flushed. A container is made before what it   *)
(* holds, and a scroll area has one document.                              *)
Lives(n) == n \notin st.gone
Attached(c, p) ==
  /\ c \in {p + 1, p + 2} /\ st.parent[c] = 0 /\ IsContainer(st, p) /\ Lives(c) /\ Lives(p)
  /\ st.kind[p] = "scroll" => \A n \in Nodes(st) : st.parent[n] # p
  /\ In("reflow", AddChild(st, p, c))
Removed(c) == c # 1 /\ Lives(c) /\ st.parent[c] # 0 /\ In("reflow", RemoveChild(st, c))
Pins(n, px) ==
  n = 3 /\ Lives(n) /\ (In("reflow", SetHeight(st, n, px)) \/ In("reflow", SetHeightImpl(st, n, px)))
Texts(n, lines) == st.kind[n] = "text" /\ Lives(n) /\ In("reflow", SetText(st, n, lines))
Hides(n, hidden) == n \in {2, 3} /\ Lives(n) /\ In("reflow", SetHidden(st, n, hidden))
Resizes(w) == st.kind[4] = "wrapping" /\ In("reflow", Resized(st, w))
Flushes == st.posted /\ In("reflow", FlushLayout(st, 16))
ReflowStep ==
  \/ \E c, p \in Nodes(st) : Attached(c, p)
  \/ \E n \in Nodes(st) :
       \/ Removed(n) \/ Pins(n, 2) \/ (\E lines \in {1, 2} : Texts(n, lines))
       \/ \E hidden \in BOOLEAN : Hides(n, hidden)
  \/ \E w \in {1, 2} : Resizes(w)
  \/ Flushes

AllInit == Init \/ ContainerInit

AllNext ==
  \/ Next
  \/ LayoutStep
  \/ form = "reflow" /\ ~st.missed /\ ReflowStep

AllSafeSpec == AllInit /\ [][AllNext]_vars

(* The loop runs what is due: a toast's timer, an exit's last frame, the   *)
(* thread of Win32's timers; a tick is taken in its turn, by whichever loop*)
(* turns, and a closure returns.                                           *)
Fairness ==
  /\ \A h \in 1 .. MaxOverlays : WF_vars(ToastExpires(h)) /\ WF_vars(ExitEnds(h))
  /\ \A id \in 1 .. MaxTimers : WF_vars(Posts(id)) /\ SF_vars(Ticks(id))
  /\ WF_vars(Returns)
Spec == AllSafeSpec /\ Fairness

-----------------------------------------------------------------------------
(***************************************************************************)
(* A stack whose children fit is filled exactly, spacing included, once    *)
(* somebody takes what is left: nothing overflows and no pixel stays empty.*)
(* Win32 excepted: it does not reserve the margins of those that take a    *)
(* share, and several spacers leave what their division does.              *)
(***************************************************************************)
Least(kids) ==
  Total([i \in DOMAIN kids |->
    kids[i].margin + IF i \in Sharers(backend, kids) THEN kids[i].min ELSE kids[i].nat])
Overrun(kids) ==
  IF backend # "win32" THEN 0
  ELSE Total([i \in DOMAIN kids |-> IF i \in Sharers(backend, kids) THEN kids[i].margin ELSE 0])
Used(axis) == Total(Sizes(backend, st.kids, axis, st.spacing)) + Gaps(st.kids, st.spacing)
FilledExactly ==
  form = "stack" => \A axis \in Least(st.kids) + Gaps(st.kids, st.spacing) .. MaxAxis :
    /\ Sharers(backend, st.kids) # {} => Used(axis) = axis + Overrun(st.kids)
    /\ Sharers(backend, st.kids) = {} /\ HasSpacer(st.kids) =>
         Used(axis) \in axis - Len(st.kids) + 1 .. axis

(***************************************************************************)
(* No child that takes a share is made smaller than its minimum, whatever  *)
(* the room, and what is shared is shared fairly: a child that got more    *)
(* than its minimum has no more, weight for weight, than any other, but    *)
(* for rounding. GTK and Win32 come to the same division, where both have  *)
(* the same to go by.                                                      *)
(***************************************************************************)
ShareOf(kids, i) == IF backend = "gtk" THEN GtkWeight(kids, i) ELSE Win32Weight(kids, i)
SharedFairly ==
  form = "stack" /\ backend # "android" => \A axis \in 0 .. MaxAxis :
    LET sharers == Sharers(backend, st.kids)
        sizes == Sizes(backend, st.kids, axis, st.spacing)
        least == [i \in DOMAIN sizes |-> st.kids[i].min + st.kids[i].margin]
        weight == [i \in DOMAIN sizes |-> ShareOf(st.kids, i)]
    IN \A i \in sharers :
         /\ sizes[i] >= least[i]
         /\ sizes[i] > least[i] => \A j \in sharers :
              sizes[i] * weight[j] - sizes[j] * weight[i]
                <= Cardinality(sharers) * weight[j] + 2 * weight[i]
SameOnBoth ==
  form = "stack" /\ backend = "win32"
    /\ (\A i \in Sharers(backend, st.kids) : st.kids[i].margin = 0)
    /\ Cardinality({i \in DOMAIN st.kids : st.kids[i].spacer}) <= 1
    /\ (HasSpacer(st.kids) => Sharers(backend, st.kids) = {})
    => \A axis \in 0 .. MaxAxis :
         GtkSizes(st.kids, axis, st.spacing) = Win32Sizes(st.kids, axis, st.spacing)

(***************************************************************************)
(* A flow is as high as it measures, and no row passes its width unless it *)
(* is one child. A splitview's panes and divider are its extent, neither   *)
(* pane below its floor where there is room for both.                      *)
(***************************************************************************)
FlowAsMeasured ==
  form = "flow" => \A width \in 1 .. MaxAxis, spacing \in 0 .. 1 :
    LET at == Flow(st, width, spacing).at
        bottoms == {0} \cup {at[i][2] + st[i][2] : i \in DOMAIN st}
    IN /\ FlowHeight(st, width, spacing) \in bottoms
       /\ \A y \in bottoms : y <= FlowHeight(st, width, spacing)
       /\ \A i \in DOMAIN st : at[i][1] = 0 \/ at[i][1] + st[i][1] <= width
PanesFit ==
  form = "split" =>
    LET panes == Panes(st.asked, st.extent, st.divider, st.minA, st.minB)
        fits == st.extent >= st.divider + st.minA + st.minB
    IN /\ st.extent >= st.divider => panes[1] + panes[2] + st.divider = st.extent
       /\ fits => panes[1] >= st.minA /\ panes[2] >= st.minB

(***************************************************************************)
(* A child built in a grid's block takes a cell no other child is in, the  *)
(* first such (Win32 keeps the cells of children moved or removed), and    *)
(* the columns are wide enough for every child.                            *)
(***************************************************************************)
PlaceOf(id) ==
  st.items[CHOOSE i \in DOMAIN st.items :
             st.items[i].id = id /\ \A j \in DOMAIN st.items : st.items[j].id = id => j <= i]
InCell(k) == \E id \in st.there : Covers(PlaceOf(id), k \div st.cols, k % st.cols)
GridHolds ==
  form = "grid" =>
    LET next == NextCell(st, 4 * GridItems)
        k == next[1] * st.cols + next[2]
    IN /\ ~InCell(k)
       /\ backend # "win32" => \A j \in 0 .. k - 1 : InCell(j)
       /\ \A id \in st.there : Span(Columns(st, 1), PlaceOf(id), 1) >= PlaceOf(id).wide

(***************************************************************************)
(* What was put off happens: a toast whose timer was started goes, an exit *)
(* comes to its end, and a timer keeps ticking until it is cancelled.      *)
(***************************************************************************)
Pending(h) ==
  Running /\ h \in DOMAIN st.entries /\ (h \in st.timers \/ st.entries[h].exiting)
Settled(h) == ~Running \/ h \notin DOMAIN st.entries \/ ~st.entries[h].live
MustTick(id) == form = "timers" /\ id \in Ids(st) /\ st.timers[id].alive
LateStepsCome ==
  /\ \A h \in 1 .. MaxOverlays : Pending(h) ~> Settled(h)
  /\ \A id \in 1 .. MaxTimers : MustTick(id) ~> (~MustTick(id) \/ InTick(st, id))

(***************************************************************************)
(* Nothing owed is forgotten. When no layout is owed, every container on   *)
(* the screen stands as its children measure now; a container whose        *)
(* painting is held is in the queue, which is what ends the hold; and while*)
(* the queue is not empty a flush is on its way. Excepted (missed): what   *)
(* the code does not tell the containers above.                            *)
(***************************************************************************)
RECURSIVE OnTree(_)
OnTree(n) == n = 1 \/ (st.parent[n] # 0 /\ n \notin st.hidden \cup st.gone /\ OnTree(st.parent[n]))
ReflowHolds ==
  form = "reflow" =>
    /\ st.queue = {} /\ ~st.missed =>
         \A n \in Nodes(st) : IsContainer(st, n) /\ OnTree(n) => st.seen[n] = Measures(st, n)
    /\ st.held \subseteq st.queue
    /\ st.queue # {} => st.posted

(* How the containers divide their room, and that it is done in time.      *)
LayoutHolds ==
  /\ FilledExactly /\ SharedFairly /\ SameOnBoth /\ FlowAsMeasured /\ PanesFit /\ GridHolds
  /\ ReflowHolds

-----------------------------------------------------------------------------
(* "a stack already owed a layout had its ancestors marked when it was",   *)
(* and a change of what a container asks for reaches those above it.       *)
NoContainerMissed == form = "reflow" => ~st.missed
================================================================================
