--------------------------------- MODULE Reflow ---------------------------------
(***************************************************************************)
(* Win32's deferred layout. A change of a stack's children only marks the  *)
(* stack and the containers above it (w32_request_layout); a flush lays    *)
(* the marked ones out, and until then their painting is held. Resizes,    *)
(* hidden children and labels that change are laid out at once. The tree   *)
(* is of columns: root, of columns and scroll areas, of labels; a label is *)
(* as high as it asks for, or, if it wraps, as its width needs. Widths are *)
(* 1, narrow, and 2. A state is a record s:                                *)
(*   parent   0: on the holder, in no tree,                                *)
(*   kind     "stack", "scroll", "text", "wrapping",                       *)
(*   want     a label's height,                                            *)
(*   pin      pref_height, or 0,                                           *)
(*   hidden, gone    sets of nodes; gone: removed, dead,                   *)
(*   wide, high      the window rectangle,                                 *)
(*   seen     what a container's last layout measured, by child,           *)
(*   pending, queue, held, posted    layout_pending, the layout queue (a   *)
(*            set: the flush sorts it), redraw_held, a flush on its way,   *)
(*   missed   a container was left as it was where its children's measures *)
(*            had changed (below).                                         *)
(***************************************************************************)
EXTENDS Integers, Sequences, FiniteSets, SequencesExt

Nodes(s) == DOMAIN s.kind
IsStack(s, n) == s.kind[n] = "stack"
IsContainer(s, n) == s.kind[n] \in {"stack", "scroll"}
(* A redraw hold borrows WS_VISIBLE; w32_own_visible sees through it.      *)
Children(s, n) ==
  SelectSeq([i \in 1 .. Cardinality(Nodes(s)) |-> i],
            LAMBDA c : s.parent[c] = n /\ c \notin s.hidden /\ c \notin s.gone)

NewTree(kind) ==
  LET N == DOMAIN kind
  IN [parent |-> [n \in N |-> 0], kind |-> kind, want |-> [n \in N |-> 1],
      pin |-> [n \in N |-> 0], hidden |-> {}, gone |-> {},
      wide |-> [n \in N |-> IF n = 1 THEN 2 ELSE 0], high |-> [n \in N |-> 0],
      seen |-> [n \in N |-> <<>>], pending |-> {}, queue |-> {}, held |-> {},
      posted |-> FALSE, missed |-> FALSE]

(* measure_widget: intrinsic, what a stack's children add up to; a scroll  *)
(* area asks for what it is pinned at, or for a line.                      *)
RECURSIVE Measure(_, _)
Measure(s, n) ==
  CASE s.pin[n] > 0 -> s.pin[n]
    [] s.pin[n] = 0 /\ s.kind[n] = "text" -> s.want[n]
    [] s.pin[n] = 0 /\ s.kind[n] = "wrapping" -> IF s.wide[n] = 1 THEN 2 ELSE 1
    [] s.pin[n] = 0 /\ s.kind[n] = "scroll" -> 1
    [] OTHER -> FoldLeft(LAMBDA sum, c : sum + Measure(s, c), 0, Children(s, n))
Measures(s, n) == [i \in DOMAIN Children(s, n) |->
                     <<Children(s, n)[i], Measure(s, Children(s, n)[i])>>]

-----------------------------------------------------------------------------
(* w32_request_layout: the stack and what is above it, as far as a change  *)
(* of its size reaches, and up to one already marked.                      *)
Held(s, n) == IF n \in s.hidden THEN s ELSE [s EXCEPT !.held = @ \cup {n}]
Queued(s, n) ==
  Held([s EXCEPT !.pending = @ \cup {n}, !.queue = @ \cup {n}], n)
Reaches(s, n) == IsStack(s, n) /\ s.pin[n] = 0
(* "A stack already owed a layout had its ancestors marked when it was":   *)
(* one of them may have been laid out at once since.                       *)
RECURSIVE AncestorsOwed(_, _)
AncestorsOwed(s, n) ==
  LET p == s.parent[n]
  IN Reaches(s, n) /\ p # 0 /\ IsContainer(s, p) => p \in s.pending /\ AncestorsOwed(s, p)
RECURSIVE Climb(_, _)
Climb(s, n) ==
  CASE n = 0 -> s
    [] n # 0 /\ (~IsContainer(s, n) \/ n \in s.gone) -> s
    [] n # 0 /\ n \in s.pending -> [s EXCEPT !.missed = @ \/ ~AncestorsOwed(s, n)]
    [] OTHER -> IF Reaches(s, n) THEN Climb(Queued(s, n), s.parent[n]) ELSE Queued(s, n)
Request(s, n) == [Climb(s, n) EXCEPT !.posted = TRUE]

(* stack_do_layout: every child gets the height it measured as; one whose  *)
(* rectangle changes hears WM_SIZE, and a container then lays out its own. *)
(* A wrapping label that needs another height at the width it now has      *)
(* sends a stack round again.                                              *)
RECURSIVE Lay(_, _)
Lay(s, n) ==
  LET got == Measures(s, n)
      High(p) == IF s.kind[n] = "scroll" /\ p[2] < s.high[n] THEN s.high[n] ELSE p[2]
      Give(t, p) ==
        LET moved == [t EXCEPT !.wide[p[1]] = t.wide[n], !.high[p[1]] = High(p)]
        IN IF moved = t \/ ~IsContainer(s, p[1]) THEN moved ELSE Lay(moved, p[1])
      laid == FoldLeft(Give, [s EXCEPT !.pending = @ \ {n}, !.seen[n] = got], got)
      rewrapped == \E i \in DOMAIN got :
                     s.kind[got[i][1]] = "wrapping" /\ Measure(laid, got[i][1]) # got[i][2]
  IN IF rewrapped /\ IsStack(s, n) THEN Request(laid, n)
     ELSE [laid EXCEPT !.missed = @ \/ rewrapped]

(* One pass of the flush: the holds end, then the queue, outermost first.  *)
(* MUTANT of Pass: it forgets the stacks a layout at once has served.      *)
PassPending(s) ==
  LET batch == SetToSortSeq(s.queue, LAMBDA a, b : a < b)
      start == [s EXCEPT !.held = @ \ (s.queue \cap s.pending), !.queue = {}]
      One(t, n) ==
        IF n \notin t.pending THEN t
        ELSE IF n \in t.gone THEN [t EXCEPT !.pending = @ \ {n}, !.held = @ \ {n}] ELSE Lay(t, n)
  IN FoldLeft(One, start, batch)
Pass(s) ==
  LET batch == SetToSortSeq(s.queue, LAMBDA a, b : a < b)
      start == [s EXCEPT !.held = @ \ s.queue, !.queue = {}]
      One(t, n) ==
        IF n \notin t.pending THEN t
        ELSE IF n \in t.gone THEN [t EXCEPT !.pending = @ \ {n}, !.held = @ \ {n}] ELSE Lay(t, n)
  IN FoldLeft(One, start, batch)
RECURSIVE Passes(_, _)
Passes(s, n) == IF n = 0 \/ s.queue = {} THEN s ELSE Passes(Pass(s), n - 1)
FlushLayout(s, passes) == [Passes(s, passes) EXCEPT !.posted = FALSE]

-----------------------------------------------------------------------------
(* What an application does to the tree.                                   *)
(* A scroll area laid out already is not laid out again for its document.  *)
Unheard(s, p) == [s EXCEPT !.missed = @ \/ s.wide[p] # 0]
AddChild(s, p, c) ==
  LET into == [s EXCEPT !.parent[c] = p, !.hidden = @ \ {c}]
  IN IF IsStack(s, p) THEN Request(into, p) ELSE Unheard(into, p)
(* What is left of the removed ones does not matter, and is made one.      *)
RECURSIVE Under(_, _)
Under(s, n) == {n} \cup UNION {Under(s, c) : c \in {d \in Nodes(s) : s.parent[d] = n}}
RemoveChild(s, c) ==
  LET p == s.parent[c]
      under == Under(s, c)
      dead == [s EXCEPT !.gone = @ \cup under, !.hidden = @ \ under,
                        !.wide = [n \in Nodes(s) |-> IF n \in under THEN 0 ELSE @[n]],
                        !.high = [n \in Nodes(s) |-> IF n \in under THEN 0 ELSE @[n]],
                        !.want = [n \in Nodes(s) |-> IF n \in under THEN 1 ELSE @[n]],
                        !.pin = [n \in Nodes(s) |-> IF n \in under THEN 0 ELSE @[n]],
                        !.seen = [n \in Nodes(s) |-> IF n \in under THEN <<>> ELSE @[n]]]
  IN CASE p = 0 -> dead [] p # 0 /\ IsStack(s, p) -> Request(dead, p) [] OTHER -> Unheard(dead, p)

(* height(n): told to the parent, in its turn.                             *)
SetHeight(s, n, px) ==
  IF s.pin[n] = px THEN s
  ELSE LET pinned == [s EXCEPT !.pin[n] = px]
       IN IF s.parent[n] = 0 THEN pinned ELSE Request(pinned, s.parent[n])
(* set_height(n): the window alone; nothing above it is told.              *)
SetHeightImpl(s, n, px) ==
  LET sized == [s EXCEPT !.pin[n] = px, !.high[n] = px]
      laid == IF s.high[n] # px /\ IsContainer(s, n) THEN Lay(sized, n) ELSE sized
  IN [laid EXCEPT !.missed = @ \/ s.parent[n] # 0]

(* A label's new text: its own stack is laid out, at once; what is above   *)
(* it is not told.                                                         *)
SetText(s, n, lines) ==
  LET new == [s EXCEPT !.want[n] = lines]
      p == s.parent[n]
  IN IF p = 0 THEN new
     ELSE IF ~IsStack(s, p) \/ Measure(new, n) = s.high[n]
          THEN [new EXCEPT !.missed = @ \/ Measure(new, n) # Measure(s, n)]
          ELSE [Lay(new, p) EXCEPT !.missed = @ \/ Measure(new, p) # Measure(s, p)]

(* Shown or hidden: every container above, from the inside out, at once.   *)
RECURSIVE LayUp(_, _)
LayUp(s, n) ==
  IF n = 0 THEN s
  ELSE IF Reaches(s, n) THEN LayUp(Lay(s, n), s.parent[n]) ELSE Lay(s, n)
SetHidden(s, n, hidden) ==
  LET freed == [s EXCEPT !.held = @ \ {n}]
  IN IF (n \in s.hidden) = hidden THEN freed
     ELSE LayUp([freed EXCEPT !.hidden = IF hidden THEN @ \cup {n} ELSE @ \ {n}], s.parent[n])

(* The window is resized.                                                  *)
Resized(s, w) == IF s.wide[1] = w THEN s ELSE Lay([s EXCEPT !.wide[1] = w], 1)
=================================================================================
