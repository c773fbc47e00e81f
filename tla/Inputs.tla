-------------------------------- MODULE Inputs --------------------------------
(***************************************************************************)
(* One form of controls on one backend: two fields bound to cells (Fields),*)
(* or one of the controls that hold a choice (Choosers). A step is one     *)
(* entry from outside, a person, the application or the native control's   *)
(* late report, run to its end on the UI thread with all it calls.         *)
(***************************************************************************)
EXTENDS Fields, Choosers

CONSTANTS
  Backends,    \* of "gtk", "win32" and "android", those looked at
  Forms,       \* of the forms below, those looked at
  Apps,        \* of "plain", "tidy", "insert" and "validate"
  Texts,       \* the texts typed and set
  Toggles,     \* the toggles of a form
  MaxBinds,    \* bound: bindings made
  MaxRows,     \* bound: rows of a picker, pages ever pushed
  Top, Steps,  \* a slider's range and the steps of its track, fewer
  MaxBar,      \* bound: a scrollbar's max and page
  TabsMax,     \* TABS_MAX, 16 in the code
  NavDepth     \* NAV_STACK_MAX_DEPTH, 32 in the code

ASSUME InputsAssumption ==
  /\ Backends \subseteq {"gtk", "win32", "android"}
  /\ Forms \subseteq {"fields", "radios", "picker", "slider", "scrollbar", "tabs", "nav"}
  /\ Apps \subseteq {"plain", "tidy", "insert", "validate"}
  /\ "" \in Texts
  /\ {MaxBinds, MaxRows, TabsMax, NavDepth} \subseteq Nat
  /\ {Top, Steps, MaxBar} \subseteq Nat \ {0} /\ Steps < Top

VARIABLES
  backend,  \* the one this process was built with
  form,     \* which form this is
  st,       \* its state, as Fields or Choosers have it
  last      \* the step just made: what it did, to which field, with what

vars == <<backend, form, st, last>>

Step(op, f, t) == [op |-> op, field |-> f, text |-> t]
Idle == Step("none", "f1", "")

(* Only GTK's password entry differs from another single line.             *)
Kinds == IF backend = "gtk" THEN {"entry", "area", "secure"} ELSE {"entry", "area"}

Init ==
  /\ backend \in Backends /\ form \in Forms /\ last = Idle
  /\ \/ /\ form = "fields"
        /\ \E app \in Apps, k2 \in Kinds : st = Fresh(backend, app, k2)
     \/ form = "radios" /\ st = NewToggles(Toggles)
     \/ form = "picker" /\ \E drawn \in BOOLEAN :
          (drawn => backend = "gtk") /\ st = NewPicker(drawn)
     \/ form = "slider" /\ st = NewSlider
     \/ form = "scrollbar" /\ st = NewBar
     \/ form = "tabs" /\ \E home \in BOOLEAN : st = NewTabs(home)
     \/ form = "nav" /\ \E counted \in BOOLEAN : st = NewNav(counted)

Becomes(new) == st' = new /\ UNCHANGED <<backend, form>>

-----------------------------------------------------------------------------
(* The fields. Each entry starts a new log; garbage is what freed memory   *)
(* will be found to hold.                                                  *)
Enters(op, f, t, New(_)) ==
  \E g \in (IF st.fields["f2"].kind = "secure" THEN Texts ELSE {""}) :
    /\ form = "fields" /\ last' = Step(op, f, t)
    /\ Becomes([New([st EXCEPT !.log = Log, !.garbage = g]) EXCEPT !.garbage = ""])

Type(f, t) ==
  t # st.fields[f].text /\ Enters("type", f, t, LAMBDA s : Edited(s, f, t))
AppSetText(f, t) == Enters("set_text", f, t, LAMBDA s : SetText(s, f, t, "none"))
Drive(f, t) ==
  IF backend = "win32" THEN Enters("drive", f, t, LAMBDA s : Win32Driven(s, f, t))
  ELSE AppSetText(f, t)
SetState(type, c, v) == Enters("set_state", "f1", v, LAMBDA s : SetAs(s, type, c, v))

BindSome(k, c, w, inv) ==
  /\ Len(st.binds) < MaxBinds
  /\ \A j \in DOMAIN st.binds : st.binds[j].kind # k \/ st.binds[j].widget # w
  /\ Enters("bind", "f1", "", LAMBDA s : Bind(s, Binding(k, c, w, inv)))

FieldStep ==
  \/ \E f \in Fields, t \in Texts : Type(f, t) \/ AppSetText(f, t) \/ Drive(f, t)
  \/ \E t \in Texts : SetState("string", "name", t) \/ SetState("string", "ok", t)
  \/ \E on \in BOOLEAN : SetState("bool", "ok", on)
  \/ \E f \in Fields : BindSome("value", "name", f, FALSE)
  \/ BindSome("text", "name", "label", FALSE)
  \/ BindSome("enabled", "ok", "button", FALSE)
  \/ BindSome("hidden", "name", "button", TRUE)

(* The choices. Radio groups are made before anything is switched on.      *)
Chosen(f, New) == form = f /\ New # st /\ Becomes(New) /\ last' = Idle

Group(m, o) == m # o /\ (\A t \in Toggles : ~st.on[t] /\ ~st.told[t])
               /\ st.next <= Cardinality(Toggles) /\ Chosen("radios", SetGroup(backend, st, m, o))
RadioStep ==
  \/ \E m \in Toggles : Chosen("radios", ToggleClick(backend, st, m))
  \/ \E m \in Toggles, v \in BOOLEAN : Chosen("radios", ToggleSet(backend, st, m, v))

PickerStep ==
  \/ st.n < MaxRows /\ Chosen("picker", AddPick(backend, st))
  \/ \E i \in 0 .. st.n - 1 : Chosen("picker", PickSet(backend, st, i))
  \/ \E i \in 0 .. st.n - 1 : MayPick(st, i) /\ Chosen("picker", Picked(backend, st, i))
  \/ st.drawn /\ Chosen("picker", TriggerClicked(st))
Reported == st.late /\ Chosen("picker", SpinnerReports(st))

SliderStep ==
  \/ \E v \in 0 .. Top : Chosen("slider", SlideSet(backend, st, v, Top, Steps))
  \/ \E k \in 0 .. (IF backend = "gtk" THEN Top ELSE Steps) :
       Chosen("slider", SlideDrag(backend, st, k, Top, Steps))

BarMoves ==
  \/ \E max, page \in 1 .. MaxBar, v \in -1 .. MaxBar :
       Chosen("scrollbar", BarConfigure(st, max, page, v))
  \/ \E v \in -1 .. MaxBar : Chosen("scrollbar", BarUserSet(st, v))
  \/ \E back \in BOOLEAN : Chosen("scrollbar", BarStep(st, back))

TabStep ==
  \/ st.n < MaxRows /\ Chosen("tabs", TabAdd(backend, st, TabsMax))
  \/ \E i \in -1 .. MaxRows : Chosen("tabs", TabSelect(backend, st, i))

NavMoves ==
  \/ \E page \in 1 .. MaxRows \ Range(st.pages) :
       Chosen("nav", NavPush(backend, st, page, NavDepth))
  \/ Chosen("nav", NavPop(backend, st))

Next ==
  \/ form = "fields" /\ FieldStep
  \/ form = "radios" /\ RadioStep
  \/ form = "radios" /\ \E m, o \in Toggles : Group(m, o)
  \/ form = "picker" /\ PickerStep
  \/ form = "picker" /\ Reported
  \/ form = "slider" /\ SliderStep
  \/ form = "scrollbar" /\ BarMoves
  \/ form = "tabs" /\ TabStep
  \/ form = "nav" /\ NavMoves

Spec == Init /\ [][Next]_vars

-----------------------------------------------------------------------------
AgreeNow == \A j \in DOMAIN st.binds : Agree(st, st.binds[j])

(***************************************************************************)
(* A two-way binding stays two-way: whoever writes, a person, a handler    *)
(* that writes the cell again, an observer that types into another field,  *)
(* fields that agree with their cells agree when the entry is over. Only   *)
(* Win32's own writes are not written back (EN_CHANGE is suppressed), until*)
(* the next set of the cell.                                               *)
(***************************************************************************)
Win32Write == backend = "win32" /\ last'.op = "set_text"
BindingsAgreeAfterwards ==
  [][form = "fields" /\ (AgreeNow \/ (last'.op = "set_state" /\ st'.log.sets["name"] > 0)) /\ ~Win32Write
       => AgreeNow']_vars

(***************************************************************************)
(* An edit is told to on_change once, and a write of the toolkit's or the  *)
(* application's own is not told. The exceptions are the code's: an        *)
(* observer that types from within a programmatic write of the very field  *)
(* on GTK, of any field on Android, is not heard; the driver's set_text on *)
(* Win32 is told twice on a single line.                                   *)
(***************************************************************************)
EditsHeardOnce ==
  form = "fields" =>
    \/ Len(st.log.told) = st.log.edits
    \/ backend # "win32" /\ st.app = "insert" /\ Len(st.log.told) <= st.log.edits
    \/ last.op = "drive" /\ st.fields[last.field].kind # "area"

(***************************************************************************)
(* What is written arrives. Where the application rewrites nothing, the    *)
(* cell holds after an entry what the entry wrote, every observer saw only *)
(* that, and saw it with the bound fields already in agreement. The        *)
(* exceptions are the code's: a bound GTK password field is emptied first, *)
(* and the emptying is written back; so is that of a bound text view the   *)
(* application writes itself; Win32's writes are not written back.         *)
(***************************************************************************)
BoundTo(f) == \E j \in DOMAIN st.binds : st.binds[j].kind = "value" /\ st.binds[j].widget = f
Rewrites ==
  \/ backend = "gtk" /\ \E f \in Fields : BoundTo(f) /\ st.fields[f].kind = "secure"
  \/ backend = "gtk" /\ last.op = "set_text" /\ st.fields[last.field].kind = "area"
  \/ backend = "win32" /\ last.op = "set_text"
WritesArrive ==
  form = "fields" /\ st.app \in {"plain", "validate"} /\ ~Rewrites =>
    /\ last.op \in {"type", "set_text", "drive"} =>
         /\ st.fields[last.field].text = last.text
         /\ BoundTo(last.field) => st.cells["name"] = last.text
    /\ \A j \in DOMAIN st.log.seen :
         /\ st.log.seen[j].agree
         /\ st.log.seen[j].cell = "name" => st.log.seen[j].val = st.cells["name"]

(* A bound field keeps no edit to itself and makes none up.                *)
FieldsHold == EditsHeardOnce /\ WritesArrive

(***************************************************************************)
(* Of the members of a radio group at most one is on, whoever switches it. *)
(* Win32 enforces it on a click only: a form whose application has written *)
(* a toggle there is excepted.                                             *)
(***************************************************************************)
OneOfGroup ==
  form = "radios" /\ ~(backend = "win32" /\ st.written) =>
    \A m, o \in Toggles : st.on[m] /\ st.on[o] /\ o \in Mates(st, m) => m = o

(***************************************************************************)
(* The application knows the choice on screen: what it was told last, or   *)
(* set, is what the control shows and reads as, and lies in the control's  *)
(* range. The exceptions: the drawn picker's silent programmatic set, the  *)
(* Spinner's report still to come, and Android's slider dragged back to    *)
(* the step it was set at.                                                 *)
(***************************************************************************)
ToldTheChoice ==
  /\ form = "radios" => \A m \in Toggles : st.on[m] => st.told[m]
  /\ form = "picker" /\ st.n > 0 =>
       /\ st.told = st.selected \/ st.silent
       /\ backend = "android" => (st.native = st.selected \/ st.late)
       /\ st.selected \in 0 .. st.n - 1 /\ st.open <= st.n
  /\ form = "slider" =>
       \/ SlideRead(backend, st, Top, Steps) = st.told
       \/ backend = "android" /\ st.step = st.at
  /\ form = "scrollbar" => st.told = st.value /\ st.value \in 0 .. TopOf(st)
  /\ form = "tabs" /\ st.n > 0 => st.told = st.selected /\ st.shown = {st.selected}

(***************************************************************************)
(* A navigation stack shows its top page and that alone, and counts its    *)
(* pages. The exceptions: a stack whose handle is beyond the tables keeps  *)
(* no count, and Win32 forgets pages pushed beyond the depth it records.   *)
(***************************************************************************)
TopShown ==
  form = "nav" /\ ~st.over =>
    /\ st.shown = IF st.pages = <<>> THEN {} ELSE {Last(st.pages)}
    /\ st.counted \/ backend = "android" => st.depth = Len(st.pages)

(* What a control shows, what it reads as, and what the application was    *)
(* told of it are one choice, in every form of control.                    *)
ChoicesHold == OneOfGroup /\ ToldTheChoice /\ TopShown
=============================================================================
