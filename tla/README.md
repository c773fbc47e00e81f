# A TLA+ model of aether-ui

aether-ui is a declarative widget toolkit for the Aether language: a module of
Aether code (`ui/module.ae`) over a C ABI that five backends implement (GTK4,
Win32, AppKit, UIKit, Android), with the state that all backends share in
`backend/aether_ui_system_extras.c`. These modules model the parts that keep
state and have a protocol: who may call what when, what is freed when, what an
observer sees. Colours, fonts and the platforms' own drawing are left out.

## Inventory

Almost everything runs on the UI thread. What makes the code hard is that its
calls nest: a closure of the application runs in the middle of a loop over the
very list it may change, of a pass that it may start again, of a frame in which
a dialog turns another event loop. Threads appear at two places: the pool that
runs background work, and the HTTP thread of the driver.

| Component | State | Operations | Hard behaviour |
|---|---|---|---|
| Undo stack (`system_extras.c` 839-1010, `module.ae` 4213-4245) | array of edits, length, cursor, open group, push count | `undoable`, `undo`, `redo`, `undo_group` | a full stack drops its oldest edit and shifts all indices; a group's end merges edits; every closure has one owner |
| State hub (`module.ae` 1764-2040, `system_extras.c` 738-812) | observers, dirty and dead marks, batch depth, pending, firing | typed sets, `ui_batch`, `computed_s`, `each_bind` | passes nest in passes; the list grows under them; owners die in mid-pass |
| Background jobs (`module.ae` 591-695, `system_extras.c` 746-807) | table of 1024 jobs under a lock, next id | `background`, `background_for`, `background_cancel`, `background_cancelled` | pool threads poll while slots change hands; cancel and owner's death race the completion |
| Frame clock (`system_extras.c` 1156-1310, native clocks in each backend) | subscribers, mode, timer, native flag, dispatch depth | `on_frame`, `frame_cancel`, native frames, fallback ticks | cancel and subscribe inside a frame; native clocks that stall or never start; nested loops |
| Listbox (`module.ae` 4951-5577) | items, row handles, selected, flags, anchor; the class and the tab stop of each row | clicks with modifiers, keys, select, set, clear, update, move | one fact in several places; every update throws the rows away |
| each (4861-4948) | container, count | `each`, `each_update` | rebuilding a container destroys the owners of observers |
| Menus (`system_extras.c` 287-432, each backend) | records, the platform's items, command ids, accelerators, graveyard | add, clear, relabel, pop up, choose, invoke | an item's closure clearing its own menu; a full table; ids that outlive a rebuild |
| Tray (`aether_ui_sni.c`) | snapshot of a menu, its revision, the bus | set the menu, GetLayout, AboutToShow, Event | a host in another process with a layout of its own |
| Driver (`aether_ui_test_server.c`, hooks in each backend) | registry, seals, modifiers, the request | HTTP routes, hop to the UI thread, verbs, listings | two threads; closures that remove what is driven |
| Canvas (each backend, `vg/backend/gtk.ae`) | command list, surface, clip, cache | emit, clear, draw, resize, read a pixel | four replays of one list; partial repaints; a keyed cache |
| Inputs and choosers (each backend) | text, value, selection, bindings to cells, pages | type, set, drive, bind, choose, push, pop | one value in three places; writes that notify writers |
| Windows and overlays (each backend) | windows, entries, transitions, timers, the loop | create, show, close, open, toast, tooltip, quit | exits that take time; windows closing under their overlays; three who close |
| Timers (`system_extras.c` 1095-1154, each backend) | timer list or source, boxes, graveyard | `timer`, `timer_once`, `timer_cancel` | cancel in one's own tick; ticks nested in ticks; a thread that posts |
| Keys (each backend) | shortcuts, chords and their prefix, handlers, claim | register, a person's press, the driver's | five layers in an order of each backend's own |
| Layout (each backend; deferred on Win32) | weights, minima, grid cells, queue, holds | measure, divide, request, flush | clamping and rounding; requests while laying out |
| Dragging (each backend) | what is dragged, the bar, the pressed file | press, move, drop, cancel, rebuild | indices remembered across a rebuild |
| Table, tree, virtual list, data grid (`module.ae` 5665-9930) | views minted over the application's list, expansion, windows, hidden rows | update, sort, filter, expand, scroll | views aliased with models; indices across rebuilds |
| Dialogs, commands, styles, themes, accessibility, vg, icons, frames | tables, compositions and drawing state | | little protocol of their own, or pure computation |

The components interact by calls on the UI thread: a cell's set reaches the hub
through the backend's notify, the hub runs an `each_bind`, which empties a
container of the registry and so kills the owners of other observers; a table or
tree holds a listbox; completions of jobs reach the UI thread through the
backend's poster; overlays and the frame clock stand on timers. Observers and
jobs ask the registry whether an owner lives.

What makes each correct: the undo stack says what the document holds and owns
each closure once; an observer is never left on old values and never runs without
its owner; a job ends in exactly one of its closures; every subscriber gets every
frame once and is not freed under its call; what a listbox shows, what it thinks
selected and where the focus goes agree, whatever updates come; a menu's click runs
the item it was on; a driven action is a person's, and its answer is true; a list of
commands draws the same on every backend; what a control shows is what the
application was told; nothing stays on the screen, or keeps the loop, that was
closed; keys and drags do what they were aimed at; a container stands as its
children measure.

`PROJECT.json` lists the components with their sources, and the hazards at their
lines.

## The modules

**UndoStack** has the C variables under their names. The array is a function on
`0 .. CAP-1`; an edit's two closures are one number, the count of the push that
made them. `Undoable`, `Undo`, `Redo`, `GroupBegin`, `GroupEnd` are the five entry
points, and `GroupEndNoMemory` is the end whose allocation fails. What closures do
to the application is the strictest thing they could do: `doc` is a list of edits
in force, an undo closure takes off its edit only if that edit is the last, and
leaves a mark otherwise, so an undo in the wrong order is seen for ever.
`opened` remembers the push count of an outermost begin, for `GroupIsOneStep`.
`StepInGroup` says whether a group's block may call `undo` and `redo`.
**UndoClosures** makes the call of an undo or redo closure a stretch of time, in which
the application may record; its configuration shows what then goes wrong.

**StateHub** keeps the call stack of the UI thread: one frame for each notify
pass, flush, observer body, registration and open batch, with the loop's index in
it. A step is one turn of one loop, so every point at which application code can
run between two turns is a state. An execution has a fixed wiring, a graph of
observers from **StateHubMC**: computed cells write other cells (in a batch of
their own or not), an `each_bind` belongs to a widget and may hold rows with an
`each_bind` of their own, which die and are registered again at every rendering.
A derived cell holds the pair of values its observer read, so that a stale one
differs from a fresh one.

**JobContract** is the abstract promise: a call is refused, or accepted and then
ended in `done` or `dropped` according to whether it is still wanted.
**BackgroundJobs** is the code: the locked table, the ids, the moments inside
`background_for` and inside the completion (decide, end the job, call), the pool
threads that start, poll and return. It implements the contract (`ContractLive`)
with the job cancelled exactly when the application cancelled it in flight. A pool
thread may in truth take the work before `background_for` has returned the id; the
work can tell nothing from this, as the UI thread does nothing else in between,
and the model lets it start right after.

**FrameClock** keeps a stack of deliveries, because a subscriber may turn a nested
event loop. `DeliverTurn` goes to the next subscriber, and while its call is under
way (`calling`) the application adds and cancels, and other frames may arrive.
Time is counted in display periods and only its distance to the last native frame
is kept. An execution has one backend's native clock: GTK's tick callback, which a
stop inside it only asks to end (`in_tick`, `stop_req`); Win32's thread, which posts a
message with the clock's generation and finds out late that there is no compositor
(`no_dwm`); Android's callbacks, which are posted one by one and carry a generation.
When a native clock fires, and whether it does, is nondeterministic.

**ListBox** counts rows from 1, with 0 for the code's -1. A row is its class
(`marked`) and its focusable flag (`stop`). A key is two steps, as `on_select` runs in
the middle of its handler: `Key` selects, and `KeyReturns` goes on with the row it had
(`next`), whatever the application did meanwhile. `ListboxUpdate(prev, new)` is
`listbox_update`, where `prev` is what the list the widget holds contains by then:
the old items if the application passes another list (`Update`), already the new
ones if it changed that list (`UpdateInPlace`) or if `listbox_move` did (`Move`). A
multi listbox whose own list has grown reads its old flags beyond their end: each such
flag is any value (`Stray`). Indices passed by the application are rows of the list:
the code does not check them. `Return` and double clicks change no state.

**Table** puts a table over it: the application's lists and the view lists the table
mints are numbered, so that a view may be the application's own list, and `lists` has
those not yet freed. `Cell` says what the application's cell closure gives for an item
and a column: a text with a number or without. **Tree** is over any forest, given by the
`Parent` of each node in the order of a walk; a row is a record of its node and of the
flattening that made it (`turn`), as each flattening frees and mints them all. **Lists**
is listbox, table and tree together, one form at a time. **Grid** is the data grid by itself, a record with
the names of the code's struct: the rows and columns not hidden (`vrows`, `vcols`,
`scols`), the window (`first_row`, `first_col`), what each slot and position shows, which
boxes are hidden and which of them for a merge (`box_off`, `cell_off`), cursor, anchor
and editor. Each entry is run to its end, the `on_select` in its middle included, which
either does nothing or opens an editor. Slots and positions count from 1. What it leaves
out (column widths, a selection of several areas, Ctrl+arrows over filled cells, floats,
styles, the glide) decides neither where the cursor is nor what is shown.
**ListsMC** has the cells, the tree of four nodes and the grids of the run, and puts the
grid beside the lists, with which it shares no code.

**Menus** keeps a menu in its three places: the shared store, the platform's items
and what finds an item's closure (GTK's actions, Win32's command ids, Android's
record). Its `backend` is chosen once. A click on Win32 is a command that arrives
later, so that the menu may be rebuilt in between. **TrayMenu** puts the tray on
top of it: the numbered snapshot, and a D-Bus host that shows the layout it fetched
last. The store has three slots, so that it fills.

**DriverVerbs** says what each verb of the driver does to a widget on each backend,
with the checks before it and the status after, as operators from a widget to an
outcome; **Driver** puts them between the HTTP thread, the UI thread, a person's
clicks, posted closures and a tree that is not laid out. A closure is named by its
widget, and may remove that widget.

**CanvasInk** replays a command list by cairo, by Skia and by GDI+ (and the older
GDI path), each with its own bookkeeping of path, clip, layers and smoothing, to the
ink it leaves: which command marks with which figures, clips and layers, and whether an
image is sampled smoothly or nearest. **Canvas** records what vg emits, draws, resizes
and reads pixels; **CanvasMC** has the figures and scenes of its run. Colour and geometry
are left out, but that an image is drawn larger than its pixels or is not.

**Fields** are two text fields bound to cells, and the observers an application may
have on them; **Choosers** are radios, picker, slider, scroll bar, tabs and
navigation. **Inputs** makes steps of them: one form at a time on one backend, each
entry run to its end with all it calls.

**Surfaces** (windows, overlays, toasts, tooltips, the loop), **Timers**, **Keys**,
**Layout**, **Reflow** and **Drag** are written the same way, as operators from a
state to the next on the backend the state names. **Shell** makes the steps of all but
the two of layout, one form at a time, since the parts share no state; **ShellMC** adds
those two, which are recursive, for TLC. Surfaces counts windows from 1, the
primary one; an entry's exit and a toast's timer are steps of their own, and a
process that touched freed memory (`torn`) or whose loop is over has none. Timers
keep a stack of ticks, because a closure may turn a nested loop. Keys take a press
from a person or from the driver to its end, and log the layers that acted. Layout
divides small integers exactly as the code's integer division does. Reflow is a
tree of four nodes with what each container measured when it was laid out last
(`seen`); `missed` records that the code did not tell the containers above a change,
and ends the behaviour. Drag has two stacks of children whose lengths are a constant (`Long`; `Stacks` is what
they show to begin with, `Remade` which of them the application rebuilds), and widgets
that carry paths.

**Sweeping** says what a sweep of a list of callbacks keeps; the hub's list and the
clock's are swept the same way. The `*Proofs` modules hold the theorems. In every
module a definition headed MUTANT is a plausible bug that stands in for the definition after it to see that
the property notices.

## The runs

| Run | Shows | Bounds |
|---|---|---|
| `UndoStack.cfg` | `HistoryInOrder`, `OwnedOnce`, `NoLeak`, `GroupIsOneStep` | capacity 3, 5 pushes, groups nested twice: overflow, truncation and groups of 0 to 3 edits meet in all orders |
| `UndoStackCap.cfg` | violation: a group on a full stack is not one step | same |
| `StateHubMC.cfg` | `Settled`, `OrphansNeverRun`, `InputBatchIsOneChange`, `EveryPassEnds` | six wirings of three observers, 3 sets, batches nested twice: enough for a batch inside a pass inside a batch |
| `BackgroundJobs.cfg` | `TableHoldsInFlight`, `ToldOnlyIfAsked`, refinement `ContractLive` | 4 calls (owned, ownerless, plain, owned), 2 slots, 2 threads: slots are refused and reused, stale ids cancelled |
| `FrameClock.cfg` | `DeliveriesHold`, `RunsIffSubscribed`, `NeverSilentlyStops` | three backends, 3 subscriptions, deliveries nested twice, a stall of 3 periods |
| `Lists.cfg` | `KeysHaveOnePlace`, `ItemsCarried`, `ViewsHold`, `GridHolds`, `CursorAlwaysSeen` | every list over 3 items, all three kinds; 2 lists of the application in three orders, 2 columns, one filter; a tree of 4 nodes, 3 of them from the start; grids of 4 by 1, 1 by 4 (one column frozen) and 3 by 2, one smaller window each, two changes to what is hidden, frozen, moved, merged or of another height, one in the last |
| `Menus.cfg` | `ClosuresHold`, `StoreMirrorsNative`, `ClickRunsItsItem` | two menus, 3 items, a store of 3 slots (full, and reused by the other menu), one clear inside a closure, three backends |
| `TrayMenu.cfg` | `ClickRunsShownLabel`, `HostCatchesUp` | one menu, 3 items, a snapshot of 2, two rebuilds |
| `Driver.cfg` | `NotFreedInEvent`, `ListingIsOneMoment`, `DrivenIsTheAction`, `RefusalIsTrue`, `RequestAnswered` | two widgets of four kinds, two requests and one act of a person or the application, three backends: a request meets what the one before left |
| `Canvas.cfg` | `InkAgrees`, `ReadsWhatIsListed` | lists of two shapes and a scope, or one and three; four figures (open, closed, two, a dot); images enlarged and not, smoothed and pixelated; two cells and sizes, two clears |
| `Inputs.cfg` | `FieldsHold`, `ChoicesHold`, `BindingsAgreeAfterwards` | two fields, two bindings, three texts, four observers; three toggles; pickers and pages of 3, beyond the tables' 2 |
| `Shell.cfg` | `SurfacesHold`, `TimersHold`, `KeysHold`, `LayoutHolds`, `DragHolds`, `LateStepsCome` | two windows and overlays, one toast slot; two timers, ticks nested twice; two keys and two bindings; three children over lengths to 12; trees of four; three children of different lengths dragged among two stacks, the first rebuilt at any moment (rebuilding the other too was 37 times the states, and passed) |

The type invariants are proved and not checked again where a module has a `Proofs`
module (`TypeOK`, or `Typed` in its invariant); those of the other modules hold on the same
configurations, where they can be put for a property while a module is being changed.

These configurations find a violation when they are checked. They are kept beside
the runs as demonstrations of the next section but one: `UndoClosures.cfg`,
`FrameClockNested.cfg`, `TrayMenuStale.cfg`, `DriverFreed.cfg`, `ShellReflow.cfg`. Others differ from a run's configuration by a
few lines, with the property named put for its properties:

- `HistoryInOrder`: `UndoStack.cfg` with `StepInGroup = TRUE`.
- `BatchIsOneChange`: `StateHubMC.cfg` with `Wirings <- DiamondOnly`.
- `LookMatchesModel`, `StopRidesSelection`, `KeyEndsOnARow`, `MoveKeepsTheItem`: the
  module `ListBox` by itself, `SPECIFICATION Spec`, `Items = {a, b, c}`,
  `NoItem = none`, `MaxRows = 3`.
- `SortedThroughout`: `Lists.cfg` (module `ListsMC`) with `Forms = {"table"}`,
  `Grids = FALSE`; `ListsOwned` also with `Rearms = TRUE`; `HighlightComesBack` and
  `TreeStopRides` with `Forms = {"tree"}`.
- `SealedIsRefused`: `Driver.cfg` with `SafeSpec`, `Backends = {"gtk"}`,
  `KindsTried = {"scrollbar"}`, `Handles = {1}`, `MaxRequests = 1`.
- `NothingFreedIsTouched`: `Shell.cfg` (module `ShellMC`) with `AllSafeSpec`,
  `Backends = {"gtk"}`, `Containers = {}`, `Forms = {"surfaces"}`, `GrowAt = 1`; `HeldPerWindow` with `GrowAt = 2`.

Deadlock is not checked where the system may stop: `BackgroundJobs` after its last
call with every job ended, `FrameClock` when its ids are used up and nobody
subscribes, `StateHub` after its last set, and the others when their bounds on what
a person or the application does are used up.

### Fairness

`StateHub`: the thread goes on with the calls it has made (`HubStep`) and a block
returns (`BatchEnd`); both are one sequential program. Nothing makes the
application act. `BackgroundJobs`: the event loop runs what was posted to it, the
pool runs what was queued, and the application's work returns; `Destroy`, `Cancel`
and new calls are not fair. `FrameClock`: a delivery goes on (subscribers return),
a running timer ticks, time passes. Nothing is assumed of the native clock, which
is the point of `NeverSilentlyStops`; a backend that has no timer to give is
excepted there, since nothing in the code would ever try again.

`TrayMenu`: the bus is acquired, and a host that was told fetches the layout.
`Driver`: the server thread and the UI thread go on, and closures return; no client
need send. `Shell`: a toast's timer fires, an exit's last frame comes, Win32's timer
thread posts, a closure returns. A tick's fairness is strong, because ticks of the
loop above may be in the way again and again: each loop takes what is due in turn.

## What disagrees

One run shows the code doing other than a comment says, a group recorded near the
capacity of the stack, which is not one undo step. The rest are shown by the
configurations named, or were met while reading; none of them is relied on by a
property, which excepts the case by name.

Shown by a configuration, or by one changed for the property named:

- `HistoryInOrder`: `undo()` inside a group brings an undone edit back
  (`system_extras.c` 867-870 against 976).
- `BatchIsOneChange`: a batch runs an observer over a diamond twice (`module.ae` 1862).
- `FrameClockNested`: a nested event loop makes frame times go back (`module.ae` 4519).
- `UndoClosures`: an undo or redo closure that records an edit frees the redo tail and
  so itself, and a redo then leaves the cursor past the stack's end
  (`system_extras.c` 932: "[cursor, len) redoable").
- `LookMatchesModel`: `listbox_update` does not mark the rows whose selection it carries
  (4995). `MoveKeepsTheItem`: `listbox_move` keeps the selected row and not the item (5310).
  `StopRidesSelection`: in a multi listbox a plain click and
  `listbox_set_selected` leave the tab stop behind (5150). `KeyEndsOnARow`: the key handler
  goes on with its row after an
  `on_select` that made the list shorter (5144).
- `SortedThroughout`: a number is compared with a number by value and with a text by text,
  which is no order, so a column of both may end sorted nowhere (5886).
- `ListsOwned`: `table_sorter` over a list that is not the one shown makes the next
  update free a list of the application's ("never the model list", 6170).
- `HighlightComesBack`, `TreeStopRides`: a tree expanded again selects the
  remembered node and does not mark it (6388), and its tab stop stays on the first row.
- `TrayMenuStale`: AboutToShow answers that the host's layout is valid after taking
  a newer snapshot, so that a number means another item (`sni.c` 477-483).
- `DriverFreed`: the graveyard is drained at "the only time no closure of ours can be
  executing" (`win32.c` 13814), but the driver calls some on the HTTP thread.
- `SealedIsRefused`: a sealed scroll bar, and a secondary click, drag or submit on GTK,
  is driven all the same.
- `NothingFreedIsTouched`: GTK's scrims, transitions and toasts hold pointers into the table of
  overlays, which moves when it grows.
- `HeldPerWindow`: an application that made a window before its run ends when that one
  closes (`gtk4.c` 5715: "HELD once per live window").
- `ShellReflow`: `set_height` tells nobody above, and after a synchronous layout of an
  ancestor a stack owed a layout has ancestors that are not (`win32.c` 1369).

Met while reading, and modelled as the code has it:

- Menus: a second clear inside one call frees the closure that runs; Android numbers
  the items of an open menu by place.
- Driver: `SET_TEXT` on Win32 runs `on_change` twice on a single line (the comments at
  1979 and 14659 of `win32.c` contradict each other); Android's direct verbs do not
  settle the layout; a client that sends nothing holds the UI thread.
- Canvas: Win32 enlarges an image with its nearest pixels, by GDI+ and by GDI, whatever
  its smoothing (`win32.c` 13315 and 11485), as the repository's README says at 477;
  `InkAgrees` compares the sampling too and states this as the one difference
  (`Unsmoothed`). Lists with gradients that Win32 draws otherwise are excepted (`Alike`):
  a gradient stroke closes no figure and draws no dot, a radial fill joins all its
  points, a fill of fewer than three points fills a box.
- Canvas: a GDI+ group that could not be opened, the ninth in a row, is still closed
  by its END, and so is Android's sixty-fifth; a GTK canvas resized with a clip
  pending, and two clips submitted before one paint, repaint too little
  (`ResizeUnderClip`, `OneClipPerPaint`).
- Inputs: a GTK password field bound both ways loses the value set; Win32's
  `set_text` on a bound field leaves the cell old; a Win32 radio's click on the active
  member switches it off; Android's slider reads the value set after the thumb was
  dragged away and back; navigation beyond the tables keeps no depth.
- Overlays: an entry of a closed window stays live; Escape does not run `on_dismiss`
  (`gtk4.c` 5480) and on Win32 closes no overlay; a scrim pressed again while its
  overlay exits dismisses again; Win32's seventeenth toast at a time stays; GTK's
  tooltip is always on the first window; Android mounts only the body again in a
  recreated activity, and its primary window ends the application.
- Timers: Android never frees a cancelled timer's box (`system_extras.c` 1108).
- Keys: on GTK a person's key that no chord has leaves the prefix armed (5406), and an
  accelerator breaks no chord; Win32's chord has no time limit; the driver fires
  every shortcut of a key (GTK, Win32), tells of an unused Tab twice (GTK), ignores a
  claim on Tab and Escape (Win32), and does neither when a handler is there (Android).
- Layout: Win32 does not reserve the margins of weighted children, several spacers
  leave a remainder, a removed child keeps its grid cell, and the sixty-fifth is
  refused silently; a spacer beside weights has weight 1 on GTK and none on Win32.
- Drag: the index taken at the press is not looked up again after a rebuild; on Win32
  a drop outside the stack moves, and a press let go outside a file's widget is
  remembered; on Android a drag that is cancelled is, and `draggable` takes the place
  of `reorderable` on the same widget.
- Table: sorting by a column and then by another does not keep the first as a second
  key (5919), since each sort starts from the model; `table_sort_by` with direction 0
  forgets the sort and leaves the rows sorted.
- Data grid: the cursor is not "always scrolled into view". Scrolling goes by height, and
  there are only `vis_rows` slots: with rows lower than the grid's (`set_row_height` takes
  8), or a hidden frozen row, the last rows cannot be reached (7353, 7700); a row too tall
  for the window's rest is skipped and a later one shown in its place; a cursor moved off a
  hidden row is measured against what was shown before (9170). With nothing left to show
  the cursor stays on what is hidden (9148). `datagrid_move_col` takes hidden columns under
  the cursor and the window past the last column. Down from a merge whose last row is
  hidden skips a row; Tab and Return on a merged cell stay in it. Read but not modelled:
  `slot_h` is written (6884) before it is allocated, a changed column width does not widen
  the merges over it until the next bind, and `datagrid_hide_row` and `datagrid_unmerge`
  look an index up before the edit they end calls the application.

Further comments are stale: the header of the listbox and the comment above
`listbox_update` still say that an update resets the selection; `_listbox_make` says
that `window_on_key` keeps a single closure, which no backend does any more; those of
the table say that it orders the model in place (5694, 5985, 6023), which it copies.

## What is proved

Every theorem holds for all values of the constants that the named `ASSUME`s of its
module allow; what a theorem assumes besides is said here.

`UndoStackProofs` proves, for every capacity, every set of labels and every bound, and
whether or not a block steps the stack, that the indices stay in the array (`TypeCorrect`)
and that no reachable edit owns a freed closure or shares one (`ClosuresOwnedOnce`).
`OwnedOnce` alone is not inductive, because a push must know that the number it takes is
new; `IInv` adds `Fresh`, that every pair on the stack was named by an earlier push. There
is one lemma per action; `Undoable` and the collapse of a group carry the weight, as they
move edits between slots.

Under `~StepInGroup` it also proves that no closure pair is lost (`NothingLeaks`), that the
end of a block which fits makes one undo step of it (`BlockIsOneUndo`) and that the
document is at all times what the edits behind the cursor did (`HistoryInOrderAlways`).
The assumption says that no block calls `undo` or `redo` itself, and is needed:
with `StepInGroup = TRUE` TLC shows the document go wrong. What carries these three is
`GroupInv`: while a block is open its edits are the top of the stack, none is a collapsed
group, and as long as they fit they lie in the order of their pushes from the slot the
group began at. For the document, a step's run is a fold over its closures, and the
lemmas say that the folds of the library are the closures run one after another, that
redoing a list appends it, and that undoing takes the same list off again; a collapse
then changes nothing because concatenating the members of a group's edits is the same
list of closures.

`WidgetsProofs` proves, for lists of any items and any length, any columns, cells and
filters, and any tree, the three properties of `Lists` that `Lists.cfg` checks. Its first
part is of the listbox by itself: a listbox with rows has exactly one tab stop and the
focus of a single-select list is on the selected row (`KeysHaveTheirPlace`), every index
it keeps is a row (`IndicesAreRows`), no row looks selected that is not, whichever write
of the class the code does last (`LookIsOfTheSelected`), and an update with any other list
carries the selection and the anchor by their items (`UpdatesCarryItems`). The invariant
says the first without counting (`StopIsOne`), and adds that a list which is not multi
has its stop on the selected row, or the first (`StopIsStopRow`): without it a click
could leave the stop of the row selected before. The update rests on there being as many
flags as items, so that no flag of the list before is read, and on the search of
`_listbox_index_of` finding an item's row whenever the list has one.

`OnePlaceInEach` extends the first to the table and the tree, in whatever way the sorter
is armed. `ViewsAreHeld` and `PickedIsCarried` assume `~Rearms`, that the application
arms the sorter over the list it shows or over none. The assumption is needed: armed over
another, the next update frees a list of the application's, as `ListsOwned` shows. Their
invariant `LInv` says that a table's view is its own or the list it was last given, that
the lists not freed are the application's and that view (`Owned`), and that what the
listbox has is what is in the view, which is the model filtered and sorted (`Showing`). Of
the last there are three parts. A sweep of a list keeps what passes and its order
(`SweepingProofs`). One turn of the insertion sort puts its item below the last that is
not above it (`InsertedAfter`), and what holds before the turn holds after (`OrderedNext`):
neighbours are in order, equal ones as the model has them, and in a column of one kind,
where the comparison is an order (`AboveFacts`), so are any two; `Climb` takes this to the
last turn. And what is sorted or filtered has the items it had, each once, so a selection
found again by item is the same selection (`SameSelection`). For the tree, that the selected
row is the remembered node's (`NodeIsSelected`) is kept because a node has at most one
row in a flattening (`FlatFacts`), and because the rows of two successive flattenings
differ in their `turn`, so that nothing is carried over by accident.

`WhatIsListedIsRead`, in the same module, is of the canvas: whatever a read or a look at
the surface finds is what the command list in force draws, for any scenes and sizes and
any figures vg emits. A surface that waits for a draw may show anything, so the invariant
(`SurfaceHolds`) says that it is right outside the cells of the pending one-shot clip; and
that the pixel cache, if its key is of this generation, was painted from what there was
when the list was that long, since in one generation a list only grows (`CacheHolds`). It
assumes `OneClipPerPaint` and `~ResizeUnderClip`; without them GTK repaints too little, as
the section above says.

`LoopProofs` proves, for every table size, number of calls, owners,
widgets and threads of background jobs, that the table holds exactly the jobs in flight
(`TableIsInFlight`), that no work is told of another call's cancellation
(`NoForeignCancel`), and that the code implements `JobContract` (`KeepsContract`,
the safety part of what `BackgroundJobs.cfg` checks with its liveness). They assume
`NoWrap`, at most `IdMax` calls in an execution: the code's counter comes back to 1
after 2^31 - 1 jobs and does not look whether that id is still in the table, so
without the assumption two calls in flight can share an id. The invariant is that
every call has an id of its own and the counter is below the number of every call
to come (`IdsInOrder`), so that a slot found by id is the right call's
(`OneSlotEach`) and its flag is that call's (`FlagsAsAsked`); and that what a
completion decided still stands when it calls `done` or `dropped`, since the UI
thread, being inside it, cancels and destroys nothing (`OneAtATime`, `KeepStands`).
That a search for the first free slot finds a free one is the well-foundedness of
the natural numbers, from the library.

`ClosuresAreHeld`, in the same module, is of timers: for any number of them, ticks nested
to any depth and any cancels, no closure is freed in its own tick, a one-shot ticks once,
and a cancelled timer's box is given back where the backend does so. The invariant says of
every timer what its flags and its box may be while a tick of it runs and while none does
(`TimerOk`). Cancelling one changes that timer alone (`TimerCancelIs`); what carries the rest
is that the tick of a one-shot cancels it before its closure runs, so that the nested loop
finds it dead, and that GTK and Win32 free a box only when no tick of it is on the stack.

`WhatIsOpenShows`, there too, is of windows and overlays, for any of them on each backend.
`SurfacesHold` is not inductive. About overlays one needs besides that an entry's window was
made, that a tooltip neither tweens nor exits, so that hiding it detaches it at once, and
that on Android a window's content outlives its window until the activity ends
(`EntryTrue`, `OneTip`); a press on a scrim is taken through the moment where `on_dismiss`
has been told and the overlay is still open (the entry waived in `EachTrue`). About windows
one needs that the registry has no window that is not up (`WinsTrue`), and that GTK's count
of uses is twice the number of live windows where all were made while the application ran
(`LoopTrue`): that is why its loop ends with the last window and not before. As in the
property, a process that has touched freed memory is out of it, and so is the loop of one
that made a window before its run.

`PressIsOneLayers`, there as well, proves `KeysHold` for any keys, and any number of chords,
shortcuts, handlers and scopes, on each backend. The invariant (`KeysInv`) is small: between
presses the log is empty, the prefix that is armed is the key of the press before, and only
Android's can have gone stale. The work is in the press. `FeedIs` says what the chords make
of a key, whichever backend feeds it; from there each backend's order of layers is followed to its
end, for a person and for the driver, and `EndsAs` is where it ends: one layer took the press
and the log is that layer's, or the handlers heard it once each and at most one deed
follows, which none of them claimed. What is left armed is settled in the same pass
(`Leftover`), which is what makes the next chord two presses in a row. That the driver's key
is one a person could have typed is a second comparison (`GtkCould`, `Win32Could`,
`AndroidCould`): on GTK the two can differ in a prefix left armed, and `SameSteps` carries
that difference through whatever follows the chords. The exceptions are those `OneLayer` and
`Apart` name. It assumes that no key is called `"none"`, the model's word for no prefix.

`DropsAreTrue`, the last of that module, proves `DragHolds` for stacks of any items of any
lengths, whichever of the two the application rebuilds, on each backend. What a drop moves
rests on `ReorderInv`: the index a drag remembers is the pressed child's for as long as its
stack was not rebuilt, though GTK looks it up only when the press becomes a drag. Where it
is moved to is arithmetic. What comes after a child begins below its end (`TopGrows`, over
the loop that adds the lengths up), so a point in a child is nearest to one of that child's own
two gaps (`GapAtIs`), and both come to the index it has: a drop on itself moves nothing.
Taking one child out and putting it in again keeps the order of the others (`MovedToIs`,
`WithoutIs`), and above it are then those above the gap (`AboveIs`). Of files,
`FilesInv` says that what Win32 still has of a press is that press, unless it was let go
elsewhere. The only assumptions are that lengths are natural numbers and that no stack
shows an item twice.

`SweepingProofs` proves what a sweep keeps: what it was to keep, all of it, nothing
else and in the same order.

`StateHubProofs` proves, for every number of cells, observers, widgets, sets and nested
batches, that no observer whose owner lives is left on old values once the thread is back
in its loop (`SettledAlways`), that none runs without its owner (`OrphansNeverRunAlways`),
that a batch is one change to an observer of what the application sets
(`InputBatchIsOneChangeAlways`) and that what a pass walks by index does not move
(`PassesKeepTheListAlways`). `Settled` speaks of an empty call stack only, so the invariant
says of every moment why an observer on old values will run: a pass over a cell it
watches has not come to its place yet, or it is marked and a flush will find the mark, or
its own body is about to read (`DirtyComes`, `StaleComes`). A step keeps such a reason or uses
it up. `FramesInOrder` says that `firing` counts the passes of the stack, so that a
sweep waits for all of them. About a wiring it assumes what the code's two constructors
give (`WiringAssumption`): `computed_s` registers with no owner and writes a cell,
`each_bind` is owned by the container it fills, and the cells are computed from each other
without a cycle (a set on a cycle never returns).

`FrameClockProofs` proves, for every number of subscriptions and of deliveries nested in
each other, on each backend, `DeliveriesAlways` (nobody called twice, nobody called who
came later, nobody freed under the call, nobody left out who was there and still is) and
`RunsIffSubscribedAlways`. A delivery walks a list by place; the invariant says that ids
increase along the list, are never given again, and that the list loses no entry while a
delivery is under way, so a place means the same subscriber from beginning to end. The
count of live subscribers is the number of live ids of the list. For the clocks it says
that no callback or thread is of a generation to come, so at most one of them is
believed, and that GTK's stop waits only inside a tick, which is a delivery.

`MenusProofs` proves, for any menus, labels and sizes of the tables, that the store the
driver and the tray read shows what the platform shows (`StoreMirrors`), that nothing
leads to a closure retired or freed (`NoClosureReachableAfterRetired`), that a click
runs its item (`ClickRuns`), and that a host with the newest layout runs what it shows
(`TrayClickRunsShownLabel`). It rests on ownership: a closure belongs to one item of one
menu, an id once given is not given again, a label is on one item of a menu.
`ClosuresKept` adds that a closure is not freed while it runs, and assumes
`ClearsPerRun <= 1`: a second clear within one call frees it, as the section above says.

`DriverProofs` proves the four safety properties of `Driver.cfg` for any widgets, requests
and acts on each backend. What carries them is the discipline of the two threads: a
request serviced on the UI thread finds it free and keeps it until a closure of its own
runs; calls of the driver's are under way only while the request waits for its answer;
and what is freed, or will be, is of a widget that is gone. The verbs are dealt with
once, as what a `Sound` outcome is on each backend.

## Only model-checked, and not modelled

Liveness stays with TLC (`EveryPassEnds`, `NeverSilentlyStops`, `HostCatchesUp`,
`RequestAnswered`, `LateStepsCome` and the live half of `ContractLive`). So do the
properties of modules that reach recursive operators: the grid's entries call each other
(`GridHolds`, `CursorAlwaysSeen`), a field's write and its observers do (`FieldsHold`,
`BindingsAgreeAfterwards`), and so do tabs (`ChoicesHold`) and layouts (`LayoutHolds`).
`InkAgrees` is of what whole replays leave
of whole lists, command by command on three renderers. The provers take
no induction over an operator, but they do over a set: `Climb` of `SweepingProofs` gives
induction over the places of a list for a recursive function or a library fold with a
fixed operator, which is how sweeps, undo's folds and the table's sort are proved. What Canvas and Layout
compute is checked over all inputs within the bounds.

Not modelled: drawing, text, styles, accessibility and the native calls of the
backends; AppKit and UIKit; the closures' reference counts below the box that an
edit, an item, a timer or a subscriber owns; the virtual list;
dialogs, commands and keymap, which add no state to what they are built of; applications.

## Plan

1. What the data grid leaves out: several areas, column widths under merges and floats,
   and an `on_edit` that calls the grid.
2. The theorem worth proving next: `InkAgrees`, which needs an invariant of each renderer's
   replay, command by command.
