-------------------------------- MODULE Table --------------------------------
(***************************************************************************)
(* The table of ui/module.ae: a single-select listbox under a row of       *)
(* headers, which shows a view of the application's list, filtered and     *)
(* sorted.  With no filter and no sort the view is that list itself, and   *)
(* else one the table has minted and must free, never while the listbox    *)
(* holds it.                                                               *)
(***************************************************************************)
EXTENDS ListBox, FiniteSetsExt, Sweeping

CONSTANTS
  AppLists,  \* the lists the application has, positive numbers; 0 is null
  Cols,      \* the columns, 1 .. n; 0 is the -1 of sort_col
  Cell,      \* what the cell of an item in a column shows: the rank of its
             \* text among all texts, and the number it reads as, if numeric
  Filters,   \* bound: what may pass a filter
  Contents   \* bound: what the application fills a list with

ASSUME TableAssumption ==
  /\ AppLists \subseteq Nat \ {0} /\ Cols \subseteq Nat \ {0}
  /\ Cell \in [Items -> [Cols -> [text : Int, num : Int, numeric : BOOLEAN]]]
  /\ Contents \subseteq Lists /\ Filters \subseteq SUBSET Items

VARIABLE
  table  \* [items, view, lists, sorter, sort_col, sort_dir, filter, passing]:
         \* items and view name lists; lists gives what is in those that are
         \* not freed, and <<>> for one the table has no interest in; filter
         \* says that one is armed, by predicate or by text, passing what
         \* passes it

(* An empty table.                                                         *)
NoTable ==
  [items |-> 0, view |-> 0, lists |-> [l \in AppLists |-> <<>>], sorter |-> FALSE,
   sort_col |-> 0, sort_dir |-> 0, filter |-> FALSE, passing |-> {}]

(* --- the view ------------------------------------------------------------ *)

(* _table_cmp: as numbers if both are, else as texts.                      *)
Compared(a, b) ==
  IF a.numeric /\ b.numeric THEN a.num - b.num ELSE a.text - b.text
(* _table_cmp_items, with the direction.                                   *)
Above(t, x, y) == Compared(Cell[x][t.sort_col], Cell[y][t.sort_col]) * t.sort_dir > 0

(* MUTANT of Inserted: before those equal to it.                           *)
InsertedFirst(t, sorted, it) ==
  LET before == {i \in DOMAIN sorted : Above(t, it, sorted[i])}
  IN  InsertAt(sorted, Max(before \cup {0}) + 1, it)
(* One item more of an insertion sort: past those above it, from the end,  *)
(* to the first that is not.                                               *)
Inserted(t, sorted, it) ==
  LET stays == {i \in DOMAIN sorted : ~Above(t, sorted[i], it)}
  IN  InsertAt(sorted, Max(stays \cup {0}) + 1, it)
SortList(t, list) ==
  LET sorted[n \in 0 .. Len(list)] ==
        IF n = 0 THEN <<>> ELSE Inserted(t, sorted[n - 1], list[n])
  IN  IF t.sort_dir = 0 THEN list ELSE sorted[Len(list)]

Passes(t, it) == t.filter => it \in t.passing
Derived(t, list) == SortList(t, Kept(list, {i \in DOMAIN list : Passes(t, list[i])}))

(* MUTANT of MayFree: the list that was the model is not looked at.        *)
FreeIfOther(prev_view, prev_items, view) == prev_view \notin {0, view}
(* The end of table_update: which list it frees, if any.                   *)
MayFree(prev_view, prev_items, view) == prev_view \notin {0, prev_items, view}

(* table_update(t, l), as the record.  A view is minted while the last one *)
(* is still there: the table's own lists have two names.                   *)
Refreshed(t, l) ==
  LET aliased == ~t.filter /\ t.sort_dir = 0
      minted == IF t.view = -1 THEN -2 ELSE -1
      view == IF aliased THEN l ELSE minted
      freed == IF MayFree(t.view, t.items, view) THEN {t.view} ELSE {}
  IN  [t EXCEPT !.items = l, !.view = view,
                !.lists = [k \in (DOMAIN t.lists \cup {view}) \ freed |->
                             IF k = minted THEN Derived(t, t.lists[l])
                             ELSE IF k = l THEN t.lists[l] ELSE <<>>]]

(* ... and its listbox_update: before is what the list the listbox holds   *)
(* contains by now.                                                        *)
ShowsTable(t, before) ==
  /\ table' = t
  /\ ListboxUpdate(before, t.lists[t.view])

(* table_update of a list, with what it holds by now: the application may  *)
(* have changed it, and it may be the view.                                *)
TableUpdate(l, content) ==
  LET t == [table EXCEPT !.lists[l] = content]
  IN  ShowsTable(Refreshed(t, l), IF table.view = l THEN content ELSE items)

(* --- sorting and filtering ------------------------------------------------ *)

(* _table_reselect: to the row that shows the item now.  The row picked    *)
(* before was looked up before the view was replaced.                      *)
Reselected(t, item) ==
  LET i == IndexOf(t.lists[t.view], item)
  IN  IF item = NoItem THEN selected' = 0 /\ anchor' = NowAt(items, t.lists[t.view], anchor)
      ELSE selected' = i /\ anchor' = i

(* _table_do_sort, after sort_col and sort_dir were set: nothing is shown  *)
(* until there is a list, and a direction.                                 *)
DoSort(t) ==
  \/ (t.items = 0 \/ t.sort_dir = 0) /\ table' = t /\ UNCHANGED vars
  \/ /\ t.items # 0 /\ t.sort_dir # 0
     /\ table' = Refreshed(t, t.items)
     /\ Shows(items, table'.lists[table'.view], {})
     /\ Reselected(table', ItemAt(items, selected))

(* _table_sort_click: a person clicks a header.                            *)
SortClick(c) ==
  /\ next = 0 /\ table.sorter
  /\ DoSort(IF table.sort_col = c
            THEN [table EXCEPT !.sort_dir = IF @ = 0 THEN 1 ELSE -@]
            ELSE [table EXCEPT !.sort_col = c, !.sort_dir = 1])

(* table_sort_by.                                                          *)
SortBy(c, dir) == DoSort([table EXCEPT !.sort_col = c, !.sort_dir = dir])

(* table_sorter: the list is sorted when something next asks for it.       *)
Sorter(l, content) ==
  /\ table' = [table EXCEPT !.sorter = TRUE, !.items = l, !.lists[l] = content]
  /\ UNCHANGED vars

(* table_filter, table_filter_text and table_filter_clear.                 *)
Refilter(t) ==
  \/ t.items = 0 /\ table' = t /\ UNCHANGED vars
  \/ t.items # 0 /\ ShowsTable(Refreshed(t, t.items), items)
Filter(passing) == Refilter([table EXCEPT !.filter = TRUE, !.passing = passing])
FilterClear == Refilter([table EXCEPT !.filter = FALSE, !.passing = {}])

(* The application fills the table, changes its list and updates, arms and *)
(* uses the sorter and the filter.  Whether it arms the sorter over a list *)
(* other than the one shown is rearms.                                     *)
TableProgrammed(rearms) ==
  \/ \E l \in AppLists, content \in Contents : TableUpdate(l, content)
  \/ \E l \in AppLists, content \in Contents :
       /\ table.items = l => content = table.lists[l]
       /\ rearms \/ table.items \in {0, l}
       /\ Sorter(l, content)
  \/ \E c \in Cols, dir \in -1 .. 1 : SortBy(c, dir)
  \/ \E passing \in Filters : Filter(passing)
  \/ FilterClear
  \/ Deselect /\ UNCHANGED table

(* --- properties ----------------------------------------------------------- *)

(* The list the listbox holds is not freed, nor are the application's, and *)
(* of those the table has minted there is no other: table_update frees the *)
(* view it replaces, "after the listbox has switched, and never the model  *)
(* list".                                                                  *)
ListsOwned ==
  /\ {table.view} \ {0} \subseteq DOMAIN table.lists
  /\ DOMAIN table.lists = AppLists \cup ({table.view} \ {0})

(* What is shown is what passes the filter, next to each other in order,   *)
(* and of a column of numbers, or of other texts, all in order, with those *)
(* that are equal as the application has them, either way round.           *)
OfAKind(t, list) ==
  \A i, j \in DOMAIN list : Cell[list[i]][t.sort_col].numeric = Cell[list[j]][t.sort_col].numeric
InOrder ==
  LET model == table.lists[table.items]
      Before(x, y) == IndexOf(model, x) < IndexOf(model, y)
      Equal(x, y) == ~Above(table, x, y) /\ ~Above(table, y, x)
  IN  /\ ToSet(items) = {it \in ToSet(model) : Passes(table, it)}
      /\ table.sort_dir # 0 =>
           \A i, j \in DOMAIN items : i < j /\ (j = i + 1 \/ OfAKind(table, items)) =>
             /\ ~Above(table, items[i], items[j])
             /\ Equal(items[i], items[j]) => Before(items[i], items[j])

(* The view is the table's to free exactly when it is not the              *)
(* application's, and it is the model, filtered and sorted.                *)
TableHolds == ListsOwned /\ (table.view # 0 => InOrder)

(* A sort of a mixed column orders all of it.                              *)
SortedThroughout ==
  table.view # 0 /\ table.sort_dir # 0 =>
    \A i, j \in DOMAIN items : i < j => ~Above(table, items[i], items[j])
=============================================================================
