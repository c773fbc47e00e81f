--------------------------------- MODULE Lists --------------------------------
(***************************************************************************)
(* The listbox of ui/module.ae (ListBox) and the two widgets that are      *)
(* built over one, the table (Table) and the tree (Tree).  A behaviour     *)
(* looks at one of them, its form.                                         *)
(***************************************************************************)
EXTENDS Table, Tree

CONSTANTS
  Forms,  \* of "listbox", "table" and "tree", those looked at
  Rearms  \* whether the sorter may be armed over a list that is not shown

ASSUME ListsAssumption == Forms \subseteq {"listbox", "table", "tree"} /\ Rearms \in BOOLEAN

VARIABLE form  \* which this is

all == <<vars, table, tree, form>>

LInit ==
  /\ form \in Forms
  /\ table = NoTable
  /\ tree = NoTree
  /\ \/ form \in {"listbox", "table"} /\ Init /\ (form = "table" => kind = "single")
     \/ /\ form = "tree"
        /\ kind = "single" /\ sel_mode = "toggle" /\ items = Flat(NoTree)
        /\ rows = Rendered(items, 0)
        /\ selected = 0 /\ anchor = 0 /\ sel_flags = <<>> /\ focus = 0 /\ next = 0

ListboxStep == form = "listbox" /\ Next /\ UNCHANGED <<table, tree, form>>

(* Nothing is said of a table that has freed the application's list.       *)
TableStep ==
  /\ form = "table" /\ UNCHANGED <<tree, form>>
  /\ AppLists \subseteq DOMAIN table.lists
  /\ \/ Used /\ UNCHANGED table
     \/ \E c \in Cols : SortClick(c)
     \/ TableProgrammed(Rearms)

TreeStep ==
  /\ form = "tree" /\ UNCHANGED <<table, form>>
  /\ TreeUsed \/ (\E i \in DOMAIN rows : Disclose(i)) \/ TreeProgrammed

LNext == ListboxStep \/ TableStep \/ TreeStep

LSpec == LInit /\ [][LNext]_all

(* --- properties ----------------------------------------------------------- *)

(* There is one place in the list where the keyboard is, or would come to, *)
(* also under a table; a tree's flatten leaves its tab stop on the first   *)
(* row, whatever is selected.                                              *)
KeysHaveOnePlace == OneTabStop /\ (form # "tree" => FocusFollowsSelection)

(* A listbox's update carries what was picked by item, and so do a table's *)
(* update, sort and filter, of whatever list in whatever order, unless the *)
(* list that the listbox holds was changed before.                         *)
ChangedBefore ==
  table.view \in AppLists /\ table.view = table'.items
    /\ table.lists[table.view] # table'.lists[table.view]
ItemsCarried ==
  [][(form = "listbox" /\ Update(items')) \/ (table' # table /\ ~ChangedBefore) =>
       SelectionCarried /\ (form = "listbox" => AnchorCarried)]_all

(* A table shows its model's view, which is freed once and never while it  *)
(* is shown, and a tree has selected what it says.                         *)
ViewsHold == TableHolds /\ (form = "tree" => SelectionIsTheNode)
=============================================================================
