--------------------------------- MODULE Tree ---------------------------------
(***************************************************************************)
(* The tree of ui/module.ae: the nodes that are visible, flattened into    *)
(* the rows of a single-select listbox.  Each flatten mints new row        *)
(* objects, so that the listbox cannot carry its selection over; the tree  *)
(* remembers the selected node and puts the selection back.                *)
(***************************************************************************)
EXTENDS ListBox, Sweeping

CONSTANTS
  Parent,  \* the parent of each node, 0 of a root; the nodes are numbered in
           \* the order in which a walk of the tree comes to them
  InitialNodes  \* those that are there when the tree is built

Nodes == DOMAIN Parent

ASSUME TreeAssumption ==
  /\ Parent \in Seq(Nat) /\ InitialNodes \subseteq Nodes
  /\ \A n \in Nodes : /\ Parent[n] < n
                      /\ \A k \in Parent[n] + 1 .. n - 1 : Parent[k] >= Parent[n]

VARIABLE
  tree  \* [nodes, expanded, sel_node, turn, openers]: the nodes there are by
        \* now and those that are expanded, the selected node or 0, which
        \* allocation of rows this is, and the nodes whose rows got a
        \* disclosure button

Children(t, n) == {k \in t.nodes : Parent[k] = n}

(* The rows of two flattens are never the same objects: those of the last  *)
(* are freed only when the listbox holds the new ones.                     *)
RowOf(t, n) == [node |-> n, turn |-> t.turn]

(* A node is visible when all those above it are expanded.                 *)
Visible(t, n) ==
  LET visible[k \in Nodes] ==
        Parent[k] = 0 \/ (Parent[k] \in t.expanded /\ visible[Parent[k]])
  IN  visible[n]
(* _tree_flatten_into.                                                     *)
Flat(t) ==
  Kept([n \in Nodes |-> RowOf(t, n)], {n \in t.nodes : Visible(t, n)})

(* _tree_place_selection: the row that shows the selected node, or none;   *)
(* _listbox_set_selected_index moves neither the look nor the tab stop.    *)
PlacedIn(list, node) == SelectInSeq(list, LAMBDA row : row.node = node)
PlaceSelection(list, node) ==
  /\ selected' = PlacedIn(list, node)
  /\ anchor' = selected'

(* _tree_reflatten.                                                        *)
Reflatten(t) ==
  LET new == [t EXCEPT !.turn = 1 - @,
                       !.openers = {n \in t.nodes : Children(t, n) # {}}]
  IN  /\ tree' = new
      /\ Shows(items, Flat(new), {})
      /\ PlaceSelection(Flat(new), new.sel_node)

(* tree(): what Init has of it, before its first flatten.                  *)
NoTree ==
  [nodes |-> InitialNodes, expanded |-> {}, sel_node |-> 0, turn |-> 0, openers |-> {}]

(* The listbox's on_select: the row's node is the selected one.  It runs   *)
(* at the end of the click, before the application's own.                  *)
NodeSelected(i) == tree' = [tree EXCEPT !.sel_node = items[i].node]

TreeUsed ==
  \/ \E i \in DOMAIN rows : Click(i, "none") /\ NodeSelected(i)
  \/ \E k \in Keys : Key(k, "none") /\ NodeSelected(KeyTarget(k))
  \/ (KeyReturns \/ TabInto \/ FocusLeaves) /\ UNCHANGED tree

Flipped(set, n) == IF n \in set THEN set \ {n} ELSE set \cup {n}
(* The disclosure button of a row, which a person clicks.                  *)
Disclose(i) ==
  /\ next = 0 /\ items[i].node \in tree.openers
  /\ Reflatten([tree EXCEPT !.expanded = Flipped(@, items[i].node)])

(* tree_select: a node that is not visible selects nothing.                *)
TreeSelect(n) ==
  /\ tree' = [tree EXCEPT !.sel_node = n]
  /\ PlaceSelection(items, n)
  /\ UNCHANGED <<kind, sel_mode, items, rows, sel_flags, focus, next>>

(* tree_set_expanded and tree_add_child change the nodes only.             *)
SetExpanded(n, on) ==
  /\ tree' = [tree EXCEPT !.expanded = IF on THEN @ \cup {n} ELSE @ \ {n}]
  /\ UNCHANGED vars
AddChild(n) ==
  /\ Parent[n] \in tree.nodes
  /\ tree' = [tree EXCEPT !.nodes = @ \cup {n}]
  /\ UNCHANGED vars

TreeProgrammed ==
  \/ \E n \in tree.nodes \cup {0} : TreeSelect(n)
  \/ \E n \in tree.nodes, on \in BOOLEAN : SetExpanded(n, on)
  \/ \E n \in Nodes \ tree.nodes : AddChild(n)
  \/ Reflatten(tree)

(* --- properties ----------------------------------------------------------- *)

(* What the tree reports and what its listbox has selected are the same    *)
(* node, as long as it has a row, through every flatten, callback and key; *)
(* a node that has lost its row is still the one reported, and comes back  *)
(* with its row.                                                           *)
SelectionIsTheNode ==
  \A i \in DOMAIN items : items[i].node = tree.sel_node <=> i = selected

(* "Re-expanding its parent brings the highlight back".                    *)
HighlightComesBack == selected # 0 => rows[selected].marked

(* The stop rides the selection in a tree too.                             *)
TreeStopRides == selected # 0 => rows[selected].stop
=============================================================================
