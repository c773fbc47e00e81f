----------------------------- MODULE StateHubMC -----------------------------
(***************************************************************************)
(* Instances of StateHub: the observer graphs an application can wire from *)
(* computed_s and each_bind, small enough for TLC.                         *)
(***************************************************************************)
EXTENDS StateHub

Computed(a, b, out) ==
  [a |-> a, b |-> b, out |-> out, batched |-> FALSE, owner |-> None, rows |-> {}]
Each(a, owner, rows) ==
  [a |-> a, b |-> None, out |-> None, batched |-> FALSE, owner |-> owner,
   rows |-> rows]
Batched(w) == [w EXCEPT !.batched = TRUE]

MCInputs == {"x", "y"}
MCDerived == {"c", "d"}
MCObservers == {"o1", "o2", "o3"}
MCWidgets == {"w1", "w2", "w3"}

Wiring(r1, r2, r3) == [o1 |-> r1, o2 |-> r2, o3 |-> r3]

(* Two computed cells side by side, and a list over the second.            *)
Fan == Wiring(Computed("x", "y", "c"), Computed("y", None, "d"), Each("d", "w1", {}))

(* A chain of computed cells ending in a list, and its batched variant.    *)
Chain == Wiring(Computed("x", None, "c"), Computed("c", "y", "d"), Each("d", "w1", {}))
BatchedChain ==
  Wiring(Batched(Computed("x", None, "c")), Computed("c", "y", "d"), Each("d", "w1", {}))

(* A cell computed from x and from another cell computed from x.           *)
Diamond == Wiring(Computed("x", None, "c"), Computed("x", "c", "d"), Each("d", "w1", {}))

(* A list whose row holds a list over the same cell.                       *)
Nested == Wiring(Each("x", "w1", {"o2"}), Each("x", "w2", {}), Computed("x", None, "c"))

(* A list whose rows come and go, one nested list at a time.               *)
Rebuilt == Wiring(Each("x", "w3", {"o2", "o3"}), Each("x", "w1", {}), Each("y", "w2", {}))


(* The diamond alone: nothing watches its last cell.                       *)
DiamondOnly ==
  {Wiring(Computed("x", None, "c"), Computed("x", "c", "d"), Each("y", "w1", {}))}

MCWirings == {Fan, Chain, BatchedChain, Diamond, Nested, Rebuilt}
=============================================================================
