------------------------------ MODULE Sweeping ------------------------------
(***************************************************************************)
(* The lists of callbacks that this library keeps are swept when no pass   *)
(* over them is under way: one loop drops what is no longer wanted, and    *)
(* the rest keeps its order.  So does the loop of a table's filter, and    *)
(* the walk of a tree for what is visible.                                 *)
(***************************************************************************)
EXTENDS Naturals, Sequences

(* The entries of s at the places in K, in the order of s.                 *)
Kept(s, K) ==
  LET kept[i \in 0 .. Len(s)] ==
        IF i = 0 THEN <<>>
        ELSE IF i \in K THEN Append(kept[i - 1], s[i]) ELSE kept[i - 1]
  IN  kept[Len(s)]
=============================================================================
