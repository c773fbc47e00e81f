---------------------------- MODULE JobContract ----------------------------
(***************************************************************************)
(* What ui/module.ae promises of background work, without threads, tables  *)
(* or ids.  A call is refused at once or accepted; an accepted one ends in *)
(* exactly one of its two closures, on the UI thread: done if its owner    *)
(* still lives and nobody cancelled it, dropped otherwise.                 *)
(***************************************************************************)
CONSTANTS
  Calls,     \* the calls of background_for and background an execution makes
  Widgets,   \* the widgets that can own one
  NoOwner,   \* the owner of a call that has none
  Owner      \* [Calls -> Widgets \cup {NoOwner}]

VARIABLES
  outcome,     \* what became of each call
  cancelled,   \* the calls whose job was cancelled while it was in flight
  alive        \* the widgets not destroyed yet

vars == <<outcome, cancelled, alive>>

Outcomes == {"new", "refused", "accepted", "done", "dropped"}

Init ==
  /\ outcome = [c \in Calls |-> "new"]
  /\ cancelled = {}
  /\ alive = Widgets

Wanted(c) == c \notin cancelled /\ (Owner[c] = NoOwner \/ Owner[c] \in alive)

Accept(c) ==
  /\ outcome[c] = "new"
  /\ outcome' = [outcome EXCEPT ![c] = "accepted"]
  /\ UNCHANGED <<cancelled, alive>>

Refuse(c) ==
  /\ outcome[c] = "new"
  /\ outcome' = [outcome EXCEPT ![c] = "refused"]
  /\ UNCHANGED <<cancelled, alive>>

Cancel(c) ==
  /\ outcome[c] = "accepted"
  /\ cancelled' = cancelled \cup {c}
  /\ UNCHANGED <<outcome, alive>>

Destroy(w) ==
  /\ w \in alive
  /\ alive' = alive \ {w}
  /\ UNCHANGED <<outcome, cancelled>>

Finish(c) ==
  /\ outcome[c] = "accepted"
  /\ outcome' = [outcome EXCEPT ![c] = IF Wanted(c) THEN "done" ELSE "dropped"]
  /\ UNCHANGED <<cancelled, alive>>

Next ==
  \/ \E c \in Calls : Accept(c) \/ Refuse(c) \/ Cancel(c) \/ Finish(c)
  \/ \E w \in Widgets : Destroy(w)

SafeSpec == Init /\ [][Next]_vars
Spec == SafeSpec /\ \A c \in Calls : WF_vars(Finish(c))
=============================================================================
