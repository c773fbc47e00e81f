------------------------------ MODULE StateHub ------------------------------
(***************************************************************************)
(* Reactive state of ui/module.ae: cells, the one hub of state observers,  *)
(* ui_batch, computed_s and each_bind.                                     *)
(*                                                                         *)
(* Everything runs on the UI thread, but passes nest: an observer sets a   *)
(* cell, whose own observers run before that set returns.  The call stack  *)
(* is therefore part of the state: its head is the call now running, one   *)
(* frame per notify pass, flush pass, observer body, registration or open  *)
(* ui_batch block, and every turn of a loop is a step.                     *)
(*                                                                         *)
(* An input cell holds the number of the set that wrote it, and a derived  *)
(* cell the pair of values its observer read, so values tell apart exactly *)
(* the situations in which a recomputation could be stale.                 *)
(***************************************************************************)
EXTENDS Naturals, Sequences, SequencesExt, FiniteSets, Functions, Sweeping

CONSTANTS
  Inputs,      \* cells the application sets
  Derived,     \* cells observers write
  Observers,   \* registrations the application can make
  Widgets,     \* owner widgets; a handle is never given out twice
  Wirings,     \* the observer graphs explored, see WiringType
  MaxSets,     \* bound: application sets explored
  MaxDepth     \* bound: nesting of ui_batch blocks

Cells == Inputs \cup Derived
None == "none"

(* What one registration watches and does: cells a and b (StateObs), the   *)
(* derived cell its closure sets, in a ui_batch of its own or not, and the *)
(* widget that owns it.  An each() whose rows hold an each_bind of their   *)
(* own empties its container and builds the row anew at every run: rows    *)
(* lists those nested observers, one for each successive rendering.        *)
WiringType ==
  [Observers -> [a : Cells, b : Cells \cup {None}, out : Derived \cup {None},
                 batched : BOOLEAN, owner : Widgets \cup {None},
                 rows : SUBSET Observers]]

(* What writes a cell is a computed_s, which has no owner; what an each()  *)
(* builds anew is an each_bind, which is owned by a container of its own.  *)
ComputedOrBound(w) ==
  \A o \in Observers :
    /\ w[o].out # None => w[o].owner = None
    /\ \A p \in w[o].rows :
         w[p].owner # None /\ \A q \in Observers \ {p} : w[q].owner # w[p].owner

(* No cell is computed from itself, through whatever others: setting it    *)
(* would not return.  A rank of the cells shows it.                        *)
Layered(w, rank) ==
  \A o \in Observers :
    w[o].out # None => \A c \in {w[o].a, w[o].b} \ {None} : rank[c] < rank[w[o].out]

ASSUME NamesAssumption == None \notin Cells \cup Widgets /\ Inputs \cap Derived = {}
ASSUME WiringAssumption ==
  /\ Wirings \subseteq WiringType
  /\ \A w \in Wirings :
       ComputedOrBound(w) /\ \E rank \in [Cells -> 0 .. Cardinality(Cells)] : Layered(w, rank)
ASSUME BoundsAssumption == MaxSets \in Nat /\ MaxDepth \in Nat

VARIABLES
  wiring,    \* the graph of this execution, fixed
  obs,       \* hub.obs, in registration order
  dirty,     \* observers with dirty = 1
  dead,      \* observers with dead = 1
  depth,     \* hub.depth
  pending,   \* hub.pending
  firing,    \* hub.firing
  stack,     \* the call stack of the UI thread
  value,     \* the cells
  alive,     \* widgets whose registry slot still resolves
  seen,      \* what each observer read when it last ran
  sets,      \* number of application sets so far
  runs       \* runs of each observer since the latest batch began

hubVars == <<obs, dirty, dead, depth, pending, firing>>
vars == <<wiring, hubVars, stack, value, alive, seen, sets, runs>>

Notify(h)   == [type |-> "notify", cell |-> h, at |-> 1, n |-> Len(obs)]
Flush       == [type |-> "flush", at |-> 1, n |-> 0]
Run(o)      == [type |-> "run", o |-> o, pc |-> "read", seed |-> FALSE]
Seed(o)     == [type |-> "run", o |-> o, pc |-> "read", seed |-> TRUE]
Register(o) == [type |-> "register", o |-> o]
Batch       == [type |-> "batch"]

Top == Head(stack)
Calling(type) == stack # <<>> /\ Top.type = type
Push(frame) == stack' = <<frame>> \o stack
Return == stack' = Tail(stack)
Goto(frame) == stack' = <<frame>> \o Tail(stack)
GotoCalling(frame, callee) == stack' = <<callee, frame>> \o Tail(stack)

(* The application's own code runs: in the event loop or in a batch block. *)
AppRuns == stack = <<>> \/ Calling("batch")

(* The pair of values an observer's closure reads.                         *)
ValueOf(c) == IF c = None THEN 0 ELSE value[c]
Reads(o) == <<ValueOf(wiring[o].a), ValueOf(wiring[o].b)>>

Init ==
  /\ wiring \in Wirings
  /\ obs = <<>>
  /\ dirty = {}
  /\ dead = {}
  /\ depth = 0
  /\ pending = FALSE
  /\ firing = 0
  /\ stack = <<>>
  /\ value = [c \in Cells |-> 0]
  /\ alive = Widgets
  /\ seen = [o \in Observers |-> <<0, 0>>]
  /\ sets = 0
  /\ runs = [o \in Observers |-> 0]

Watches(o, c) == c \in {wiring[o].a, wiring[o].b}
Watchers(c) == {o \in ToSet(obs) : Watches(o, c)}

(* _state_obs_live, and the dead mark it leaves on an orphan.              *)
OwnerLives(o) == wiring[o].owner = None \/ wiring[o].owner \in alive
(* MUTANT of IsLive: the owner is not looked up again.                     *)
NotMarkedDead(o) == o \notin dead
IsLive(o) == o \notin dead /\ OwnerLives(o)
MarkIfOrphan(o) == dead' = IF OwnerLives(o) THEN dead ELSE dead \cup {o}

WithoutDead == Kept(obs, {i \in DOMAIN obs : obs[i] \notin dead})

(* _state_hub_compact, once the last pass is over.                         *)
Compact == obs' = IF firing' > 0 THEN obs ELSE WithoutDead

PassOver == firing' = firing - 1 /\ Compact /\ Return

(* MUTANT of MarkWatchers: marks alone do not ask for a flush round.       *)
OnlyMark(c) == dirty' = dirty \cup Watchers(c) /\ UNCHANGED pending

(* A set reaching _state_hub_notify: in a batch it only marks, otherwise   *)
(* it starts a pass over the observers registered so far.                  *)
MarkWatchers(c) ==
  /\ dirty' = dirty \cup Watchers(c)
  /\ pending' = (pending \/ Watchers(c) # {})

(* --- the application's steps ------------------------------------------- *)

(* ui_set and its typed variants.                                          *)
AppSet(c) ==
  /\ AppRuns
  /\ sets < MaxSets
  /\ sets' = sets + 1
  /\ value' = [value EXCEPT ![c] = sets + 1]
  /\ IF depth > 0
     THEN MarkWatchers(c) /\ UNCHANGED <<firing, stack>>
     ELSE /\ Push(Notify(c))
          /\ firing' = firing + 1
          /\ UNCHANGED <<dirty, pending>>
  /\ UNCHANGED <<wiring, obs, dead, depth, alive, seen, runs>>

(* ui_batch: the block opens ...                                           *)
BatchBegin ==
  /\ AppRuns
  /\ depth < MaxDepth
  /\ sets < MaxSets
  /\ depth' = depth + 1
  /\ Push(Batch)
  /\ runs' = IF depth = 0 THEN [o \in Observers |-> 0] ELSE runs
  /\ UNCHANGED <<wiring, obs, dirty, dead, pending, firing, value, alive,
                 seen, sets>>

(* ... and closes; the outermost close flushes.                            *)
BatchEnd ==
  /\ Calling("batch")
  /\ depth' = depth - 1
  /\ IF depth = 1
     THEN Goto(Flush) /\ firing' = firing + 1
     ELSE Return /\ UNCHANGED firing
  /\ UNCHANGED <<wiring, obs, dirty, dead, pending, value, alive, seen, sets,
                 runs>>

(* computed_s recomputes and then registers; each_bind registers and then  *)
(* renders.  The frames do the two in that order, above those of base.     *)
NeverRegistered(o) ==
  /\ o \notin ToSet(obs) \cup dead
  /\ \A k \in DOMAIN stack : stack[k].type = "register" => stack[k].o # o

Registering(o, base) ==
  /\ IF wiring[o].owner = None
     THEN /\ stack' = <<Seed(o), Register(o)>> \o base
          /\ UNCHANGED obs
     ELSE /\ stack' = <<Seed(o)>> \o base
          /\ obs' = Append(obs, o)
  /\ UNCHANGED <<wiring, dirty, dead, depth, pending, firing, value, alive,
                 seen, sets, runs>>

(* Nested observers are not the application's to register.                 *)
AppRegister(o) ==
  /\ AppRuns
  /\ \A p \in Observers : o \notin wiring[p].rows
  /\ NeverRegistered(o) /\ OwnerLives(o)
  /\ Registering(o, stack)

RegisterStep ==
  /\ Calling("register")
  /\ obs' = Append(obs, Top.o)
  /\ Return
  /\ UNCHANGED <<wiring, dirty, dead, depth, pending, firing, value, alive,
                 seen, sets, runs>>

(* A widget in use goes away: its slot in the registry is cleared.         *)
Destroy(w) ==
  /\ AppRuns
  /\ w \in alive
  /\ \E o \in ToSet(obs) : wiring[o].owner = w
  /\ alive' = alive \ {w}
  /\ UNCHANGED <<wiring, hubVars, stack, value, seen, sets, runs>>

(* --- the passes -------------------------------------------------------- *)

InBatch == stack # <<>> /\ Last(stack).type \in {"batch", "flush"}
CountRun(o) ==
  runs' = IF InBatch THEN [runs EXCEPT ![o] = @ + 1] ELSE runs

NextTurn(frame) == [frame EXCEPT !.at = @ + 1]

(* One turn of the loop of _state_hub_notify, or its end.                  *)
NotifyTurn ==
  /\ Calling("notify") /\ Top.at <= Top.n
  /\ LET o == obs[Top.at] IN
       IF ~ Watches(o, Top.cell)
       THEN Goto(NextTurn(Top)) /\ UNCHANGED <<dead, runs>>
       ELSE /\ MarkIfOrphan(o)
            /\ IF IsLive(o)
               THEN GotoCalling(NextTurn(Top), Run(o)) /\ CountRun(o)
               ELSE Goto(NextTurn(Top)) /\ UNCHANGED runs
  /\ UNCHANGED <<wiring, obs, dirty, depth, pending, firing, value, alive,
                 seen, sets>>

NotifyEnd ==
  /\ Calling("notify") /\ Top.at > Top.n
  /\ PassOver
  /\ UNCHANGED <<wiring, dirty, dead, depth, pending, value, alive, seen,
                 sets, runs>>

(* MUTANT of TakePending: the request for a round is not taken back.       *)
SeePending == pending /\ UNCHANGED pending
TakePending == pending /\ pending' = FALSE

(* MUTANT of Unmark: an observer that is run stays dirty.                  *)
LeaveMarked(o) == UNCHANGED dirty
Unmark(o) == dirty' = dirty \ {o}

(* _state_hub_flush: the outer loop starts a round while one is pending.   *)
FlushRound ==
  /\ Calling("flush") /\ Top.at > Top.n
  /\ TakePending
  /\ Goto([Flush EXCEPT !.n = Len(obs)])
  /\ UNCHANGED <<wiring, obs, dirty, dead, depth, firing, value, alive, seen,
                 sets, runs>>

FlushTurn ==
  /\ Calling("flush") /\ Top.at <= Top.n
  /\ LET o == obs[Top.at] IN
       IF o \notin dirty
       THEN Goto(NextTurn(Top)) /\ UNCHANGED <<dirty, dead, runs>>
       ELSE /\ Unmark(o)
            /\ MarkIfOrphan(o)
            /\ IF IsLive(o)
               THEN GotoCalling(NextTurn(Top), Run(o)) /\ CountRun(o)
               ELSE Goto(NextTurn(Top)) /\ UNCHANGED runs
  /\ UNCHANGED <<wiring, obs, depth, pending, firing, value, alive, seen,
                 sets>>

FlushEnd ==
  /\ Calling("flush") /\ Top.at > Top.n
  /\ ~ pending
  /\ PassOver
  /\ UNCHANGED <<wiring, dirty, dead, depth, pending, value, alive, seen,
                 sets, runs>>

(* --- an observer's closure --------------------------------------------- *)

At(pc) == Calling("run") /\ Top.pc = pc

RowsBuilt(o) == wiring[o].rows \cap ToSet(obs)
RowsToCome(o) == {p \in wiring[o].rows : NeverRegistered(p)}

(* It reads its cells; an each() destroys the row it built last time.      *)
BodyRead ==
  /\ At("read")
  /\ seen' = [seen EXCEPT ![Top.o] = Reads(Top.o)]
  /\ alive' = alive \ {wiring[p].owner : p \in RowsBuilt(Top.o)}
  /\ Goto([Top EXCEPT !.pc = "build"])
  /\ UNCHANGED <<wiring, hubVars, value, sets, runs>>

(* It builds the new row, whose each_bind registers in mid-pass.           *)
BodyBuild ==
  /\ At("build")
  /\ IF RowsToCome(Top.o) = {}
     THEN /\ Goto([Top EXCEPT !.pc = "write"])
          /\ UNCHANGED <<wiring, hubVars, value, alive, seen, sets, runs>>
     ELSE \E p \in RowsToCome(Top.o) :
            Registering(p, <<[Top EXCEPT !.pc = "write"]>> \o Tail(stack))

(* It sets its cell, as its last call, and returns.                        *)
BodyWrite ==
  /\ At("write")
  /\ LET c == wiring[Top.o].out
     IN  IF c = None
         THEN Return /\ UNCHANGED <<value, dirty, pending, firing>>
         ELSE /\ value' = [value EXCEPT ![c] = seen[Top.o]]
              /\ IF depth > 0
                 THEN MarkWatchers(c) /\ Return /\ UNCHANGED firing
                 ELSE /\ firing' = firing + 1
                      /\ IF wiring[Top.o].batched
                         THEN MarkWatchers(c) /\ Goto(Flush)
                         ELSE Goto(Notify(c)) /\ UNCHANGED <<dirty, pending>>
  /\ UNCHANGED <<wiring, obs, dead, depth, alive, seen, sets, runs>>

HubStep ==
  \/ RegisterStep
  \/ NotifyTurn \/ NotifyEnd
  \/ FlushRound \/ FlushTurn \/ FlushEnd
  \/ BodyRead \/ BodyBuild \/ BodyWrite

Next ==
  \/ \E c \in Inputs : AppSet(c)
  \/ \E o \in Observers : AppRegister(o)
  \/ \E w \in Widgets : Destroy(w)
  \/ BatchBegin
  \/ BatchEnd
  \/ HubStep

Spec == Init /\ [][Next]_vars

(* The thread executes the calls it has made, and blocks return.           *)
FairSpec == Spec /\ WF_vars(HubStep) /\ WF_vars(BatchEnd)

-----------------------------------------------------------------------------
Frame ==
  [type : {"notify"}, cell : Cells, at : Nat, n : Nat] \cup
  [type : {"flush"}, at : Nat, n : Nat] \cup
  [type : {"run"}, o : Observers, pc : {"read", "build", "write"}, seed : BOOLEAN]
  \cup [type : {"register"}, o : Observers] \cup [type : {"batch"}]

Passes == {k \in DOMAIN stack : stack[k].type \in {"notify", "flush"}}
Blocks == {k \in DOMAIN stack : stack[k].type = "batch"}

TypeOK ==
  /\ wiring \in Wirings
  /\ obs \in Seq(Observers) /\ IsInjective(obs)
  /\ dirty \subseteq Observers /\ dead \subseteq Observers
  /\ depth = Cardinality(Blocks)
  /\ pending \in BOOLEAN
  /\ firing = Cardinality(Passes)
  /\ stack \in Seq(Frame)
  /\ alive \subseteq Widgets
  /\ sets \in 0 .. MaxSets

Idle == stack = <<>>

(* When the thread is back in the event loop, every registered observer    *)
(* that still has its owner last ran on the values the cells hold now: no  *)
(* set was missed, in a batch, in a nested pass or while a pass was        *)
(* changing the list of observers.                                         *)
Settled ==
  Idle => \A o \in ToSet(obs) : IsLive(o) => seen[o] = Reads(o)

(* The passes walk hub.obs by index over the length they saw at their      *)
(* start, so as long as one is under way the list only grows at its end.   *)
PassesKeepTheList == [][Passes' # {} => IsPrefix(obs, obs')]_vars

(* No observer runs once its owner is gone, even if it died earlier in the *)
(* same pass, at the hands of another observer.                            *)
OrphansNeverRun == At("read") => OwnerLives(Top.o)

(* ui_batch's promise to one observer: nothing runs while the block is     *)
(* open, and its close runs the observer at most once.                     *)
BatchIsOneChangeFor(o) == runs[o] <= 1 /\ (depth > 0 => runs[o] = 0)

(* The promise holds for observers that watch only what the application    *)
(* sets ...                                                                *)
InputBatchIsOneChange ==
  \A o \in Observers : {wiring[o].a, wiring[o].b} \subseteq Inputs \cup {None}
                         => BatchIsOneChangeFor(o)

(* ... and, as it is worded, for every observer.                           *)
BatchIsOneChange == \A o \in Observers : BatchIsOneChangeFor(o)

(* Every pass the thread starts comes to its end.                          *)
EveryPassEnds == firing > 0 ~> firing = 0

=============================================================================
