--------------------------- MODULE StateHubProofs ---------------------------
(***************************************************************************)
(* For any graph of observers that computed_s and each_bind can wire, any  *)
(* number of sets, batches and widgets: whenever the thread is back in its *)
(* event loop every observer has seen the values there are, none runs for  *)
(* an owner that is gone, and a batch is one change to an observer of what *)
(* the application sets.                                                   *)
(*                                                                         *)
(* The argument is about what is still to come.  An observer that has not  *)
(* seen a value has a reason on the call stack to run: a pass over a cell  *)
(* it watches that has not come to its place, a mark that a flush under    *)
(* way or asked for will find, or its own body about to read.  Every step  *)
(* keeps such a reason or uses it up by running the observer.              *)
(***************************************************************************)
EXTENDS StateHub, SweepingProofs, FiniteSetTheorems, TLAPS

(* Of the frames of the stack, the m upper ones give way to n others.      *)
Rest(m, n) ==
  /\ m <= Len(stack) /\ Len(stack') = Len(stack) - m + n
  /\ \A k \in 1 .. Len(stack) : k > m => stack'[k - m + n] = stack[k]

(* A frame below those that changed is where it was, seen from the bottom. *)
LEMMA RestBack ==
  ASSUME stack \in Seq(Frame), stack' \in Seq(Frame), NEW m \in 0 .. 1, NEW n \in 0 .. 2,
         Rest(m, n), NEW k \in 1 .. Len(stack'), k > n
  PROVE  /\ k - n + m \in 1 .. Len(stack) /\ k - n + m > m
         /\ stack'[k] = stack[k - n + m]
         /\ Len(stack') - k = Len(stack) - (k - n + m)
<1>1. Len(stack) \in Nat /\ Len(stack') \in Nat
  OBVIOUS
<1>2. k - n + m \in 1 .. Len(stack) /\ k - n + m > m /\ (k - n + m) - m + n = k
  BY <1>1 DEF Rest
<1> QED
  BY <1>1, <1>2 DEF Rest

(* What each way to change the stack makes of it.                          *)
LEMMA PushRest ==
  ASSUME stack \in Seq(Frame), NEW f \in Frame, Push(f)
  PROVE  stack' \in Seq(Frame) /\ Rest(0, 1) /\ Len(stack') > 0 /\ stack'[1] = f
BY DEF Push, Rest

(* A return takes the upper frame off.                                     *)
LEMMA ReturnRest ==
  ASSUME stack \in Seq(Frame), stack # <<>>, Return
  PROVE  stack' \in Seq(Frame) /\ Rest(1, 0)
BY DEF Return, Rest

(* A frame goes on to its next place.                                      *)
LEMMA GotoRest ==
  ASSUME stack \in Seq(Frame), stack # <<>>, NEW f \in Frame, Goto(f)
  PROVE  stack' \in Seq(Frame) /\ Rest(1, 1) /\ stack'[1] = f
<1>1. Tail(stack) \in Seq(Frame) /\ Len(Tail(stack)) = Len(stack) - 1 /\ Len(stack) \in Nat \ {0}
      /\ \A k \in 1 .. Len(stack) : k > 1 => Tail(stack)[k - 1] = stack[k]
  OBVIOUS
<1> QED
  BY <1>1 DEF Goto, Rest

(* A frame goes on and calls another.                                      *)
LEMMA CallRest ==
  ASSUME stack \in Seq(Frame), stack # <<>>, NEW f \in Frame, NEW g \in Frame,
         GotoCalling(f, g)
  PROVE  stack' \in Seq(Frame) /\ Rest(1, 2) /\ stack'[1] = g /\ stack'[2] = f
<1>1. Tail(stack) \in Seq(Frame) /\ Len(Tail(stack)) = Len(stack) - 1 /\ Len(stack) \in Nat \ {0}
      /\ \A k \in 1 .. Len(stack) : k > 1 => Tail(stack)[k - 1] = stack[k]
  OBVIOUS
<1>2. /\ stack' \in Seq(Frame) /\ Len(stack') = Len(stack) + 1
      /\ stack'[1] = g /\ stack'[2] = f
      /\ \A k \in 1 .. Len(stack) : k > 1 => stack'[k + 1] = stack[k]
  BY <1>1 DEF GotoCalling
<1> QED
  BY <1>1, <1>2 DEF Rest

(* A registration and its first run come on top.                           *)
LEMMA SeedRest ==
  ASSUME stack \in Seq(Frame), NEW f \in Frame, NEW g \in Frame,
         stack' = <<g, f>> \o stack
  PROVE  stack' \in Seq(Frame) /\ Rest(0, 2) /\ stack'[1] = g /\ stack'[2] = f
<1>1. Len(stack) \in Nat
  OBVIOUS
<1>2. /\ stack' \in Seq(Frame) /\ Len(stack') = Len(stack) + 2
      /\ stack'[1] = g /\ stack'[2] = f
      /\ \A k \in 1 .. Len(stack) : stack'[k + 2] = stack[k]
  BY <1>1
<1> QED
  BY <1>1, <1>2 DEF Rest

(* The number of passes, when the frames change so.                        *)
IsPass(f) == f.type \in {"notify", "flush"}
One(b) == IF b THEN 1 ELSE 0

(* The number of passes on the stack, of which hub.firing is the count.    *)
LEMMA PassCount ==
  ASSUME stack \in Seq(Frame), stack' \in Seq(Frame), NEW m \in 0 .. 1, NEW n \in 0 .. 2,
         Rest(m, n)
  PROVE  \E c \in Nat :
           /\ Cardinality(Passes) = c + One(m = 1 /\ IsPass(stack[1]))
           /\ Cardinality(Passes') =
                c + One(n >= 1 /\ IsPass(stack'[1])) + One(n = 2 /\ IsPass(stack'[2]))
           /\ c = 0 => \A k \in 1 .. Len(stack') : k > n => ~IsPass(stack'[k])
<1> DEFINE A == {k \in Passes : k > m}
           B == {k \in Passes' : k > n}
           move == [k \in A |-> k - m + n]
<1>1. Len(stack) \in Nat /\ Len(stack') \in Nat
  OBVIOUS
<1>2. /\ Passes = {k \in 1 .. Len(stack) : IsPass(stack[k])}
      /\ Passes' = {k \in 1 .. Len(stack') : IsPass(stack'[k])}
  BY DEF Passes, IsPass
<1>3. IsFiniteSet(Passes) /\ IsFiniteSet(Passes')
  <2>1. IsFiniteSet(1 .. Len(stack)) /\ IsFiniteSet(1 .. Len(stack'))
    BY <1>1, FS_Interval
  <2>2. Passes \in SUBSET (1 .. Len(stack)) /\ Passes' \in SUBSET (1 .. Len(stack'))
    BY <1>2
  <2> QED
    BY <2>1, <2>2, FS_Subset
<1>4. A \in SUBSET Passes /\ IsFiniteSet(A) /\ B \in SUBSET Passes' /\ IsFiniteSet(B)
  BY <1>3, FS_Subset
<1>5. move \in Bijection(A, B)
  <2>1. \A k \in A : k \in 1 .. Len(stack) /\ k > m /\ IsPass(stack[k])
    BY <1>2
  <2>2. \A k \in A : k - m + n \in B
    BY <1>1, <1>2, <2>1 DEF Rest
  <2>3. \A k \in B : k - n + m \in A /\ (k - n + m) - m + n = k
    <3> TAKE k \in B
    <3>1. k \in 1 .. Len(stack') /\ k > n /\ IsPass(stack'[k])
      BY <1>2
    <3>2. /\ k - n + m \in 1 .. Len(stack) /\ k - n + m > m
          /\ stack'[k] = stack[k - n + m]
      BY <3>1, RestBack
    <3> QED
      BY <1>1, <1>2, <3>1, <3>2
  <2>4. \A j, k \in A : j # k => j - m + n # k - m + n
    BY <1>1, <2>1
  <2> HIDE DEF A, B
  <2>5. move \in [A -> B] /\ \A j, k \in A : j # k => move[j] # move[k]
    BY <2>2, <2>4
  <2>6. \A b \in B : \E k \in A : move[k] = b
    BY <2>3
  <2> HIDE DEF move
  <2>7. move \in Injection(A, B)
    BY <2>5, Zenon DEF Injection, IsInjective
  <2>8. move \in Surjection(A, B)
    BY <2>5, <2>6 DEF Surjection
  <2> QED
    BY <2>7, <2>8 DEF Bijection
<1> DEFINE c == Cardinality(A)
<1>6. c \in Nat /\ Cardinality(B) = c
  <2>1. ExistsBijection(A, B)
    BY <1>5 DEF ExistsBijection
  <2> HIDE DEF A, B
  <2> QED
    BY <1>4, <2>1, FS_Bijection, FS_CardinalityType
<1>7. Cardinality(Passes) = c + One(m = 1 /\ IsPass(stack[1]))
  <2>1. CASE m = 1 /\ IsPass(stack[1])
    <3>1. Passes = A \cup {1} /\ 1 \notin A
      BY <1>1, <1>2, <2>1 DEF Rest
    <3> HIDE DEF A
    <3> QED
      BY <1>4, <1>6, <2>1, <3>1, FS_AddElement DEF One
  <2>2. CASE ~(m = 1 /\ IsPass(stack[1]))
    <3>1. Passes = A
      BY <1>1, <1>2, <2>2
    <3>2. One(m = 1 /\ IsPass(stack[1])) = 0
      BY <2>2 DEF One
    <3> HIDE DEF A
    <3> QED
      BY <1>6, <3>1, <3>2
  <2> QED
    BY <2>1, <2>2
<1>8. Cardinality(Passes') = c + One(n >= 1 /\ IsPass(stack'[1])) + One(n = 2 /\ IsPass(stack'[2]))
  <2> DEFINE B1 == IF n >= 1 /\ IsPass(stack'[1]) THEN B \cup {1} ELSE B
             B2 == IF n = 2 /\ IsPass(stack'[2]) THEN B1 \cup {2} ELSE B1
  <2>1. \A k \in B : k > n /\ k \in Nat
    BY <1>2
  <2>2. Passes' = B2
    BY <1>1, <1>2 DEF Rest
  <2>3. IsFiniteSet(B1) /\ Cardinality(B1) = c + One(n >= 1 /\ IsPass(stack'[1]))
    <3>1. n >= 1 => 1 \notin B
      BY <2>1
    <3>2. CASE n >= 1 /\ IsPass(stack'[1])
      <4>1. B1 = B \cup {1} /\ One(n >= 1 /\ IsPass(stack'[1])) = 1
        BY <3>2 DEF One
      <4> HIDE DEF B, B1, c
      <4> QED
        BY <1>4, <1>6, <3>1, <3>2, <4>1, FS_AddElement
    <3>3. CASE ~(n >= 1 /\ IsPass(stack'[1]))
      <4>1. B1 = B /\ One(n >= 1 /\ IsPass(stack'[1])) = 0
        BY <3>3 DEF One
      <4> HIDE DEF B, B1, c
      <4> QED
        BY <1>4, <1>6, <4>1
    <3> QED
      BY <3>2, <3>3
  <2>4. n = 2 => 2 \notin B1
    BY <2>1
  <2>5. c + One(n >= 1 /\ IsPass(stack'[1])) \in Nat
    BY <1>6 DEF One
  <2>6. CASE n = 2 /\ IsPass(stack'[2])
    <3>1. B2 = B1 \cup {2} /\ One(n = 2 /\ IsPass(stack'[2])) = 1
      BY <2>6 DEF One
    <3> HIDE DEF B1, B2, c
    <3>2. Cardinality(B1 \cup {2}) = Cardinality(B1) + 1
      BY <2>3, <2>4, <2>6, FS_AddElement
    <3> QED
      BY <2>2, <2>3, <3>1, <3>2
  <2>7. CASE ~(n = 2 /\ IsPass(stack'[2]))
    <3>1. B2 = B1 /\ One(n = 2 /\ IsPass(stack'[2])) = 0
      BY <2>7 DEF One
    <3> HIDE DEF B1, B2, c
    <3> QED
      BY <2>2, <2>3, <2>5, <3>1
  <2> QED
    BY <2>6, <2>7
<1>9. c = 0 => \A k \in 1 .. Len(stack') : k > n => ~IsPass(stack'[k])
  <2>1. c = 0 => B = {}
    <3> HIDE DEF B, c
    <3> QED
      BY <1>4, <1>6, FS_EmptySet
  <2> QED
    BY <1>2, <2>1
<1> QED
  BY <1>6, <1>7, <1>8, <1>9

-----------------------------------------------------------------------------
(* The inductive invariant.  What the variables hold:                      *)
Typed ==
  /\ wiring \in Wirings
  /\ obs \in Seq(Observers)
  /\ dirty \subseteq Observers /\ dead \subseteq Observers
  /\ depth \in Nat /\ pending \in BOOLEAN /\ firing \in Nat
  /\ stack \in Seq(Frame)
  /\ DOMAIN value = Cells /\ DOMAIN seen = Observers
  /\ runs \in [Observers -> Nat]

(* The open blocks are the bottom of the stack, the one registration that  *)
(* can wait for its observer's first run lies on them, and the passes are  *)
(* above, none while a block is open.                                      *)
FramesInOrder ==
  /\ depth <= Len(stack)
  /\ \A k \in 1 .. Len(stack) :
       /\ stack[k].type = "batch" <=> k > Len(stack) - depth
       /\ stack[k].type = "register" => Len(stack) = k + depth
       /\ stack[k].type = "run" /\ stack[k].pc = "read" => k = 1
       /\ IsPass(stack[k]) => /\ depth = 0
                              /\ stack[k].at \in 1 .. stack[k].n + 1
                              /\ stack[k].n <= Len(obs)
  /\ firing = Cardinality(Passes)

(* What makes an observer run: the rest of a pass over a cell it watches,  *)
(* the rest of a flush or one asked for, or its body about to start.       *)
Covers(f, o) == \E i \in f.at .. f.n : obs[i] = o
NotifyComes(o) ==
  \E k \in 1 .. Len(stack) :
    stack[k].type = "notify" /\ Watches(o, stack[k].cell) /\ Covers(stack[k], o)
FlushCovers(o) == \E k \in 1 .. Len(stack) : stack[k].type = "flush" /\ Covers(stack[k], o)
RunComes(o) == At("read") /\ Top.o = o

Listed(o) == \E i \in 1 .. Len(obs) : obs[i] = o
Fresh(o) == seen[o] = Reads(o)

DirtyComes ==
  /\ \A o \in dirty : Listed(o) \/ o \in dead
  /\ \A o \in dirty : Listed(o) /\ IsLive(o) => pending \/ FlushCovers(o)
  /\ pending => depth > 0 \/ \E k \in 1 .. Len(stack) : stack[k].type = "flush"

StaleComes ==
  \A o \in Observers :
    Listed(o) /\ IsLive(o) => Fresh(o) \/ o \in dirty \/ NotifyComes(o) \/ RunComes(o)

(* While a computed cell's observer has run and is not yet registered,     *)
(* what runs writes no cell below its own: it stays up to date.            *)
RankOf(w) == CHOOSE rank \in [Cells -> 0 .. Cardinality(Cells)] : Layered(w, rank)
Later(o, c) ==
  wiring[o].out # None /\ RankOf(wiring)[wiring[o].out] <= RankOf(wiring)[c]
WritesLater(o, p) == wiring[p].out # None => Later(o, wiring[p].out)
AllowedAbove(o, f) ==
  /\ f.type = "run" => WritesLater(o, f.o)
  /\ f.type = "notify" => Later(o, f.cell)

ToRegister == {stack[k].o : k \in {j \in 1 .. Len(stack) : stack[j].type = "register"}}
AboveRegisters ==
  \A k \in 1 .. Len(stack) : stack[k].type = "register" =>
    \A j \in 1 .. Len(stack) : j < k => AllowedAbove(stack[k].o, stack[j])
RegistersRead ==
  \A o \in ToRegister :
    /\ ~ Listed(o) /\ o \notin dead
    /\ Fresh(o) \/ RunComes(o)
    /\ depth = 0 => \A d \in dirty : Listed(d) /\ IsLive(d) => WritesLater(o, d)

OwnersLive ==
  /\ OrphansNeverRun
  /\ \A q \in Observers : \A p \in wiring[q].rows :
       Listed(p) \/ p \in dead \/ OwnerLives(p)

WatchesInputs(o) == {wiring[o].a, wiring[o].b} \subseteq Inputs \cup {None}
OneChange ==
  /\ \A o \in Observers : WatchesInputs(o) =>
       /\ runs[o] \in {0, 1}
       /\ o \in dirty \/ depth > 0 => runs[o] = 0
  /\ InBatch => \A k \in 1 .. Len(stack) :
                  stack[k].type = "notify" => stack[k].cell \notin Inputs

IInv ==
  /\ Typed /\ FramesInOrder
  /\ DirtyComes /\ StaleComes
  /\ AboveRegisters /\ RegistersRead
  /\ OwnersLive /\ OneChange

-----------------------------------------------------------------------------
(* Facts about the wiring.                                                 *)
LEMMA Wired ==
  ASSUME wiring \in Wirings
  PROVE  /\ \A o \in Observers :
              /\ wiring[o].a \in Cells /\ wiring[o].b \in Cells \cup {None}
              /\ wiring[o].out \in Derived \cup {None}
              /\ wiring[o].batched \in BOOLEAN
              /\ wiring[o].rows \subseteq Observers
              /\ wiring[o].out # None => wiring[o].owner = None
         /\ \A o \in Observers : \A p \in wiring[o].rows :
              wiring[p].owner # None
              /\ \A q \in Observers \ {p} : wiring[q].owner # wiring[p].owner
         /\ RankOf(wiring) \in [Cells -> Int]
         /\ \A o \in Observers : \A c \in Cells :
              wiring[o].out # None /\ Watches(o, c)
                => RankOf(wiring)[c] < RankOf(wiring)[wiring[o].out]
<1>1. wiring \in WiringType /\ ComputedOrBound(wiring)
  BY WiringAssumption
<1>2. \E rank \in [Cells -> 0 .. Cardinality(Cells)] : Layered(wiring, rank)
  BY WiringAssumption
<1>3. RankOf(wiring) \in [Cells -> 0 .. Cardinality(Cells)] /\ Layered(wiring, RankOf(wiring))
  BY <1>2, Zenon DEF RankOf
<1>4. None \notin Cells
  BY NamesAssumption
<1>5. \A o \in Observers : \A c \in Cells :
        wiring[o].out # None /\ Watches(o, c)
          => RankOf(wiring)[c] < RankOf(wiring)[wiring[o].out]
  BY <1>3, <1>4 DEF Layered, Watches
<1>6. RankOf(wiring) \in [Cells -> Int]
  BY <1>3
<1> QED
  BY <1>1, <1>5, <1>6 DEF WiringType, ComputedOrBound

(* What writes a cell is later than all that watches what it writes.       *)
LEMMA WatchersLater ==
  ASSUME wiring \in Wirings, NEW o \in Observers, NEW c \in Cells, Later(o, c)
  PROVE  /\ ~ Watches(o, c)
         /\ \A p \in Observers : Watches(p, c) => WritesLater(o, p)
<1>1. \A p \in Observers : wiring[p].out # None => wiring[p].out \in Cells
  BY Wired DEF Cells
<1>2. /\ RankOf(wiring) \in [Cells -> Int]
      /\ \A p \in Observers : \A d \in Cells :
           wiring[p].out # None /\ Watches(p, d)
             => RankOf(wiring)[d] < RankOf(wiring)[wiring[p].out]
  BY Wired
<1> QED
  BY <1>1, <1>2 DEF Later, WritesLater

(* The frames the steps push are frames.                                   *)
LEMMA Framed ==
  ASSUME Typed
  PROVE  /\ \A c \in Cells : Notify(c) \in Frame
         /\ Flush \in Frame /\ [Flush EXCEPT !.n = Len(obs)] \in Frame
         /\ \A o \in Observers : Run(o) \in Frame /\ Seed(o) \in Frame /\ Register(o) \in Frame
         /\ Batch \in Frame
<1>1. Len(obs) \in Nat
  BY DEF Typed
<1> QED
  BY <1>1 DEF Notify, Flush, Run, Seed, Register, Batch, Frame

(* What each kind of frame carries.                                        *)
LEMMA Fields ==
  ASSUME NEW f \in Frame
  PROVE  /\ f.type \in {"notify", "flush", "run", "register", "batch"}
         /\ f.type = "notify" => f.cell \in Cells
         /\ IsPass(f) =>
              /\ f.at \in Nat /\ f.n \in Nat
              /\ NextTurn(f) \in Frame
              /\ NextTurn(f).type = f.type /\ NextTurn(f).at = f.at + 1
              /\ NextTurn(f).n = f.n
              /\ f.type = "notify" => NextTurn(f).cell = f.cell
         /\ f.type = "run" =>
              /\ f.o \in Observers /\ f.pc \in {"read", "build", "write"}
              /\ \A pc \in {"build", "write"} :
                   /\ [f EXCEPT !.pc = pc] \in Frame
                   /\ [f EXCEPT !.pc = pc].type = "run" /\ [f EXCEPT !.pc = pc].o = f.o
                   /\ [f EXCEPT !.pc = pc].pc = pc
         /\ f.type = "register" => f.o \in Observers
<1>1. /\ f.type \in {"notify", "flush", "run", "register", "batch"}
      /\ f.type = "notify" => f \in [type : {"notify"}, cell : Cells, at : Nat, n : Nat]
      /\ f.type = "flush" => f \in [type : {"flush"}, at : Nat, n : Nat]
      /\ f.type = "run" => f \in [type : {"run"}, o : Observers,
                                  pc : {"read", "build", "write"}, seed : BOOLEAN]
      /\ f.type = "register" => f.o \in Observers
  BY DEF Frame
<1>2. CASE f.type = "notify"
  <2>1. f \in [type : {"notify"}, cell : Cells, at : Nat, n : Nat]
    BY <1>1, <1>2
  <2>2. NextTurn(f) \in [type : {"notify"}, cell : Cells, at : Nat, n : Nat]
    BY <2>1 DEF NextTurn
  <2> QED
    BY <1>2, <2>1, <2>2 DEF NextTurn, Frame
<1>3. CASE f.type = "flush"
  <2>1. f \in [type : {"flush"}, at : Nat, n : Nat]
    BY <1>1, <1>3
  <2>2. NextTurn(f) \in [type : {"flush"}, at : Nat, n : Nat]
    BY <2>1 DEF NextTurn
  <2> QED
    BY <1>3, <2>1, <2>2 DEF NextTurn, Frame
<1>4. CASE f.type = "run"
  <2>1. f \in [type : {"run"}, o : Observers, pc : {"read", "build", "write"}, seed : BOOLEAN]
    BY <1>1, <1>4
  <2>2. \A pc \in {"build", "write"} :
          [f EXCEPT !.pc = pc] \in [type : {"run"}, o : Observers,
                                    pc : {"read", "build", "write"}, seed : BOOLEAN]
    BY <2>1
  <2> QED
    BY <1>4, <2>1, <2>2 DEF Frame, IsPass
<1> QED
  BY <1>1, <1>2, <1>3, <1>4 DEF IsPass

(* When the application's own code runs, only blocks are open.             *)
LEMMA AppIdle ==
  ASSUME Typed, FramesInOrder, AppRuns
  PROVE  Len(stack) = depth /\ \A k \in 1 .. Len(stack) : stack[k].type = "batch"
<1>1. Len(stack) \in Nat /\ depth \in Nat
  BY DEF Typed
<1>2. CASE stack = <<>>
  <2>1. Len(stack) = 0
    BY <1>2
  <2> QED
    BY <1>1, <2>1 DEF FramesInOrder
<1>3. CASE stack # <<>> /\ stack[1].type = "batch"
  <2>1. 1 \in 1 .. Len(stack)
    BY <1>3 DEF Typed
  <2> QED
    BY <1>1, <1>3, <2>1 DEF FramesInOrder
<1> QED
  BY <1>2, <1>3 DEF AppRuns, Calling, Top

(* A step that changes only upper frames keeps the order of the frames.    *)
LEMMA OrderKept ==
  ASSUME Typed, FramesInOrder, stack' \in Seq(Frame), obs' \in Seq(Observers),
         NEW m \in 0 .. 1, NEW n \in 0 .. 2, Rest(m, n), depth' = depth,
         m = 1 => stack[1].type # "batch",
         m = 0 => ~ At("read"),
         \A k \in 1 .. n :
           /\ stack'[k].type # "batch"
           /\ stack'[k].type = "register" => k = n /\ Len(stack) = m + depth
           /\ stack'[k].type = "run" /\ stack'[k].pc = "read" => k = 1
           /\ IsPass(stack'[k]) => /\ depth = 0
                                   /\ stack'[k].at \in 1 .. stack'[k].n + 1
                                   /\ stack'[k].n <= Len(obs'),
         firing' = firing - One(m = 1 /\ IsPass(stack[1]))
                     + One(n >= 1 /\ IsPass(stack'[1])) + One(n = 2 /\ IsPass(stack'[2])),
         firing' > 0 => Len(obs) <= Len(obs')
  PROVE  FramesInOrder' /\ firing' \in Nat
<1>1. /\ Len(stack) \in Nat /\ Len(stack') \in Nat /\ Len(obs) \in Nat /\ Len(obs') \in Nat
      /\ depth \in Nat /\ m <= Len(stack) /\ Len(stack') = Len(stack) - m + n
  BY DEF Typed, Rest
<1>2. m <= Len(stack) - depth
  <2>1. CASE m = 1
    <3>1. 1 \in 1 .. Len(stack)
      BY <1>1, <2>1
    <3> QED
      BY <1>1, <2>1, <3>1 DEF FramesInOrder
  <2> QED
    BY <1>1, <2>1 DEF FramesInOrder
<1>3. PICK c \in Nat :
        /\ Cardinality(Passes) = c + One(m = 1 /\ IsPass(stack[1]))
        /\ Cardinality(Passes') =
             c + One(n >= 1 /\ IsPass(stack'[1])) + One(n = 2 /\ IsPass(stack'[2]))
        /\ c = 0 => \A k \in 1 .. Len(stack') : k > n => ~IsPass(stack'[k])
  BY PassCount DEF Typed
<1>4. firing' = Cardinality(Passes') /\ firing' \in Nat /\ (firing' = 0 => c = 0)
  BY <1>3 DEF FramesInOrder, One
<1>5. \A k \in 1 .. n :
        k \in 1 .. Len(stack') =>
           /\ stack'[k].type = "batch" <=> k > Len(stack') - depth'
           /\ stack'[k].type = "register" => Len(stack') = k + depth'
           /\ stack'[k].type = "run" /\ stack'[k].pc = "read" => k = 1
           /\ IsPass(stack'[k]) => /\ depth' = 0
                                   /\ stack'[k].at \in 1 .. stack'[k].n + 1
                                   /\ stack'[k].n <= Len(obs')
  <2> SUFFICES ASSUME NEW k \in 1 .. n, k \in 1 .. Len(stack')
               PROVE  /\ stack'[k].type = "batch" <=> k > Len(stack') - depth'
                      /\ stack'[k].type = "register" => Len(stack') = k + depth'
                      /\ stack'[k].type = "run" /\ stack'[k].pc = "read" => k = 1
                      /\ IsPass(stack'[k]) => /\ depth' = 0
                                              /\ stack'[k].at \in 1 .. stack'[k].n + 1
                                              /\ stack'[k].n <= Len(obs')
    OBVIOUS
  <2>1. k <= Len(stack') - depth'
    BY <1>1, <1>2
  <2>2. stack'[k].type = "register" => Len(stack') = k + depth'
    <3>1. stack'[k].type = "register" => k = n
      OBVIOUS
    <3>2. stack'[k].type = "register" => Len(stack) = m + depth
      OBVIOUS
    <3>3. n \in Int /\ m \in Int
      OBVIOUS
    <3>4. Len(stack) = m + depth => Len(stack') = n + depth'
      BY <1>1, <3>3
    <3> QED
      BY <3>1, <3>2, <3>4
  <2>3. ~ (k > Len(stack') - depth')
    <3>1. k \in Int /\ Len(stack') \in Int /\ depth' \in Int /\ k <= Len(stack') - depth'
      BY <1>1, <2>1
    <3> QED
      BY ONLY <3>1
  <2>4. IsPass(stack'[k]) => depth' = 0
    BY <1>1
  <2> QED
    BY <2>2, <2>3, <2>4
<1>6. \A k \in 1 .. Len(stack') : k > n =>
           /\ stack'[k].type = "batch" <=> k > Len(stack') - depth'
           /\ stack'[k].type = "register" => Len(stack') = k + depth'
           /\ stack'[k].type = "run" /\ stack'[k].pc = "read" => k = 1
           /\ IsPass(stack'[k]) => /\ depth' = 0
                                   /\ stack'[k].at \in 1 .. stack'[k].n + 1
                                   /\ stack'[k].n <= Len(obs')
  <2> SUFFICES ASSUME NEW k \in 1 .. Len(stack'), k > n
               PROVE  /\ stack'[k].type = "batch" <=> k > Len(stack') - depth'
                      /\ stack'[k].type = "register" => Len(stack') = k + depth'
                      /\ stack'[k].type = "run" /\ stack'[k].pc = "read" => k = 1
                      /\ IsPass(stack'[k]) => /\ depth' = 0
                                              /\ stack'[k].at \in 1 .. stack'[k].n + 1
                                              /\ stack'[k].n <= Len(obs')
    OBVIOUS
  <2> DEFINE j == k - n + m
  <2>1. /\ j \in 1 .. Len(stack) /\ j > m /\ stack'[k] = stack[j]
        /\ Len(stack') - k = Len(stack) - j
    BY RestBack DEF Typed
  <2> HIDE DEF j
  <2>2. /\ stack[j].type = "batch" <=> j > Len(stack) - depth
        /\ stack[j].type = "register" => Len(stack) = j + depth
        /\ stack[j].type = "run" /\ stack[j].pc = "read" => j = 1
        /\ IsPass(stack[j]) => /\ depth = 0
                               /\ stack[j].at \in 1 .. stack[j].n + 1
                               /\ stack[j].n <= Len(obs)
    BY <2>1 DEF FramesInOrder
  <2>3. ~ (stack'[k].type = "run" /\ stack'[k].pc = "read")
    <3>1. SUFFICES ASSUME stack'[k].type = "run" /\ stack'[k].pc = "read" PROVE FALSE
      OBVIOUS
    <3>2. j = 1 /\ stack[1].type = "run" /\ stack[1].pc = "read"
      BY <2>1, <2>2, <3>1
    <3>3. stack # <<>>
      BY <2>1, <3>2
    <3>4. m \in 0 .. 1 /\ j > m
      BY <2>1
    <3>5. m = 0
      BY ONLY <3>2, <3>4
    <3> QED
      BY <3>2, <3>3, <3>5 DEF At, Calling, Top
  <2>4. IsPass(stack'[k]) => Len(obs) <= Len(obs')
    BY <1>3, <1>4
  <2>5. IsPass(stack'[k]) => stack'[k].n \in Nat
    <3>1. stack[j] \in Frame
      BY <2>1 DEF Typed
    <3> QED
      BY <2>1, <3>1, Fields
  <2>6. /\ k > Len(stack') - depth' <=> j > Len(stack) - depth
        /\ Len(stack) = j + depth => Len(stack') = k + depth'
    <3>1. Len(stack') - k = Len(stack) - j /\ j \in Int /\ k \in Int
      BY <2>1
    <3>2. Len(stack) \in Int /\ Len(stack') \in Int /\ depth \in Int /\ depth' = depth
      BY <1>1
    <3>3. /\ k > Len(stack') - depth <=> j > Len(stack) - depth
          /\ Len(stack) = j + depth => Len(stack') = k + depth
      BY ONLY <3>1, <3>2
    <3> QED
      BY <3>2, <3>3, Zenon
  <2>7. /\ stack'[k].type = "batch" <=> k > Len(stack') - depth'
        /\ stack'[k].type = "register" => Len(stack') = k + depth'
    BY <2>1, <2>2, <2>6
  <2>8. IsPass(stack'[k]) => /\ depth' = 0
                             /\ stack'[k].at \in 1 .. stack'[k].n + 1
                             /\ stack'[k].n <= Len(obs')
    <3>1. SUFFICES ASSUME IsPass(stack'[k])
                   PROVE  /\ depth' = 0
                          /\ stack'[k].at \in 1 .. stack'[k].n + 1
                          /\ stack'[k].n <= Len(obs')
      OBVIOUS
    <3>2. depth' = 0 /\ stack'[k].at \in 1 .. stack'[k].n + 1 /\ stack'[k].n <= Len(obs)
      BY <2>1, <2>2, <3>1
    <3>3. stack'[k].n \in Nat /\ Len(obs) <= Len(obs') /\ Len(obs) \in Nat /\ Len(obs') \in Nat
      BY <1>1, <2>4, <2>5, <3>1
    <3> QED
      BY ONLY <3>2, <3>3
  <2> QED
    BY <2>3, <2>7, <2>8
<1>7. depth' <= Len(stack')
  BY <1>1, <1>2
<1> QED
  BY <1>4, <1>5, <1>6, <1>7 DEF FramesInOrder

(* The passes below the frames a step changes still come to an observer,   *)
(* as long as the list only grows at its end.                              *)
Grows == Len(obs) <= Len(obs') /\ \A i \in 1 .. Len(obs) : obs'[i] = obs[i]
NotifyFrom(m, o) ==
  \E k \in 1 .. Len(stack) :
    k > m /\ stack[k].type = "notify" /\ Watches(o, stack[k].cell) /\ Covers(stack[k], o)
FlushFrom(m, o) ==
  \E k \in 1 .. Len(stack) : k > m /\ stack[k].type = "flush" /\ Covers(stack[k], o)

(* A pass that had still to come to an observer still has.                 *)
LEMMA ComesKept ==
  ASSUME Typed, FramesInOrder, wiring' = wiring, Grows, NEW m \in 0 .. 1, NEW n \in 0 .. 2,
         Rest(m, n)
  PROVE  \A o : /\ NotifyFrom(m, o) => NotifyComes(o)'
                /\ FlushFrom(m, o) => FlushCovers(o)'
<1>1. \A k \in 1 .. Len(stack) : k > m =>
        /\ k - m + n \in 1 .. Len(stack') /\ stack'[k - m + n] = stack[k]
  BY DEF Typed, Rest
<1>2. \A k \in 1 .. Len(stack) : IsPass(stack[k]) =>
        \A o : Covers(stack[k], o) => \E i \in stack[k].at .. stack[k].n : obs'[i] = o
  <2> TAKE k \in 1 .. Len(stack)
  <2> HAVE IsPass(stack[k])
  <2>1. stack[k] \in Frame
    BY DEF Typed
  <2>2. stack[k].at \in Nat /\ stack[k].n \in Nat
    BY <2>1, Fields
  <2>3. stack[k].at \in 1 .. stack[k].n + 1 /\ stack[k].n <= Len(obs)
    BY DEF FramesInOrder
  <2>4. \A i \in stack[k].at .. stack[k].n : obs'[i] = obs[i]
    <3>1. Len(obs) \in Nat
      BY DEF Typed
    <3>2. \A i \in stack[k].at .. stack[k].n : i \in 1 .. Len(obs)
      BY ONLY <2>2, <2>3, <3>1
    <3> QED
      BY <3>2 DEF Grows
  <2> QED
    BY <2>4 DEF Covers
<1>3. ASSUME NEW o, NotifyFrom(m, o) PROVE NotifyComes(o)'
  <2>1. PICK k \in 1 .. Len(stack) :
          k > m /\ stack[k].type = "notify" /\ Watches(o, stack[k].cell) /\ Covers(stack[k], o)
    BY <1>3 DEF NotifyFrom
  <2>2. k - m + n \in 1 .. Len(stack') /\ stack'[k - m + n] = stack[k]
    BY <1>1, <2>1
  <2>3. \E i \in stack[k].at .. stack[k].n : obs'[i] = o
    BY <1>2, <2>1 DEF IsPass
  <2> QED
    BY <2>1, <2>2, <2>3 DEF NotifyComes, Covers, Watches
<1>4. ASSUME NEW o, FlushFrom(m, o) PROVE FlushCovers(o)'
  <2>1. PICK k \in 1 .. Len(stack) :
          k > m /\ stack[k].type = "flush" /\ Covers(stack[k], o)
    BY <1>4 DEF FlushFrom
  <2>2. k - m + n \in 1 .. Len(stack') /\ stack'[k - m + n] = stack[k]
    BY <1>1, <2>1
  <2>3. \E i \in stack[k].at .. stack[k].n : obs'[i] = o
    BY <1>2, <2>1 DEF IsPass
  <2> QED
    BY <2>1, <2>2, <2>3 DEF FlushCovers, Covers
<1> QED
  BY <1>3, <1>4

(* A flush under way is under way until it ends.                           *)
LEMMA FlushStays ==
  ASSUME stack \in Seq(Frame), NEW m \in 0 .. 1, NEW n \in 0 .. 2, Rest(m, n),
         m = 1 => stack[1].type # "flush",
         \E k \in 1 .. Len(stack) : stack[k].type = "flush"
  PROVE  \E k \in 1 .. Len(stack') : stack'[k].type = "flush"
<1>1. PICK k \in 1 .. Len(stack) : stack[k].type = "flush"
  OBVIOUS
<1>2. m \in 0 .. 1 /\ n \in 0 .. 2 /\ Len(stack) \in Nat /\ k \in 1 .. Len(stack)
      /\ (k = 1 => m = 0) /\ Len(stack') = Len(stack) - m + n
  BY <1>1 DEF Rest
<1>3. k - m + n \in 1 .. Len(stack') /\ k > m
  BY ONLY <1>2
<1> QED
  BY <1>1, <1>3 DEF Rest

(* What was coming by the frames a step keeps, or by its upper frame.      *)
LEMMA ComesFrom ==
  ASSUME Typed, NEW m \in 0 .. 1
  PROVE  /\ \A o : NotifyComes(o) =>
                NotifyFrom(m, o)
                \/ (m = 1 /\ stack[1].type = "notify" /\ Watches(o, stack[1].cell)
                          /\ Covers(stack[1], o))
         /\ \A o : FlushCovers(o) =>
                FlushFrom(m, o) \/ (m = 1 /\ stack[1].type = "flush" /\ Covers(stack[1], o))
<1>1. m \in 0 .. 1 /\ Len(stack) \in Nat
  BY DEF Typed
<1>2. \A k \in 1 .. Len(stack) : k > m \/ (k = 1 /\ m = 1)
  BY ONLY <1>1
<1>3. ASSUME NEW o, NotifyComes(o), ~ NotifyFrom(m, o)
      PROVE  m = 1 /\ stack[1].type = "notify" /\ Watches(o, stack[1].cell)
             /\ Covers(stack[1], o)
  BY <1>2, <1>3 DEF NotifyFrom, NotifyComes
<1>4. ASSUME NEW o, FlushCovers(o), ~ FlushFrom(m, o)
      PROVE  m = 1 /\ stack[1].type = "flush" /\ Covers(stack[1], o)
  BY <1>2, <1>4 DEF FlushFrom, FlushCovers
<1> QED
  BY <1>3, <1>4

(* Frames that stay have the registrations below them they had.            *)
LEMMA AboveKept ==
  ASSUME Typed, FramesInOrder, AboveRegisters, wiring' = wiring,
         NEW m \in 0 .. 1, NEW n \in 0 .. 2, Rest(m, n), stack' \in Seq(Frame),
         \A k \in 1 .. n : stack'[k].type = "register" =>
           n = 2 /\ k = 2 /\ AllowedAbove(stack'[2].o, stack'[1]),
         \A o \in ToRegister : \A k \in 1 .. n : AllowedAbove(o, stack'[k])
  PROVE  /\ AboveRegisters'
         /\ \A o \in ToRegister' :
              o \in ToRegister \/ (n = 2 /\ stack'[2].type = "register" /\ o = stack'[2].o)
<1>1. \A k \in 1 .. Len(stack') : k > n =>
        /\ k - n + m \in 1 .. Len(stack) /\ k - n + m > m /\ stack'[k] = stack[k - n + m]
  BY RestBack DEF Typed
<1>2. \A k \in 1 .. Len(stack') : k > n /\ stack'[k].type = "register" =>
        stack'[k].o \in ToRegister
  BY <1>1 DEF ToRegister
<1>3. \A o, f : AllowedAbove(o, f)' <=> AllowedAbove(o, f)
  BY DEF AllowedAbove, WritesLater, Later
<1>4. \A k \in 1 .. Len(stack') : k \in 1 .. n \/ k > n
  BY DEF Typed
<1>5. ASSUME NEW k \in 1 .. Len(stack'), stack'[k].type = "register",
             NEW j \in 1 .. Len(stack'), j < k
      PROVE  AllowedAbove(stack'[k].o, stack'[j])
  <2>1. CASE k > n /\ j > n
    <3> DEFINE kk == k - n + m
               jj == j - n + m
    <3>1. kk \in 1 .. Len(stack) /\ jj \in 1 .. Len(stack) /\ jj < kk
          /\ stack'[k] = stack[kk] /\ stack'[j] = stack[jj]
      BY <1>1, <1>5, <2>1
    <3> HIDE DEF kk, jj
    <3> QED
      BY <1>5, <3>1 DEF AboveRegisters
  <2>2. CASE k > n /\ j \in 1 .. n
    BY <1>2, <1>5, <2>2
  <2>3. CASE k \in 1 .. n
    <3>1. n = 2 /\ k = 2 /\ AllowedAbove(stack'[2].o, stack'[1]) /\ j = 1
      BY <1>5, <2>3
    <3> QED
      BY <3>1
  <2> QED
    BY <1>4, <2>1, <2>2, <2>3
<1>6. AboveRegisters'
  BY <1>3, <1>5 DEF AboveRegisters
<1>7. \A o \in ToRegister' :
         o \in ToRegister \/ (n = 2 /\ stack'[2].type = "register" /\ o = stack'[2].o)
  <2> TAKE o \in ToRegister'
  <2>1. PICK k \in 1 .. Len(stack') : stack'[k].type = "register" /\ o = stack'[k].o
    BY DEF ToRegister
  <2>2. k \in 1 .. n => n = 2 /\ k = 2
    BY <2>1
  <2> QED
    BY <1>2, <1>4, <2>1, <2>2
<1> QED
  BY <1>6, <1>7

(* A step that leaves a body about to start at the top has put it there.   *)
LEMMA TopAfter ==
  ASSUME Typed, FramesInOrder, stack' \in Seq(Frame), NEW m \in 0 .. 1, NEW n \in 0 .. 2,
         Rest(m, n), m = 0 => ~ At("read")
  PROVE  /\ n >= 1 => stack' # <<>> /\ Top' = stack'[1]
         /\ n = 0 => ~ At("read")'
<1>1. m \in 0 .. 1 /\ n \in 0 .. 2 /\ Len(stack) \in Nat /\ Len(stack') \in Nat
      /\ m <= Len(stack) /\ Len(stack') = Len(stack) - m + n
  BY DEF Typed, Rest
<1>2. n >= 1 => Len(stack') # 0
  BY ONLY <1>1
<1>3. n >= 1 => stack' # <<>> /\ Top' = stack'[1]
  BY <1>2 DEF Top
<1>4. ASSUME n = 0, At("read")' PROVE FALSE
  <2>1. stack' # <<>> /\ stack'[1].type = "run" /\ stack'[1].pc = "read" /\ 1 \in 1 .. Len(stack')
    BY <1>4 DEF At, Calling, Top
  <2>2. 1 - n + m \in 1 .. Len(stack) /\ stack'[1] = stack[1 - n + m]
    BY <1>4, <2>1, RestBack DEF Typed
  <2>3. 1 - n + m = 1 + m
    BY <1>1, <1>4
  <2>4. 1 + m = 1
    BY <2>1, <2>2, <2>3 DEF FramesInOrder
  <2>5. m = 0
    BY ONLY <1>1, <2>4
  <2>6. stack # <<>> /\ stack[1] = stack'[1]
    BY <1>1, <2>2, <2>3, <2>4
  <2> QED
    BY <2>1, <2>5, <2>6 DEF At, Calling, Top
<1> QED
  BY <1>3, <1>4

(* An observer's owner is looked up before every run.                      *)
LEMMA OwnersKept ==
  ASSUME Typed, FramesInOrder, OwnersLive, wiring' = wiring, stack' \in Seq(Frame),
         NEW m \in 0 .. 1, NEW n \in 0 .. 2, Rest(m, n), m = 0 => ~ At("read"),
         alive' = alive, \A o : Listed(o) \/ o \in dead => Listed(o)' \/ o \in dead',
         n >= 1 /\ stack'[1].type = "run" /\ stack'[1].pc = "read" => OwnerLives(stack'[1].o)
  PROVE  OwnersLive'
<1>1. \A o : OwnerLives(o)' <=> OwnerLives(o)
  BY DEF OwnerLives
<1>2. n = 0 \/ n >= 1
  OBVIOUS
<1>3. At("read")' => OwnerLives(Top.o)'
  BY <1>1, <1>2, TopAfter DEF At, Calling
<1> QED
  BY <1>1, <1>3 DEF OwnersLive, OrphansNeverRun

(* A flush of a batch that is still closing has only computed cells under  *)
(* way.                                                                    *)
LEMMA NoInputPass ==
  ASSUME Typed, OneChange, stack' \in Seq(Frame), NEW m \in 0 .. 1, NEW n \in 0 .. 2,
         Rest(m, n),
         InBatch' => \A k \in 1 .. n : stack'[k].type = "notify" => stack'[k].cell \notin Inputs
  PROVE  InBatch' => \A k \in 1 .. Len(stack') :
                       stack'[k].type = "notify" => stack'[k].cell \notin Inputs
<1>1. SUFFICES ASSUME InBatch', NEW k \in 1 .. Len(stack'), k > n
               PROVE  stack'[k].type = "notify" => stack'[k].cell \notin Inputs
  BY DEF Typed
<1>2. /\ k - n + m \in 1 .. Len(stack) /\ k - n + m > m /\ stack'[k] = stack[k - n + m]
      /\ Len(stack') - k = Len(stack) - (k - n + m)
  BY <1>1, RestBack DEF Typed
<1>3. m \in 0 .. 1 /\ n \in 0 .. 2 /\ Len(stack) \in Nat /\ Len(stack') \in Nat
      /\ Len(stack') = Len(stack) - m + n /\ k \in 1 .. Len(stack') /\ k > n
  BY <1>1 DEF Typed, Rest
<1>4. Len(stack') > n /\ Len(stack') \in 1 .. Len(stack') /\ Len(stack') - n + m = Len(stack)
      /\ Len(stack) # 0
  BY ONLY <1>3
<1>5. stack'[Len(stack')] = stack[Len(stack)]
  BY <1>4, RestBack DEF Typed
<1>6. InBatch
  BY <1>1, <1>4, <1>5 DEF InBatch, Last
<1> QED
  BY <1>2, <1>6 DEF OneChange

(* What is at the bottom of the stack stays there.                         *)
LEMMA BatchStays ==
  ASSUME stack \in Seq(Frame), stack # <<>>, stack' \in Seq(Frame), NEW n \in 1 .. 2,
         Rest(1, n), InBatch', n = 1 => stack'[1].type = stack[1].type,
         n = 2 => stack'[2].type = stack[1].type
  PROVE  InBatch
<1>1. Len(stack) \in Nat /\ Len(stack) # 0 /\ n \in 1 .. 2 /\ Len(stack') = Len(stack) - 1 + n
  BY DEF Rest
<1>2. CASE Len(stack) = 1
  <2>1. Len(stack') = n
    BY <1>1, <1>2
  <2> QED
    BY <1>2, <2>1 DEF InBatch, Last
<1>3. CASE Len(stack) > 1
  <2>1. Len(stack) \in 1 .. Len(stack) /\ Len(stack) - 1 + n = Len(stack')
    BY <1>1
  <2>2. stack'[Len(stack')] = stack[Len(stack)]
    BY <1>3, <2>1 DEF Rest
  <2> QED
    BY <2>2 DEF InBatch, Last
<1>4. Len(stack) = 1 \/ Len(stack) > 1
  <2>1. \A k \in Nat : k # 0 => k = 1 \/ k > 1
    OBVIOUS
  <2> QED
    BY <1>1, <2>1
<1> QED
  BY <1>2, <1>3, <1>4

(* No pass counted, no pass on the stack.                                  *)
LEMMA NoPass ==
  ASSUME NEW s \in Seq(Frame), Cardinality({k \in 1 .. Len(s) : IsPass(s[k])}) = 0
  PROVE  \A k \in 1 .. Len(s) : ~ IsPass(s[k])
<1> DEFINE P == {k \in 1 .. Len(s) : IsPass(s[k])}
<1>1. P \in SUBSET (1 .. Len(s)) /\ Len(s) \in Nat /\ Cardinality(P) = 0
  OBVIOUS
<1> HIDE DEF P
<1>2. IsFiniteSet(1 .. Len(s))
  BY <1>1, FS_Interval
<1>3. IsFiniteSet(P)
  BY <1>1, <1>2, FS_Subset
<1>4. P = {}
  BY <1>1, <1>3, FS_EmptySet
<1> QED
  BY <1>4 DEF P

(* What a step leaves as it is.                                            *)
LEMMA Unmoved ==
  ASSUME Typed
  PROVE  /\ obs' = obs => Grows /\ \A o : Listed(o)' <=> Listed(o)
         /\ \A o : o \in ToSet(obs) <=> Listed(o)
         /\ \A o : Listed(o) => o \in Observers
         /\ wiring' = wiring /\ alive' \subseteq alive /\ dead \subseteq dead' =>
              \A o : IsLive(o)' => IsLive(o)
         /\ UNCHANGED <<wiring, value>> => \A o : Reads(o)' = Reads(o)
<1>1. obs \in Seq(Observers) /\ stack \in Seq(Frame)
  BY DEF Typed
<1>2. obs' = obs => Grows /\ \A o : Listed(o)' <=> Listed(o)
  BY <1>1 DEF Grows, Listed
<1>3. /\ \A o : o \in ToSet(obs) <=> Listed(o)
      /\ \A o : Listed(o) => o \in Observers
  BY <1>1 DEF ToSet, Listed
<1>4. wiring' = wiring /\ alive' \subseteq alive /\ dead \subseteq dead' =>
              \A o : IsLive(o)' => IsLive(o)
  BY DEF IsLive, OwnerLives
<1>5. UNCHANGED <<wiring, value>> => \A o : Reads(o)' = Reads(o)
  BY DEF Reads, ValueOf
<1> QED
  BY <1>2, <1>3, <1>4, <1>5

(* A registration adds at the end of the list.                             *)
LEMMA Appended ==
  ASSUME obs \in Seq(Observers), NEW o \in Observers, obs' = Append(obs, o)
  PROVE  /\ obs' \in Seq(Observers) /\ Grows /\ Len(obs') = Len(obs) + 1
         /\ \A p : Listed(p)' <=> Listed(p) \/ p = o
<1>1. /\ obs' \in Seq(Observers) /\ Len(obs') = Len(obs) + 1 /\ Len(obs) \in Nat
      /\ obs'[Len(obs) + 1] = o
      /\ \A i \in 1 .. Len(obs) : obs'[i] = obs[i]
  OBVIOUS
<1>2. Grows
  BY <1>1 DEF Grows
<1>3. 1 .. Len(obs') = 1 .. Len(obs) \cup {Len(obs) + 1}
  BY <1>1
<1> QED
  BY <1>1, <1>2, <1>3 DEF Listed

(* A set is read only by those who watch the cell.                         *)
LEMMA ReadsKept ==
  ASSUME Typed, wiring' = wiring, NEW c \in Cells, NEW v, value' = [value EXCEPT ![c] = v]
  PROVE  \A o \in Observers : ~ Watches(o, c) => Reads(o)' = Reads(o)
<1>1. \A o \in Observers :
        wiring[o].a \in Cells \cup {None} /\ wiring[o].b \in Cells \cup {None}
  BY Wired DEF Typed
<1>2. \A d \in Cells \ {c} : value'[d] = value[d]
  BY DEF Typed
<1>3. \A o \in Observers : ~ Watches(o, c) =>
        ValueOf(wiring[o].a)' = ValueOf(wiring[o].a) /\ ValueOf(wiring[o].b)' = ValueOf(wiring[o].b)
  BY <1>1, <1>2 DEF ValueOf, Watches
<1> QED
  BY <1>3 DEF Reads

-----------------------------------------------------------------------------
(* The application's steps keep the invariant.                             *)
LEMMA SetKeeps ==
  ASSUME IInv, NEW c \in Inputs, AppSet(c)
  PROVE  IInv'
<1> USE DEF IInv
<1>1. /\ UNCHANGED <<wiring, obs, dead, depth, alive, seen, runs>>
      /\ value' = [value EXCEPT ![c] = sets + 1]
      /\ AppRuns /\ c \in Cells
  BY DEF AppSet, Cells
<1>2. /\ Len(stack) = depth /\ \A k \in 1 .. Len(stack) : stack[k].type = "batch"
      /\ ~ At("read")
      /\ \A o : ~ NotifyComes(o) /\ ~ FlushCovers(o) /\ ~ RunComes(o)
      /\ ToRegister = {}
  BY <1>1, AppIdle DEF At, AppRuns, Calling, NotifyComes, FlushCovers, RunComes, ToRegister
<1>3. /\ Grows /\ \A o : Listed(o)' <=> Listed(o)
      /\ \A o : o \in ToSet(obs) <=> Listed(o)
      /\ \A o : Listed(o) => o \in Observers
      /\ \A o : IsLive(o)' => IsLive(o)
  BY <1>1, Unmoved
<1>4. \A o \in Observers : ~ Watches(o, c) => (Fresh(o)' <=> Fresh(o))
  BY <1>1, ReadsKept DEF Fresh
<1>5. \A o : Watches(o, c) /\ Listed(o) => o \in Watchers(c)
  BY <1>3 DEF Watchers
<1>6. CASE depth > 0
  <2>1. stack' = stack /\ firing' = firing /\ dirty' = dirty \cup Watchers(c)
        /\ pending' = (pending \/ Watchers(c) # {})
    BY <1>6 DEF AppSet, MarkWatchers
  <2>2. Rest(0, 0) /\ stack' \in Seq(Frame)
    BY <2>1 DEF Rest, Typed
  <2>3. Watchers(c) \subseteq Observers /\ \A o \in Watchers(c) : Listed(o)
    BY <1>3 DEF Watchers
  <2>4. Typed'
    BY <1>1, <2>1, <2>3 DEF Typed
  <2>5. FramesInOrder'
    BY <1>1, <2>1 DEF FramesInOrder, Passes
  <2>6. DirtyComes'
    BY <1>1, <1>2, <1>3, <1>6, <2>1, <2>3 DEF DirtyComes
  <2>7. StaleComes'
    BY <1>2, <1>3, <1>4, <1>5, <2>1 DEF StaleComes
  <2>8. AboveRegisters' /\ RegistersRead'
    <3>1. \A k \in 1 .. Len(stack') : stack'[k].type = "batch"
      BY <1>2, <2>1
    <3> QED
      BY <3>1 DEF AboveRegisters, RegistersRead, ToRegister
  <2>9. OwnersLive'
    BY <1>1, <1>2, <1>3, <2>2, OwnersKept
  <2>10. OneChange'
    <3>1. InBatch' <=> InBatch
      BY <2>1 DEF InBatch
    <3> QED
      BY <1>1, <1>6, <2>1, <3>1 DEF OneChange, WatchesInputs
  <2> QED
    BY <2>4, <2>5, <2>6, <2>7, <2>8, <2>9, <2>10
<1>7. CASE depth = 0
  <2> DEFINE f == Notify(c)
  <2>1. Push(f) /\ firing' = firing + 1 /\ dirty' = dirty /\ pending' = pending
    BY <1>7 DEF AppSet
  <2>2. f \in Frame /\ f.type = "notify" /\ f.cell = c /\ f.at = 1 /\ f.n = Len(obs)
    BY <1>1, Framed DEF Notify
  <2> HIDE DEF f
  <2>3. stack' \in Seq(Frame) /\ Rest(0, 1) /\ stack'[1] = f /\ Len(stack') = 1 /\ Len(stack) = 0
    <3>1. Len(stack) = 0
      BY <1>2, <1>7
    <3> QED
      BY <2>1, <2>2, <3>1, PushRest DEF Rest, Typed
  <2>4. FramesInOrder' /\ firing' \in Nat
    <3>1. One(0 = 1 /\ IsPass(stack[1])) = 0 /\ One(1 >= 1 /\ IsPass(stack'[1])) = 1
          /\ One(1 = 2 /\ IsPass(stack'[2])) = 0
      BY <2>2, <2>3 DEF One, IsPass
    <3>2. firing \in Nat /\ Len(obs) \in Nat /\ obs' \in Seq(Observers) /\ Len(obs') = Len(obs)
      BY <1>1 DEF Typed
    <3>3. firing' = firing - One(0 = 1 /\ IsPass(stack[1])) + One(1 >= 1 /\ IsPass(stack'[1]))
                      + One(1 = 2 /\ IsPass(stack'[2]))
      BY <2>1, <3>1, <3>2
    <3> QED
      BY <1>1, <1>2, <1>7, <2>2, <2>3, <3>2, <3>3, OrderKept DEF IsPass
  <2>5. Typed'
    BY <1>1, <2>1, <2>3, <2>4 DEF Typed
  <2>6. DirtyComes'
    BY <1>1, <1>2, <1>3, <1>7, <2>1 DEF DirtyComes
  <2>7. \A o : Listed(o) /\ Watches(o, c) => NotifyComes(o)'
    BY <1>1, <2>2, <2>3 DEF NotifyComes, Listed, Covers, Watches
  <2>8. StaleComes'
    BY <1>2, <1>3, <1>4, <2>1, <2>7 DEF StaleComes
  <2>9. AboveRegisters' /\ RegistersRead'
    <3>1. \A k \in 1 .. Len(stack') : stack'[k].type = "notify"
      BY <2>2, <2>3
    <3> QED
      BY <3>1 DEF AboveRegisters, RegistersRead, ToRegister
  <2>10. OwnersLive'
    BY <1>1, <1>2, <1>3, <2>2, <2>3, OwnersKept
  <2>11. OneChange'
    <3>1. ~ InBatch'
      BY <2>2, <2>3 DEF InBatch, Last
    <3> QED
      BY <1>1, <1>7, <2>1, <3>1 DEF OneChange, WatchesInputs
  <2> QED
    BY <2>4, <2>5, <2>6, <2>8, <2>9, <2>10, <2>11
<1> QED
  BY <1>6, <1>7 DEF Typed

(* A batch begins.                                                         *)
LEMMA BeginKeeps ==
  ASSUME IInv, BatchBegin
  PROVE  IInv'
<1> USE DEF IInv
<1>1. /\ UNCHANGED <<wiring, obs, dirty, dead, pending, firing, value, alive, seen>>
      /\ depth' = depth + 1 /\ Push(Batch)
      /\ runs' = IF depth = 0 THEN [o \in Observers |-> 0] ELSE runs
      /\ AppRuns
  BY DEF BatchBegin
<1>2. /\ Len(stack) = depth /\ \A k \in 1 .. Len(stack) : stack[k].type = "batch"
      /\ ~ At("read")
      /\ \A o : ~ NotifyComes(o) /\ ~ FlushCovers(o) /\ ~ RunComes(o)
  BY <1>1, AppIdle DEF At, AppRuns, Calling, NotifyComes, FlushCovers, RunComes
<1>3. /\ stack' \in Seq(Frame) /\ Rest(0, 1) /\ stack'[1] = Batch /\ Batch.type = "batch"
      /\ Len(stack') = Len(stack) + 1 /\ Len(stack) \in Nat
      /\ \A k \in 1 .. Len(stack') : stack'[k].type = "batch"
  <2>1. stack' \in Seq(Frame) /\ Rest(0, 1) /\ stack'[1] = Batch
    BY <1>1, Framed, PushRest DEF Typed
  <2>2. Len(stack') = Len(stack) + 1 /\ Len(stack) \in Nat
    BY <2>1 DEF Rest, Typed
  <2>3. \A k \in 1 .. Len(stack') : k = 1 \/ k - 1 \in 1 .. Len(stack)
    BY ONLY <2>2
  <2>4. \A k \in 1 .. Len(stack') : k > 1 => stack'[k].type = "batch"
    <3> SUFFICES ASSUME NEW k \in 1 .. Len(stack'), k > 1 PROVE stack'[k].type = "batch"
      OBVIOUS
    <3>1. \A j \in 1 .. Len(stack) : stack'[j - 0 + 1] = stack[j]
      BY <2>1, <2>2 DEF Rest
    <3>2. k - 1 \in 1 .. Len(stack)
      BY <2>3
    <3>3. (k - 1) - 0 + 1 = k
      OBVIOUS
    <3> QED
      BY <1>2, <3>1, <3>2, <3>3
  <2> QED
    BY <2>1, <2>2, <2>3, <2>4 DEF Batch
<1>4. /\ Grows /\ \A o : Listed(o)' <=> Listed(o)
      /\ \A o : IsLive(o)' => IsLive(o)
      /\ \A o : Fresh(o)' <=> Fresh(o)
  BY <1>1, Unmoved DEF Fresh
<1>5. depth \in Nat /\ depth' > 0
  BY <1>1 DEF Typed
<1>6. Typed'
  BY <1>1, <1>3, <1>5 DEF Typed
<1>7. FramesInOrder'
  <2>1. Passes = {} /\ Passes' = {}
    BY <1>2, <1>3 DEF Passes
  <2>2. Len(stack') = depth'
    BY <1>1, <1>2, <1>3
  <2> QED
    BY <1>1, <1>3, <2>1, <2>2 DEF FramesInOrder, IsPass
<1>8. DirtyComes'
  BY <1>1, <1>2, <1>4, <1>5 DEF DirtyComes
<1>9. StaleComes'
  BY <1>1, <1>2, <1>4 DEF StaleComes
<1>10. AboveRegisters' /\ RegistersRead'
  BY <1>3 DEF AboveRegisters, RegistersRead, ToRegister
<1>11. OwnersLive'
  BY <1>1, <1>2, <1>3, <1>4, OwnersKept
<1>12. OneChange'
  BY <1>1, <1>3, <1>5 DEF OneChange, WatchesInputs
<1> QED
  BY <1>6, <1>7, <1>8, <1>9, <1>10, <1>11, <1>12

(* A batch ends: the outermost one flushes what is pending.                *)
LEMMA EndKeeps ==
  ASSUME IInv, BatchEnd
  PROVE  IInv'
<1> USE DEF IInv
<1>1. /\ UNCHANGED <<wiring, obs, dirty, dead, pending, value, alive, seen, runs>>
      /\ depth' = depth - 1 /\ stack # <<>> /\ stack[1].type = "batch" /\ AppRuns
  BY DEF BatchEnd, Calling, Top, AppRuns
<1>2. /\ Len(stack) = depth /\ \A k \in 1 .. Len(stack) : stack[k].type = "batch"
      /\ ~ At("read")
      /\ \A o : ~ NotifyComes(o) /\ ~ FlushCovers(o) /\ ~ RunComes(o)
  BY <1>1, AppIdle DEF At, AppRuns, Calling, Top, NotifyComes, FlushCovers, RunComes
<1>3. Len(stack) \in Nat /\ depth \in Nat /\ depth >= 1 /\ Len(stack) # 0
  BY <1>1, <1>2 DEF Typed
<1>4. /\ Grows /\ \A o : Listed(o)' <=> Listed(o)
      /\ \A o : IsLive(o)' => IsLive(o)
      /\ \A o : Fresh(o)' <=> Fresh(o)
  BY <1>1, Unmoved DEF Fresh
<1>5. Passes = {} /\ firing = 0
  <2>1. Passes = {}
    BY <1>2 DEF Passes
  <2> QED
    BY <2>1, FS_EmptySet DEF FramesInOrder
<1>6. CASE depth = 1
  <2>1. Goto(Flush) /\ firing' = 1
    BY <1>5, <1>6 DEF BatchEnd
  <2>2. Flush \in Frame /\ Flush.type = "flush" /\ Flush.at = 1 /\ Flush.n = 0
    BY Framed DEF Flush
  <2>3. /\ stack' \in Seq(Frame) /\ Rest(1, 1) /\ stack'[1] = Flush
        /\ Len(stack') = 1 /\ 1 .. Len(stack') = {1}
    <3>1. stack' \in Seq(Frame) /\ Rest(1, 1) /\ stack'[1] = Flush
      BY <1>1, <2>1, <2>2, GotoRest DEF Typed
    <3>2. Len(stack') = 1
      BY <1>2, <1>6, <3>1 DEF Rest
    <3> QED
      BY <3>1, <3>2
  <2>4. Typed'
    BY <1>1, <1>3, <1>6, <2>1, <2>3 DEF Typed
  <2>5. FramesInOrder'
    <3>1. Passes' = {1}
      BY <2>2, <2>3 DEF Passes
    <3>2. Cardinality(Passes') = 1
      BY <3>1, FS_Singleton
    <3>3. Len(obs') \in Nat /\ depth' = 0
      BY <1>1, <1>6 DEF Typed
    <3> QED
      BY <2>1, <2>2, <2>3, <3>2, <3>3 DEF FramesInOrder, IsPass
  <2>6. DirtyComes'
    BY <1>1, <1>2, <1>4, <2>2, <2>3 DEF DirtyComes
  <2>7. StaleComes'
    BY <1>1, <1>2, <1>4 DEF StaleComes
  <2>8. AboveRegisters' /\ RegistersRead'
    BY <2>2, <2>3 DEF AboveRegisters, RegistersRead, ToRegister
  <2>9. OwnersLive'
    BY <1>1, <1>2, <1>4, <2>2, <2>3, OwnersKept
  <2>10. OneChange'
    BY <1>1, <1>3, <2>2, <2>3 DEF OneChange, WatchesInputs
  <2> QED
    BY <2>4, <2>5, <2>6, <2>7, <2>8, <2>9, <2>10
<1>7. CASE depth # 1
  <2>1. Return /\ firing' = 0
    BY <1>5, <1>7 DEF BatchEnd
  <2>2. stack' \in Seq(Frame) /\ Rest(1, 0)
    BY <1>1, <2>1, ReturnRest DEF Typed
  <2>3. /\ Len(stack') = depth' /\ depth' \in Nat /\ depth' > 0
        /\ \A k \in 1 .. Len(stack') : stack'[k].type = "batch"
    <3>1. Len(stack') = depth' /\ depth' \in Nat /\ depth' > 0
      BY <1>1, <1>2, <1>3, <1>7, <2>2 DEF Rest
    <3> SUFFICES ASSUME NEW k \in 1 .. Len(stack') PROVE stack'[k].type = "batch"
      BY <3>1
    <3>2. k > 0
      OBVIOUS
    <3>3. k - 0 + 1 \in 1 .. Len(stack) /\ stack'[k] = stack[k - 0 + 1]
      BY <2>2, <3>2, RestBack DEF Typed
    <3> QED
      BY <1>2, <3>3
  <2>4. Typed'
    BY <1>1, <2>1, <2>2, <2>3 DEF Typed
  <2>5. FramesInOrder'
    <3>1. Passes' = {}
      BY <2>3 DEF Passes
    <3>2. firing' = Cardinality(Passes')
      BY <2>1, <3>1, FS_EmptySet
    <3>3. depth' <= Len(stack') /\ \A k \in 1 .. Len(stack') : k > Len(stack') - depth'
      <4>1. Len(stack') = depth' /\ Len(stack') \in Nat
        BY <2>3
      <4>2. Len(stack') - Len(stack') = 0 /\ Len(stack') <= Len(stack')
            /\ \A k \in 1 .. Len(stack') : k > 0
        BY <4>1
      <4> QED
        BY <4>1, <4>2
    <3>4. \A k \in 1 .. Len(stack') : ~ IsPass(stack'[k])
      BY <2>3 DEF IsPass
    <3> QED
      BY <2>3, <3>2, <3>3, <3>4 DEF FramesInOrder
  <2>6. DirtyComes'
    BY <1>1, <1>2, <1>4, <2>3 DEF DirtyComes
  <2>7. StaleComes'
    BY <1>1, <1>2, <1>4 DEF StaleComes
  <2>8. AboveRegisters' /\ RegistersRead'
    BY <2>3 DEF AboveRegisters, RegistersRead, ToRegister
  <2>9. OwnersLive'
    BY <1>1, <1>2, <1>4, <2>2, OwnersKept
  <2>10. OneChange'
    BY <1>1, <1>3, <2>3 DEF OneChange, WatchesInputs
  <2> QED
    BY <2>4, <2>5, <2>6, <2>7, <2>8, <2>9, <2>10
<1> QED
  BY <1>6, <1>7

(* The application registers an observer, which runs at once.              *)
LEMMA RegistrationKeeps ==
  ASSUME IInv, NEW o \in Observers, AppRegister(o)
  PROVE  IInv'
<1> USE DEF IInv
<1>1. /\ UNCHANGED <<wiring, dirty, dead, depth, pending, firing, value, alive, seen, runs>>
      /\ ~ Listed(o) /\ o \notin dead /\ OwnerLives(o) /\ AppRuns
  BY Unmoved DEF AppRegister, Registering, NeverRegistered
<1>2. /\ Len(stack) = depth /\ \A k \in 1 .. Len(stack) : stack[k].type = "batch"
      /\ ~ At("read")
      /\ \A p : ~ NotifyComes(p) /\ ~ FlushCovers(p) /\ ~ RunComes(p)
      /\ ToRegister = {}
  BY <1>1, AppIdle DEF At, AppRuns, Calling, Top, NotifyComes, FlushCovers, RunComes, ToRegister
<1>3. /\ Seed(o) \in Frame /\ Seed(o).type = "run" /\ Seed(o).pc = "read" /\ Seed(o).o = o
      /\ Register(o) \in Frame /\ Register(o).type = "register" /\ Register(o).o = o
  BY Framed DEF Seed, Register
<1>4. /\ \A p : IsLive(p)' => IsLive(p)
      /\ \A p : Fresh(p)' <=> Fresh(p)
      /\ Len(stack) \in Nat /\ Len(obs) \in Nat /\ firing \in Nat
  BY <1>1, Unmoved DEF Fresh, Typed
<1>5. CASE wiring[o].owner = None
  <2>1. stack' = <<Seed(o), Register(o)>> \o stack /\ obs' = obs
    BY <1>5 DEF AppRegister, Registering
  <2>2. /\ stack' \in Seq(Frame) /\ Rest(0, 2) /\ stack'[1] = Seed(o) /\ stack'[2] = Register(o)
        /\ Grows /\ \A p : Listed(p)' <=> Listed(p)
    BY <1>3, <2>1, SeedRest, Unmoved DEF Typed
  <2>3. FramesInOrder' /\ firing' \in Nat
    <3>1. One(0 = 1 /\ IsPass(stack[1])) = 0 /\ One(2 >= 1 /\ IsPass(stack'[1])) = 0
          /\ One(2 = 2 /\ IsPass(stack'[2])) = 0
      BY <1>3, <2>2 DEF One, IsPass
    <3>2. firing' = firing - One(0 = 1 /\ IsPass(stack[1])) + One(2 >= 1 /\ IsPass(stack'[1]))
                      + One(2 = 2 /\ IsPass(stack'[2]))
      BY <1>1, <1>4, <3>1
    <3>3. \A k \in 1 .. 2 : k = 1 \/ k = 2
      OBVIOUS
    <3>4. Len(stack) = 0 + depth /\ obs' \in Seq(Observers)
      BY <1>2, <1>4, <2>1 DEF Typed
    <3> QED
      BY <1>1, <1>2, <1>3, <2>1, <2>2, <3>2, <3>3, <3>4, OrderKept DEF IsPass
  <2>4. Typed'
    BY <1>1, <2>1, <2>2, <2>3 DEF Typed
  <2>5. stack' # <<>> /\ Top' = Seed(o)
    BY <1>2, <2>2, TopAfter
  <2>6. RunComes(o)'
    BY <1>3, <2>5 DEF RunComes, At, Calling
  <2>7. DirtyComes'
    <3>1. pending => depth > 0
      BY <1>2, <1>4 DEF DirtyComes, FramesInOrder, IsPass
    <3> QED
      BY <1>1, <1>2, <1>4, <2>2, <3>1 DEF DirtyComes
  <2>8. StaleComes'
    BY <1>1, <1>2, <1>4, <2>2 DEF StaleComes
  <2>9. AboveRegisters' /\ \A p \in ToRegister' : p = o
    <3>1. WritesLater(o, o)
      <4>1. /\ RankOf(wiring) \in [Cells -> Int]
            /\ wiring[o].out \in Derived \cup {None}
        BY Wired DEF Typed
      <4> QED
        BY <4>1 DEF WritesLater, Later, Cells
    <3>2. AllowedAbove(stack'[2].o, stack'[1])
      BY <1>3, <2>2, <3>1 DEF AllowedAbove
    <3>3. \A k \in 1 .. 2 : stack'[k].type = "register" => k = 2
      BY <1>3, <2>2
    <3>4. /\ AboveRegisters'
          /\ \A p \in ToRegister' :
               p \in ToRegister \/ (2 = 2 /\ stack'[2].type = "register" /\ p = stack'[2].o)
      BY <1>1, <1>2, <2>2, <3>2, <3>3, AboveKept
    <3> QED
      BY <1>2, <1>3, <2>2, <3>4
  <2>10. RegistersRead'
    <3>1. depth = 0 => \A d \in dirty : ~ (Listed(d) /\ IsLive(d))
      BY <1>2, <1>4 DEF DirtyComes
    <3> QED
      BY <1>1, <1>4, <2>2, <2>6, <2>9, <3>1 DEF RegistersRead
  <2>11. OwnersLive'
    BY <1>1, <1>2, <1>3, <2>2, OwnersKept
  <2>12. OneChange'
    <3>1. \A k \in 1 .. 2 : stack'[k].type # "notify"
      BY <1>3, <2>2
    <3> QED
      BY <1>1, <2>2, <3>1, NoInputPass DEF OneChange, WatchesInputs
  <2> QED
    BY <2>3, <2>4, <2>7, <2>8, <2>9, <2>10, <2>11, <2>12
<1>6. CASE wiring[o].owner # None
  <2>1. Push(Seed(o)) /\ obs' = Append(obs, o)
    BY <1>6 DEF AppRegister, Registering, Push
  <2>2. /\ stack' \in Seq(Frame) /\ Rest(0, 1) /\ stack'[1] = Seed(o)
    BY <1>3, <2>1, PushRest DEF Typed
  <2>3. /\ obs' \in Seq(Observers) /\ Grows /\ Len(obs') = Len(obs) + 1
        /\ \A p : Listed(p)' <=> Listed(p) \/ p = o
    BY <2>1, Appended DEF Typed
  <2>4. FramesInOrder' /\ firing' \in Nat
    <3>1. One(0 = 1 /\ IsPass(stack[1])) = 0 /\ One(1 >= 1 /\ IsPass(stack'[1])) = 0
          /\ One(1 = 2 /\ IsPass(stack'[2])) = 0
      BY <1>3, <2>2 DEF One, IsPass
    <3>2. firing' = firing - One(0 = 1 /\ IsPass(stack[1])) + One(1 >= 1 /\ IsPass(stack'[1]))
                      + One(1 = 2 /\ IsPass(stack'[2]))
      BY <1>1, <1>4, <3>1
    <3>3. Len(obs) <= Len(obs')
      BY <1>4, <2>3
    <3> QED
      BY <1>1, <1>2, <1>3, <2>2, <2>3, <3>2, <3>3, OrderKept DEF IsPass
  <2>5. Typed'
    BY <1>1, <2>2, <2>3, <2>4 DEF Typed
  <2>6. stack' # <<>> /\ Top' = Seed(o)
    BY <1>2, <2>2, TopAfter
  <2>7. RunComes(o)'
    BY <1>3, <2>6 DEF RunComes, At, Calling
  <2>8. DirtyComes'
    <3>1. pending => depth > 0
      BY <1>2, <1>4 DEF DirtyComes, FramesInOrder, IsPass
    <3>2. o \notin dirty
      BY <1>1 DEF DirtyComes
    <3> QED
      BY <1>1, <1>2, <1>4, <2>3, <3>1, <3>2 DEF DirtyComes
  <2>9. StaleComes'
    BY <1>1, <1>2, <1>4, <2>3, <2>7 DEF StaleComes
  <2>10. AboveRegisters' /\ ToRegister' = {}
    <3>1. \A k \in 1 .. 1 : stack'[k].type # "register"
      BY <1>3, <2>2
    <3>2. /\ AboveRegisters'
          /\ \A p \in ToRegister' :
               p \in ToRegister \/ (1 = 2 /\ stack'[2].type = "register" /\ p = stack'[2].o)
      BY <1>1, <1>2, <2>2, <3>1, AboveKept
    <3> QED
      BY <1>2, <3>2
  <2>11. RegistersRead'
    BY <2>10 DEF RegistersRead
  <2>12. OwnersLive'
    BY <1>1, <1>2, <1>3, <2>2, <2>3, OwnersKept
  <2>13. OneChange'
    <3>1. \A k \in 1 .. 1 : stack'[k].type # "notify"
      BY <1>3, <2>2
    <3> QED
      BY <1>1, <2>2, <3>1, NoInputPass DEF OneChange, WatchesInputs
  <2> QED
    BY <2>4, <2>5, <2>8, <2>9, <2>10, <2>11, <2>12, <2>13
<1> QED
  BY <1>5, <1>6

(* A widget goes, and with it the owner of its observers.                  *)
LEMMA DestroyKeeps ==
  ASSUME IInv, NEW w \in Widgets, Destroy(w)
  PROVE  IInv'
<1> USE DEF IInv
<1>1. /\ UNCHANGED <<wiring, obs, dirty, dead, depth, pending, firing, stack, value, seen, runs>>
      /\ alive' = alive \ {w} /\ AppRuns
  BY DEF Destroy, hubVars
<1>2. ~ At("read") /\ ~ At("read")' /\ \A p : ~ RunComes(p) /\ ~ RunComes(p)'
  BY <1>1 DEF At, AppRuns, Calling, Top, RunComes
<1>3. /\ \A p : Listed(p)' <=> Listed(p)
      /\ \A p : IsLive(p)' => IsLive(p)
      /\ \A p : Fresh(p)' <=> Fresh(p)
      /\ \A p : p \in ToSet(obs) <=> Listed(p)
  BY <1>1, Unmoved DEF Fresh
<1>4. Typed'
  BY <1>1 DEF Typed
<1>5. FramesInOrder'
  BY <1>1 DEF FramesInOrder, Passes
<1>6. /\ \A p : NotifyComes(p)' <=> NotifyComes(p)
      /\ \A p : FlushCovers(p)' <=> FlushCovers(p)
  BY <1>1 DEF NotifyComes, FlushCovers, Covers, Watches
<1>7. DirtyComes'
  BY <1>1, <1>3, <1>6 DEF DirtyComes
<1>8. StaleComes'
  BY <1>1, <1>2, <1>3, <1>6 DEF StaleComes
<1>9. ToRegister' = ToRegister
  BY <1>1 DEF ToRegister
<1>10. \A o, p : WritesLater(o, p)' <=> WritesLater(o, p)
  BY <1>1 DEF WritesLater, Later
<1>11. AboveRegisters'
  BY <1>1, <1>10 DEF AboveRegisters, AllowedAbove, Later
<1>12. RegistersRead'
  BY <1>1, <1>2, <1>3, <1>9, <1>10 DEF RegistersRead
<1>13. OwnersLive'
  <2>1. PICK o \in ToSet(obs) : wiring[o].owner = w
    BY DEF Destroy
  <2>2. o \in Observers /\ Listed(o)
    BY <1>3, <2>1, Unmoved
  <2> SUFFICES ASSUME NEW q \in Observers, NEW p \in wiring[q].rows
               PROVE  Listed(p) \/ p \in dead \/ OwnerLives(p)'
    BY <1>1, <1>2, <1>3 DEF OwnersLive, OrphansNeverRun
  <2>3. p \in Observers /\ \A r \in Observers \ {p} : wiring[r].owner # wiring[p].owner
    BY Wired DEF Typed
  <2>4. CASE p = o
    BY <2>2, <2>4
  <2>5. CASE p # o
    <3>1. wiring[p].owner # w
      BY <2>1, <2>2, <2>3, <2>5
    <3>2. Listed(p) \/ p \in dead \/ OwnerLives(p)
      BY DEF OwnersLive
    <3> QED
      BY <1>1, <3>1, <3>2 DEF OwnerLives
  <2> QED
    BY <2>4, <2>5
<1>14. OneChange'
  BY <1>1 DEF OneChange, WatchesInputs, InBatch
<1> QED
  BY <1>4, <1>5, <1>7, <1>8, <1>11, <1>12, <1>13, <1>14

-----------------------------------------------------------------------------
(* The hub's steps keep it.                                                *)
LEMMA RegisterKeeps ==
  ASSUME IInv, RegisterStep
  PROVE  IInv'
<1> USE DEF IInv
<1> DEFINE o == stack[1].o
<1>1. /\ UNCHANGED <<wiring, dirty, dead, depth, pending, firing, value, alive, seen, runs>>
      /\ stack # <<>> /\ stack[1].type = "register" /\ obs' = Append(obs, o) /\ Return
  BY DEF RegisterStep, Calling, Top
<1>2. o \in Observers /\ 1 \in 1 .. Len(stack) /\ stack[1] \in Frame
  <2>1. 1 \in 1 .. Len(stack) /\ stack[1] \in Frame
    BY <1>1 DEF Typed
  <2> QED
    BY <1>1, <2>1, Fields
<1>3. ~ At("read") /\ \A p : ~ RunComes(p)
  BY <1>1 DEF At, Calling, Top, RunComes
<1>4. o \in ToRegister /\ ~ Listed(o) /\ o \notin dead /\ Fresh(o)
  <2>1. o \in ToRegister
    BY <1>1, <1>2 DEF ToRegister
  <2> QED
    BY <1>3, <2>1 DEF RegistersRead
<1>5. /\ \A p : IsLive(p)' => IsLive(p)
      /\ \A p : Fresh(p)' <=> Fresh(p)
      /\ Len(stack) \in Nat /\ Len(obs) \in Nat /\ firing \in Nat
  BY <1>1, Unmoved DEF Fresh, Typed
<1> HIDE DEF o
<1>6. stack' \in Seq(Frame) /\ Rest(1, 0)
  BY <1>1, ReturnRest DEF Typed
<1>7. /\ obs' \in Seq(Observers) /\ Grows /\ Len(obs') = Len(obs) + 1
      /\ \A p : Listed(p)' <=> Listed(p) \/ p = o
  BY <1>1, <1>2, Appended DEF Typed
<1>8. FramesInOrder' /\ firing' \in Nat
  <2>1. One(1 = 1 /\ IsPass(stack[1])) = 0 /\ One(0 >= 1 /\ IsPass(stack'[1])) = 0
        /\ One(0 = 2 /\ IsPass(stack'[2])) = 0
    BY <1>1 DEF One, IsPass
  <2>2. firing' = firing - One(1 = 1 /\ IsPass(stack[1])) + One(0 >= 1 /\ IsPass(stack'[1]))
                    + One(0 = 2 /\ IsPass(stack'[2]))
    BY <1>1, <1>5, <2>1
  <2>3. Len(obs) <= Len(obs')
    BY <1>5, <1>7
  <2> QED
    BY <1>1, <1>6, <1>7, <2>2, <2>3, OrderKept
<1>9. Typed'
  BY <1>1, <1>6, <1>7, <1>8 DEF Typed
<1>10. /\ \A p : NotifyComes(p) => NotifyComes(p)'
       /\ \A p : FlushCovers(p) => FlushCovers(p)'
  BY <1>1, <1>6, <1>7, ComesKept, ComesFrom
<1>11. DirtyComes'
  <2>1. o \notin dirty
    BY <1>4 DEF DirtyComes
  <2>2. (\E k \in 1 .. Len(stack) : stack[k].type = "flush")
          => \E k \in 1 .. Len(stack') : stack'[k].type = "flush"
    BY <1>1, <1>6, FlushStays DEF Typed
  <2> QED
    BY <1>1, <1>5, <1>7, <1>10, <2>1, <2>2 DEF DirtyComes
<1>12. StaleComes'
  BY <1>1, <1>3, <1>4, <1>5, <1>7, <1>10 DEF StaleComes
<1>13. AboveRegisters' /\ ToRegister' = {}
  <2>1. /\ AboveRegisters'
        /\ \A p \in ToRegister' :
             p \in ToRegister \/ (0 = 2 /\ stack'[2].type = "register" /\ p = stack'[2].o)
    BY <1>1, <1>6, AboveKept
  <2>2. \A k \in 1 .. Len(stack') : stack'[k].type # "register"
    <3> SUFFICES ASSUME NEW k \in 1 .. Len(stack') PROVE stack'[k].type # "register"
      OBVIOUS
    <3>1. k - 0 + 1 \in 1 .. Len(stack) /\ k - 0 + 1 > 1 /\ stack'[k] = stack[k - 0 + 1]
      BY <1>6, RestBack DEF Typed
    <3>2. Len(stack) = 1 + depth
      BY <1>1, <1>2 DEF FramesInOrder
    <3>3. depth \in Nat /\ k \in Int /\ k - 0 + 1 > 1 /\ Len(stack) = 1 + depth
      BY <3>1, <3>2 DEF Typed
    <3>4. Len(stack) # k - 0 + 1 + depth
      BY ONLY <3>3
    <3> QED
      BY <3>1, <3>4 DEF FramesInOrder
  <2> QED
    BY <2>1, <2>2 DEF ToRegister
<1>14. RegistersRead'
  BY <1>13 DEF RegistersRead
<1>15. OwnersLive'
  BY <1>1, <1>6, <1>7, OwnersKept
<1>16. OneChange'
  BY <1>1, <1>6, NoInputPass DEF OneChange, WatchesInputs
<1> QED
  BY <1>8, <1>9, <1>11, <1>12, <1>13, <1>14, <1>15, <1>16

(* The upper frame is allowed above every registration that waits.         *)
LEMMA TopAllowed ==
  ASSUME Typed, AboveRegisters, stack # <<>>, stack[1].type # "register"
  PROVE  \A r \in ToRegister : r \in Observers /\ AllowedAbove(r, stack[1])
<1> SUFFICES ASSUME NEW r \in ToRegister PROVE r \in Observers /\ AllowedAbove(r, stack[1])
  OBVIOUS
<1>1. PICK k \in 1 .. Len(stack) : stack[k].type = "register" /\ r = stack[k].o
  BY DEF ToRegister
<1>2. Len(stack) \in Nat /\ stack[k] \in Frame /\ 1 \in 1 .. Len(stack) /\ k # 1
  BY <1>1 DEF Typed
<1>3. 1 < k
  BY <1>2
<1> QED
  BY <1>1, <1>2, <1>3, Fields DEF AboveRegisters

(* What the upper frame's pass looks at next.                              *)
LEMMA PassFacts ==
  ASSUME Typed, FramesInOrder, stack # <<>>, IsPass(stack[1])
  PROVE  /\ stack[1] \in Frame /\ 1 \in 1 .. Len(stack) /\ depth = 0
         /\ stack[1].at \in Nat /\ stack[1].n \in Nat /\ stack[1].n <= Len(obs)
         /\ stack[1].at \in 1 .. stack[1].n + 1
         /\ Len(stack) \in Nat /\ Len(obs) \in Nat /\ firing \in Nat
         /\ ~ At("read") /\ \A p : ~ RunComes(p)
         /\ stack[1].type \notin {"run", "register", "batch"}
         /\ stack[1].at > stack[1].n => \A p : ~ Covers(stack[1], p)
         /\ stack[1].at <= stack[1].n =>
              /\ obs[stack[1].at] \in Observers /\ Listed(obs[stack[1].at])
              /\ NextTurn(stack[1]) \in Frame
              /\ NextTurn(stack[1]).at \in 1 .. NextTurn(stack[1]).n + 1
              /\ NextTurn(stack[1]).n = stack[1].n
              /\ \A p : Covers(stack[1], p) =>
                     p = obs[stack[1].at] \/ Covers(NextTurn(stack[1]), p)
<1> DEFINE f == stack[1]
<1>1. f \in Frame /\ 1 \in 1 .. Len(stack) /\ Len(stack) \in Nat /\ Len(obs) \in Nat
      /\ firing \in Nat
  BY DEF Typed
<1>2. /\ f.type \in {"notify", "flush"}
      /\ f.at \in Nat /\ f.n \in Nat /\ NextTurn(f) \in Frame
      /\ NextTurn(f).at = f.at + 1 /\ NextTurn(f).n = f.n
  BY <1>1, Fields DEF IsPass
<1>3. depth = 0 /\ f.at \in 1 .. f.n + 1 /\ f.n <= Len(obs)
  BY <1>1 DEF FramesInOrder
<1>4. ~ At("read") /\ \A p : ~ RunComes(p)
  BY <1>2 DEF At, Calling, Top, RunComes
<1> HIDE DEF f
<1>5. f.at > f.n => \A p : ~ Covers(f, p)
  BY <1>2 DEF Covers
<1>6. ASSUME f.at <= f.n
      PROVE  /\ obs[f.at] \in Observers /\ Listed(obs[f.at])
             /\ NextTurn(f).at \in 1 .. NextTurn(f).n + 1
             /\ \A p : Covers(f, p) => p = obs[f.at] \/ Covers(NextTurn(f), p)
  <2>1. f.at \in 1 .. Len(obs)
    BY <1>1, <1>2, <1>3, <1>6
  <2>2. obs[f.at] \in Observers /\ Listed(obs[f.at])
    BY <2>1 DEF Typed, Listed
  <2>3. NextTurn(f).at \in 1 .. NextTurn(f).n + 1
    BY <1>2, <1>3, <1>6
  <2>4. \A i \in f.at .. f.n : i = f.at \/ i \in f.at + 1 .. f.n
    BY <1>2
  <2>5. \A p : Covers(f, p) => p = obs[f.at] \/ Covers(NextTurn(f), p)
    BY <1>2, <2>4 DEF Covers
  <2> QED
    BY <2>2, <2>3, <2>5
<1> QED
  BY <1>1, <1>2, <1>3, <1>4, <1>5, <1>6 DEF f

(* A notify pass comes to its next observer, and runs it or marks it dead. *)
LEMMA NotifyTurnKeeps ==
  ASSUME IInv, NotifyTurn
  PROVE  IInv'
<1> USE DEF IInv
<1>0. PICK f, o, g : f = stack[1] /\ o = obs[f.at] /\ g = NextTurn(f)
  OBVIOUS
<1>1. /\ UNCHANGED <<wiring, obs, dirty, depth, pending, firing, value, alive, seen>>
      /\ stack # <<>> /\ f.type = "notify" /\ f.at <= f.n /\ IsPass(f)
  BY <1>0 DEF NotifyTurn, Calling, Top, IsPass
<1>2. /\ f \in Frame /\ 1 \in 1 .. Len(stack) /\ depth = 0 /\ f.n <= Len(obs)
      /\ Len(stack) \in Nat /\ Len(obs) \in Nat /\ firing \in Nat
      /\ ~ At("read") /\ \A p : ~ RunComes(p)
      /\ o \in Observers /\ Listed(o)
      /\ g \in Frame /\ g.at \in 1 .. g.n + 1 /\ g.n = f.n
      /\ \A p : Covers(f, p) => p = o \/ Covers(g, p)
  BY <1>0, <1>1, PassFacts
<1>3. f.cell \in Cells /\ g.type = "notify" /\ g.cell = f.cell
  BY <1>0, <1>1, <1>2, Fields
<1>4. CASE ~ Watches(o, f.cell) \/ ~ IsLive(o)
  <2>1. /\ Goto(g) /\ runs' = runs /\ dead \subseteq dead' /\ dead' \subseteq dead \cup {o}
        /\ Watches(o, f.cell) => ~ IsLive(o)'
    <3>1. CASE ~ Watches(o, f.cell)
      BY <1>0, <3>1 DEF NotifyTurn, Top
    <3>2. CASE Watches(o, f.cell) /\ ~ IsLive(o)
      <4>1. Goto(g) /\ runs' = runs /\ MarkIfOrphan(o)
        BY <1>0, <3>2 DEF NotifyTurn, Top
      <4>2. OwnerLives(o)' <=> OwnerLives(o)
        BY <1>1 DEF OwnerLives
      <4> QED
        BY <3>2, <4>1, <4>2 DEF MarkIfOrphan, IsLive
    <3> QED
      BY <1>4, <3>1, <3>2
  <2>2. stack' \in Seq(Frame) /\ Rest(1, 1) /\ stack'[1] = g
    BY <1>1, <1>2, <2>1, GotoRest DEF Typed
  <2>3. /\ Grows /\ \A p : Listed(p)' <=> Listed(p)
        /\ \A p : IsLive(p)' => IsLive(p)
        /\ \A p : Fresh(p)' <=> Fresh(p)
    BY <1>1, <2>1, Unmoved DEF Fresh
  <2>4. FramesInOrder' /\ firing' \in Nat
    <3>1. One(1 = 1 /\ IsPass(stack[1])) = 1 /\ One(1 >= 1 /\ IsPass(stack'[1])) = 1
          /\ One(1 = 2 /\ IsPass(stack'[2])) = 0
      BY <1>0, <1>1, <1>3, <2>2 DEF One, IsPass
    <3>2. firing' = firing - One(1 = 1 /\ IsPass(stack[1])) + One(1 >= 1 /\ IsPass(stack'[1]))
                      + One(1 = 2 /\ IsPass(stack'[2]))
      BY <1>1, <1>2, <3>1
    <3>3. Len(obs) <= Len(obs') /\ obs' \in Seq(Observers)
      BY <1>1, <1>2 DEF Typed
    <3> QED
      BY <1>0, <1>1, <1>2, <1>3, <2>2, <3>2, <3>3, OrderKept
  <2>5. Typed'
    BY <1>1, <1>2, <2>1, <2>2, <2>4 DEF Typed
  <2>6. /\ \A p : NotifyComes(p) /\ (p = o => ~ Watches(o, f.cell)) => NotifyComes(p)'
        /\ \A p : FlushCovers(p) => FlushCovers(p)'
    <3>1. /\ \A p : NotifyFrom(1, p) => NotifyComes(p)'
          /\ \A p : FlushFrom(1, p) => FlushCovers(p)'
      BY <1>1, <2>2, <2>3, ComesKept
    <3>2. \A p : Watches(p, f.cell) /\ Covers(f, p) /\ (p = o => ~ Watches(o, f.cell))
                   => NotifyComes(p)'
      <4> TAKE p
      <4> HAVE Watches(p, f.cell) /\ Covers(f, p) /\ (p = o => ~ Watches(o, f.cell))
      <4>1. Covers(g, p)
        BY <1>2
      <4>2. 1 \in 1 .. Len(stack')
        BY <2>2, <1>2 DEF Rest
      <4>3. Covers(g, p)' /\ Watches(p, g.cell)'
        BY <1>1, <1>3, <4>1 DEF Covers, Watches
      <4> QED
        BY <1>3, <2>2, <4>2, <4>3 DEF NotifyComes
    <3> QED
      BY <1>0, <1>1, <3>1, <3>2, ComesFrom
  <2>7. DirtyComes'
    <3>1. (\E k \in 1 .. Len(stack) : stack[k].type = "flush")
            => \E k \in 1 .. Len(stack') : stack'[k].type = "flush"
      BY <1>0, <1>1, <2>2, FlushStays DEF Typed
    <3> QED
      BY <1>1, <2>1, <2>3, <2>6, <3>1 DEF DirtyComes
  <2>8. StaleComes'
    BY <1>1, <1>2, <2>1, <2>3, <2>6 DEF StaleComes
  <2>9. AboveRegisters' /\ ToRegister' \subseteq ToRegister
    <3>1. \A r \in ToRegister : AllowedAbove(r, g)
      BY <1>0, <1>1, <1>3, TopAllowed DEF AllowedAbove
    <3>2. /\ AboveRegisters'
          /\ \A p \in ToRegister' :
               p \in ToRegister \/ (1 = 2 /\ stack'[2].type = "register" /\ p = stack'[2].o)
      BY <1>1, <1>3, <2>2, <3>1, AboveKept
    <3> QED
      BY <3>2
  <2>10. RegistersRead'
    <3>1. \A r, d : WritesLater(r, d)' <=> WritesLater(r, d)
      BY <1>1 DEF WritesLater, Later
    <3> QED
      BY <1>1, <1>2, <2>1, <2>3, <2>9, <3>1 DEF RegistersRead
  <2>11. OwnersLive'
    BY <1>1, <1>2, <1>3, <2>1, <2>2, <2>3, OwnersKept
  <2>12. OneChange'
    <3>1. InBatch' => InBatch
      BY <1>0, <1>1, <1>3, <2>2, BatchStays DEF Typed
    <3>2. InBatch' => \A k \in 1 .. 1 : stack'[k].type = "notify" => stack'[k].cell \notin Inputs
      BY <1>0, <1>1, <1>2, <1>3, <2>2, <3>1 DEF OneChange
    <3> QED
      BY <1>1, <2>1, <2>2, <3>2, NoInputPass DEF OneChange, WatchesInputs
  <2> QED
    BY <2>4, <2>5, <2>7, <2>8, <2>9, <2>10, <2>11, <2>12
<1>5. CASE Watches(o, f.cell) /\ IsLive(o)
  <2>1. GotoCalling(g, Run(o)) /\ CountRun(o) /\ dead' = dead /\ OwnerLives(o)
    BY <1>0, <1>5 DEF NotifyTurn, Top, MarkIfOrphan, IsLive
  <2>2. /\ stack' \in Seq(Frame) /\ Rest(1, 2) /\ stack'[1] = Run(o) /\ stack'[2] = g
        /\ Run(o) \in Frame /\ Run(o).type = "run" /\ Run(o).pc = "read" /\ Run(o).o = o
    <3>1. Run(o) \in Frame /\ Run(o).type = "run" /\ Run(o).pc = "read" /\ Run(o).o = o
      BY <1>2, Framed DEF Run
    <3> QED
      BY <1>1, <1>2, <2>1, <3>1, CallRest DEF Typed
  <2>3. /\ Grows /\ \A p : Listed(p)' <=> Listed(p)
        /\ \A p : IsLive(p)' => IsLive(p)
        /\ \A p : Fresh(p)' <=> Fresh(p)
    BY <1>1, <2>1, Unmoved DEF Fresh
  <2>4. FramesInOrder' /\ firing' \in Nat
    <3>1. One(1 = 1 /\ IsPass(stack[1])) = 1 /\ One(2 >= 1 /\ IsPass(stack'[1])) = 0
          /\ One(2 = 2 /\ IsPass(stack'[2])) = 1
      BY <1>0, <1>1, <1>3, <2>2 DEF One, IsPass
    <3>2. firing' = firing - One(1 = 1 /\ IsPass(stack[1])) + One(2 >= 1 /\ IsPass(stack'[1]))
                      + One(2 = 2 /\ IsPass(stack'[2]))
      BY <1>1, <1>2, <3>1
    <3>3. Len(obs) <= Len(obs') /\ obs' \in Seq(Observers)
      BY <1>1, <1>2 DEF Typed
    <3>4. \A k \in 1 .. 2 : k = 1 \/ k = 2
      OBVIOUS
    <3>5. \A k \in 1 .. 2 :
            /\ stack'[k].type # "batch" /\ stack'[k].type # "register"
            /\ stack'[k].type = "run" => k = 1
            /\ IsPass(stack'[k]) => /\ depth = 0
                                    /\ stack'[k].at \in 1 .. stack'[k].n + 1
                                    /\ stack'[k].n <= Len(obs')
      BY <1>1, <1>2, <1>3, <2>2, <3>4 DEF IsPass
    <3> QED
      BY <1>0, <1>1, <1>2, <2>2, <3>2, <3>3, <3>5, OrderKept
  <2>5. Typed'
    BY <1>1, <1>2, <2>1, <2>2, <2>4 DEF Typed, CountRun
  <2>6. stack' # <<>> /\ Top' = Run(o)
    BY <1>2, <2>2, TopAfter
  <2>7. RunComes(o)'
    BY <2>2, <2>6 DEF RunComes, At, Calling
  <2>8. /\ \A p : NotifyComes(p) /\ p # o => NotifyComes(p)'
        /\ \A p : FlushCovers(p) => FlushCovers(p)'
    <3>1. /\ \A p : NotifyFrom(1, p) => NotifyComes(p)'
          /\ \A p : FlushFrom(1, p) => FlushCovers(p)'
      BY <1>1, <2>2, <2>3, ComesKept
    <3>2. \A p : Watches(p, f.cell) /\ Covers(f, p) /\ p # o => NotifyComes(p)'
      <4> TAKE p
      <4> HAVE Watches(p, f.cell) /\ Covers(f, p) /\ p # o
      <4>1. Covers(g, p)
        BY <1>2
      <4>2. 2 \in 1 .. Len(stack')
        BY <2>2, <1>2 DEF Rest
      <4>3. Covers(g, p)' /\ Watches(p, g.cell)'
        BY <1>1, <1>3, <4>1 DEF Covers, Watches
      <4> QED
        BY <1>3, <2>2, <4>2, <4>3 DEF NotifyComes
    <3> QED
      BY <1>0, <1>1, <3>1, <3>2, ComesFrom
  <2>9. DirtyComes'
    <3>1. (\E k \in 1 .. Len(stack) : stack[k].type = "flush")
            => \E k \in 1 .. Len(stack') : stack'[k].type = "flush"
      BY <1>0, <1>1, <2>2, FlushStays DEF Typed
    <3> QED
      BY <1>1, <2>1, <2>3, <2>8, <3>1 DEF DirtyComes
  <2>10. StaleComes'
    BY <1>1, <1>2, <2>1, <2>3, <2>7, <2>8 DEF StaleComes
  <2>11. AboveRegisters' /\ ToRegister' \subseteq ToRegister
    <3>1. \A r \in ToRegister : AllowedAbove(r, g) /\ AllowedAbove(r, Run(o))
      <4> SUFFICES ASSUME NEW r \in ToRegister
                   PROVE  AllowedAbove(r, g) /\ AllowedAbove(r, Run(o))
        OBVIOUS
      <4>1. r \in Observers /\ Later(r, f.cell)
        BY <1>0, <1>1, TopAllowed DEF AllowedAbove
      <4>2. WritesLater(r, o)
        BY <1>2, <1>3, <1>5, <4>1, WatchersLater DEF Typed
      <4> QED
        BY <1>3, <2>2, <4>1, <4>2 DEF AllowedAbove
    <3>2. \A k \in 1 .. 2 : stack'[k].type # "register"
                             /\ \A r \in ToRegister : AllowedAbove(r, stack'[k])
      BY <1>3, <2>2, <3>1
    <3>3. /\ AboveRegisters'
          /\ \A p \in ToRegister' :
               p \in ToRegister \/ (2 = 2 /\ stack'[2].type = "register" /\ p = stack'[2].o)
      BY <1>1, <2>2, <3>2, AboveKept
    <3> QED
      BY <1>3, <2>2, <3>3
  <2>12. RegistersRead'
    <3>1. \A r, d : WritesLater(r, d)' <=> WritesLater(r, d)
      BY <1>1 DEF WritesLater, Later
    <3> QED
      BY <1>1, <1>2, <2>1, <2>3, <2>11, <3>1 DEF RegistersRead
  <2>13. OwnersLive'
    BY <1>1, <1>2, <1>3, <2>1, <2>2, <2>3, OwnersKept
  <2>14. OneChange'
    <3>1. InBatch' => InBatch
      BY <1>0, <1>1, <1>3, <2>2, BatchStays DEF Typed
    <3>2. InBatch => f.cell \notin Inputs
      BY <1>0, <1>1, <1>2 DEF OneChange
    <3>3. InBatch' => \A k \in 1 .. 2 : stack'[k].type = "notify" => stack'[k].cell \notin Inputs
      BY <1>3, <2>2, <3>1, <3>2
    <3>4. InBatch => ~ WatchesInputs(o)
      <4>1. None \notin Cells
        BY NamesAssumption
      <4> QED
        BY <1>3, <1>5, <3>2, <4>1 DEF WatchesInputs, Watches
    <3>5. \A p \in Observers : WatchesInputs(p) => runs'[p] = runs[p]
      BY <2>1, <3>4 DEF CountRun, Typed
    <3> QED
      BY <1>1, <2>1, <2>2, <3>3, <3>5, NoInputPass DEF OneChange, WatchesInputs
  <2> QED
    BY <2>4, <2>5, <2>9, <2>10, <2>11, <2>12, <2>13, <2>14
<1> QED
  BY <1>4, <1>5

(* A flush comes to its next observer, and unmarks it before it runs.      *)
LEMMA FlushTurnKeeps ==
  ASSUME IInv, FlushTurn
  PROVE  IInv'
<1> USE DEF IInv
<1>0. PICK f, o, g : f = stack[1] /\ o = obs[f.at] /\ g = NextTurn(f)
  OBVIOUS
<1>1. /\ UNCHANGED <<wiring, obs, depth, pending, firing, value, alive, seen>>
      /\ stack # <<>> /\ f.type = "flush" /\ f.at <= f.n /\ IsPass(f)
  BY <1>0 DEF FlushTurn, Calling, Top, IsPass
<1>2. /\ f \in Frame /\ 1 \in 1 .. Len(stack) /\ depth = 0 /\ f.n <= Len(obs)
      /\ Len(stack) \in Nat /\ Len(obs) \in Nat /\ firing \in Nat
      /\ ~ At("read") /\ \A p : ~ RunComes(p)
      /\ o \in Observers /\ Listed(o)
      /\ g \in Frame /\ g.at \in 1 .. g.n + 1 /\ g.n = f.n
      /\ \A p : Covers(f, p) => p = o \/ Covers(g, p)
  BY <1>0, <1>1, PassFacts
<1>3. g.type = "flush"
  BY <1>0, <1>1, <1>2, Fields
<1>4. CASE ~ (o \in dirty /\ IsLive(o))
  <2>1. /\ Goto(g) /\ runs' = runs /\ dead \subseteq dead' /\ dead' \subseteq dead \cup {o}
        /\ dirty' = dirty \ {o} /\ (o \in dirty => ~ IsLive(o)')
    <3>1. CASE o \notin dirty
      BY <1>0, <3>1 DEF FlushTurn, Top
    <3>2. CASE o \in dirty /\ ~ IsLive(o)
      <4>1. Goto(g) /\ runs' = runs /\ MarkIfOrphan(o) /\ Unmark(o)
        BY <1>0, <3>2 DEF FlushTurn, Top
      <4>2. OwnerLives(o)' <=> OwnerLives(o)
        BY <1>1 DEF OwnerLives
      <4> QED
        BY <3>2, <4>1, <4>2 DEF MarkIfOrphan, IsLive, Unmark
    <3> QED
      BY <1>4, <3>1, <3>2
  <2>2. stack' \in Seq(Frame) /\ Rest(1, 1) /\ stack'[1] = g
    BY <1>1, <1>2, <2>1, GotoRest DEF Typed
  <2>3. /\ Grows /\ \A p : Listed(p)' <=> Listed(p)
        /\ \A p : IsLive(p)' => IsLive(p)
        /\ \A p : Fresh(p)' <=> Fresh(p)
    BY <1>1, <2>1, Unmoved DEF Fresh
  <2>4. FramesInOrder' /\ firing' \in Nat
    <3>1. One(1 = 1 /\ IsPass(stack[1])) = 1 /\ One(1 >= 1 /\ IsPass(stack'[1])) = 1
          /\ One(1 = 2 /\ IsPass(stack'[2])) = 0
      BY <1>0, <1>1, <1>3, <2>2 DEF One, IsPass
    <3>2. firing' = firing - One(1 = 1 /\ IsPass(stack[1])) + One(1 >= 1 /\ IsPass(stack'[1]))
                      + One(1 = 2 /\ IsPass(stack'[2]))
      BY <1>1, <1>2, <3>1
    <3>3. Len(obs) <= Len(obs') /\ obs' \in Seq(Observers)
      BY <1>1, <1>2 DEF Typed
    <3> QED
      BY <1>0, <1>1, <1>2, <1>3, <2>2, <3>2, <3>3, OrderKept
  <2>5. Typed'
    BY <1>1, <1>2, <2>1, <2>2, <2>4 DEF Typed
  <2>6. /\ \A p : NotifyComes(p) => NotifyComes(p)'
        /\ \A p : FlushCovers(p) /\ p # o => FlushCovers(p)'
        /\ 1 \in 1 .. Len(stack')
    <3>1. /\ \A p : NotifyFrom(1, p) => NotifyComes(p)'
          /\ \A p : FlushFrom(1, p) => FlushCovers(p)'
      BY <1>1, <2>2, <2>3, ComesKept
    <3>2. 1 \in 1 .. Len(stack')
      BY <2>2, <1>2 DEF Rest
    <3>3. \A p : Covers(f, p) /\ p # o => FlushCovers(p)'
      <4> TAKE p
      <4> HAVE Covers(f, p) /\ p # o
      <4>1. Covers(g, p)
        BY <1>2
      <4>2. Covers(g, p)'
        BY <1>1, <1>3, <4>1 DEF Covers
      <4> QED
        BY <1>3, <2>2, <3>2, <4>2 DEF FlushCovers
    <3> QED
      BY <1>0, <1>1, <3>1, <3>2, <3>3, ComesFrom
  <2>7. DirtyComes'
    BY <1>1, <1>3, <2>1, <2>2, <2>3, <2>6 DEF DirtyComes
  <2>8. StaleComes'
    BY <1>1, <1>2, <2>1, <2>3, <2>6 DEF StaleComes
  <2>9. AboveRegisters' /\ ToRegister' \subseteq ToRegister
    <3>1. \A r \in ToRegister : AllowedAbove(r, g)
      BY <1>3 DEF AllowedAbove
    <3>2. /\ AboveRegisters'
          /\ \A p \in ToRegister' :
               p \in ToRegister \/ (1 = 2 /\ stack'[2].type = "register" /\ p = stack'[2].o)
      BY <1>1, <1>3, <2>2, <3>1, AboveKept
    <3> QED
      BY <3>2
  <2>10. RegistersRead'
    <3>1. \A r, d : WritesLater(r, d)' <=> WritesLater(r, d)
      BY <1>1 DEF WritesLater, Later
    <3> QED
      BY <1>1, <1>2, <2>1, <2>3, <2>9, <3>1 DEF RegistersRead
  <2>11. OwnersLive'
    BY <1>1, <1>2, <1>3, <2>1, <2>2, <2>3, OwnersKept
  <2>12. OneChange'
    <3>1. \A k \in 1 .. 1 : stack'[k].type # "notify"
      BY <1>3, <2>2
    <3> QED
      BY <1>1, <1>2, <2>1, <2>2, <3>1, NoInputPass DEF OneChange, WatchesInputs
  <2> QED
    BY <2>4, <2>5, <2>7, <2>8, <2>9, <2>10, <2>11, <2>12
<1>5. CASE o \in dirty /\ IsLive(o)
  <2>1. /\ GotoCalling(g, Run(o)) /\ CountRun(o) /\ dead' = dead /\ OwnerLives(o)
        /\ dirty' = dirty \ {o}
    BY <1>0, <1>5 DEF FlushTurn, Top, MarkIfOrphan, IsLive, Unmark
  <2>2. /\ stack' \in Seq(Frame) /\ Rest(1, 2) /\ stack'[1] = Run(o) /\ stack'[2] = g
        /\ Run(o) \in Frame /\ Run(o).type = "run" /\ Run(o).pc = "read" /\ Run(o).o = o
    <3>1. Run(o) \in Frame /\ Run(o).type = "run" /\ Run(o).pc = "read" /\ Run(o).o = o
      BY <1>2, Framed DEF Run
    <3> QED
      BY <1>1, <1>2, <2>1, <3>1, CallRest DEF Typed
  <2>3. /\ Grows /\ \A p : Listed(p)' <=> Listed(p)
        /\ \A p : IsLive(p)' => IsLive(p)
        /\ \A p : Fresh(p)' <=> Fresh(p)
    BY <1>1, <2>1, Unmoved DEF Fresh
  <2>4. FramesInOrder' /\ firing' \in Nat
    <3>1. One(1 = 1 /\ IsPass(stack[1])) = 1 /\ One(2 >= 1 /\ IsPass(stack'[1])) = 0
          /\ One(2 = 2 /\ IsPass(stack'[2])) = 1
      BY <1>0, <1>1, <1>3, <2>2 DEF One, IsPass
    <3>2. firing' = firing - One(1 = 1 /\ IsPass(stack[1])) + One(2 >= 1 /\ IsPass(stack'[1]))
                      + One(2 = 2 /\ IsPass(stack'[2]))
      BY <1>1, <1>2, <3>1
    <3>3. Len(obs) <= Len(obs') /\ obs' \in Seq(Observers)
      BY <1>1, <1>2 DEF Typed
    <3>4. \A k \in 1 .. 2 : k = 1 \/ k = 2
      OBVIOUS
    <3>5. \A k \in 1 .. 2 :
            /\ stack'[k].type # "batch" /\ stack'[k].type # "register"
            /\ stack'[k].type = "run" => k = 1
            /\ IsPass(stack'[k]) => /\ depth = 0
                                    /\ stack'[k].at \in 1 .. stack'[k].n + 1
                                    /\ stack'[k].n <= Len(obs')
      BY <1>1, <1>2, <1>3, <2>2, <3>4 DEF IsPass
    <3> QED
      BY <1>0, <1>1, <1>2, <2>2, <3>2, <3>3, <3>5, OrderKept
  <2>5. Typed'
    BY <1>1, <1>2, <2>1, <2>2, <2>4 DEF Typed, CountRun
  <2>6. stack' # <<>> /\ Top' = Run(o)
    BY <1>2, <2>2, TopAfter
  <2>7. RunComes(o)'
    BY <2>2, <2>6 DEF RunComes, At, Calling
  <2>8. /\ \A p : NotifyComes(p) => NotifyComes(p)'
        /\ \A p : FlushCovers(p) /\ p # o => FlushCovers(p)'
        /\ 2 \in 1 .. Len(stack')
    <3>1. /\ \A p : NotifyFrom(1, p) => NotifyComes(p)'
          /\ \A p : FlushFrom(1, p) => FlushCovers(p)'
      BY <1>1, <2>2, <2>3, ComesKept
    <3>2. 2 \in 1 .. Len(stack')
      BY <2>2, <1>2 DEF Rest
    <3>3. \A p : Covers(f, p) /\ p # o => FlushCovers(p)'
      <4> TAKE p
      <4> HAVE Covers(f, p) /\ p # o
      <4>1. Covers(g, p)
        BY <1>2
      <4>2. Covers(g, p)'
        BY <1>1, <1>3, <4>1 DEF Covers
      <4> QED
        BY <1>3, <2>2, <3>2, <4>2 DEF FlushCovers
    <3> QED
      BY <1>0, <1>1, <3>1, <3>2, <3>3, ComesFrom
  <2>9. DirtyComes'
    BY <1>1, <1>3, <2>1, <2>2, <2>3, <2>8 DEF DirtyComes
  <2>10. StaleComes'
    BY <1>1, <1>2, <2>1, <2>3, <2>7, <2>8 DEF StaleComes
  <2>11. AboveRegisters' /\ ToRegister' \subseteq ToRegister
    <3>1. \A r \in ToRegister : AllowedAbove(r, g) /\ AllowedAbove(r, Run(o))
      <4> SUFFICES ASSUME NEW r \in ToRegister
                   PROVE  AllowedAbove(r, g) /\ AllowedAbove(r, Run(o))
        OBVIOUS
      <4>1. WritesLater(r, o)
        BY <1>2, <1>5 DEF RegistersRead
      <4> QED
        BY <1>3, <2>2, <4>1 DEF AllowedAbove
    <3>2. \A k \in 1 .. 2 : stack'[k].type # "register"
                             /\ \A r \in ToRegister : AllowedAbove(r, stack'[k])
      BY <1>3, <2>2, <3>1
    <3>3. /\ AboveRegisters'
          /\ \A p \in ToRegister' :
               p \in ToRegister \/ (2 = 2 /\ stack'[2].type = "register" /\ p = stack'[2].o)
      BY <1>1, <2>2, <3>2, AboveKept
    <3> QED
      BY <1>3, <2>2, <3>3
  <2>12. RegistersRead'
    <3>1. \A r, d : WritesLater(r, d)' <=> WritesLater(r, d)
      BY <1>1 DEF WritesLater, Later
    <3> QED
      BY <1>1, <1>2, <2>1, <2>3, <2>11, <3>1 DEF RegistersRead
  <2>13. OwnersLive'
    BY <1>1, <1>2, <1>3, <2>1, <2>2, <2>3, OwnersKept
  <2>14. OneChange'
    <3>1. \A k \in 1 .. 2 : stack'[k].type # "notify"
      BY <1>3, <2>2
    <3>2. \A p \in Observers : p # o => runs'[p] = runs[p]
      BY <2>1 DEF CountRun, Typed
    <3>3. WatchesInputs(o) => runs'[o] \in {0, 1}
      BY <1>2, <1>5, <2>1 DEF CountRun, Typed, OneChange
    <3> QED
      BY <1>1, <1>2, <2>1, <2>2, <3>1, <3>2, <3>3, NoInputPass DEF OneChange, WatchesInputs
  <2> QED
    BY <2>4, <2>5, <2>9, <2>10, <2>11, <2>12, <2>13, <2>14
<1> QED
  BY <1>4, <1>5

(* The list without its dead holds all the others.                         *)
LEMMA Compacted ==
  ASSUME obs \in Seq(Observers), obs' = WithoutDead
  PROVE  obs' \in Seq(Observers) /\ \A p : Listed(p)' <=> Listed(p) /\ p \notin dead
<1> DEFINE K == {i \in DOMAIN obs : obs[i] \notin dead}
<1>1. obs' = Kept(obs, K) /\ K = {i \in 1 .. Len(obs) : obs[i] \notin dead}
  BY DEF WithoutDead
<1> HIDE DEF K
<1>2. /\ obs' \in Seq(Observers)
      /\ \E f : Picked(obs, K, Len(obs), obs', f)
  BY <1>1, KeptFacts
<1>3. PICK f : Picked(obs, K, Len(obs), obs', f)
  BY <1>2
<1>4. K \cap (1 .. Len(obs)) = K
  BY <1>1
<1>5. /\ \A j \in 1 .. Len(obs') : f[j] \in K /\ obs'[j] = obs[f[j]]
      /\ \A i \in K : \E j \in 1 .. Len(obs') : f[j] = i
  BY <1>3, <1>4 DEF Picked
<1>6. ASSUME NEW p, Listed(p)' PROVE Listed(p) /\ p \notin dead
  BY <1>1, <1>5, <1>6 DEF Listed
<1>7. ASSUME NEW p, Listed(p), p \notin dead PROVE Listed(p)'
  <2>1. PICK i \in 1 .. Len(obs) : obs[i] = p
    BY <1>7 DEF Listed
  <2>2. i \in K
    BY <1>1, <1>7, <2>1
  <2> QED
    BY <1>5, <2>1, <2>2 DEF Listed
<1> QED
  BY <1>2, <1>6, <1>7

(* A pass that has come to the end sweeps, if it is the only one.          *)
LEMMA PassOverKeeps ==
  ASSUME IInv, stack # <<>>, IsPass(stack[1]), stack[1].at > stack[1].n,
         stack[1].type = "flush" => ~ pending, PassOver,
         UNCHANGED <<wiring, dirty, dead, depth, pending, value, alive, seen, sets, runs>>
  PROVE  IInv'
<1> USE DEF IInv
<1>1. /\ stack[1] \in Frame /\ 1 \in 1 .. Len(stack) /\ depth = 0
      /\ Len(stack) \in Nat /\ Len(obs) \in Nat /\ firing \in Nat
      /\ ~ At("read") /\ \A p : ~ RunComes(p)
      /\ \A p : ~ Covers(stack[1], p)
      /\ stack[1].type \notin {"run", "register", "batch"}
  BY PassFacts
<1>2. stack' \in Seq(Frame) /\ Rest(1, 0)
  BY ReturnRest DEF Typed, PassOver
<1>3. firing' = firing - 1
  BY DEF PassOver
<1>4. /\ obs' \in Seq(Observers)
      /\ \A p : Listed(p)' => Listed(p)
      /\ \A p : Listed(p) /\ p \notin dead => Listed(p)'
      /\ firing' > 0 => obs' = obs
  <2>1. CASE firing' > 0
    <3>1. obs' = obs
      BY <2>1 DEF PassOver, Compact
    <3> QED
      BY <3>1, Unmoved DEF Typed
  <2>2. CASE ~ (firing' > 0)
    <3>1. obs' = WithoutDead
      BY <2>2 DEF PassOver, Compact
    <3> QED
      BY <2>2, <3>1, Compacted DEF Typed
  <2> QED
    BY <2>1, <2>2
<1>5. /\ \A p : IsLive(p)' => IsLive(p)
      /\ \A p : Fresh(p)' <=> Fresh(p)
  BY Unmoved DEF Fresh
<1>6. FramesInOrder' /\ firing' \in Nat
  <2>1. One(1 = 1 /\ IsPass(stack[1])) = 1 /\ One(0 >= 1 /\ IsPass(stack'[1])) = 0
        /\ One(0 = 2 /\ IsPass(stack'[2])) = 0
    BY DEF One
  <2>2. firing' = firing - One(1 = 1 /\ IsPass(stack[1])) + One(0 >= 1 /\ IsPass(stack'[1]))
                    + One(0 = 2 /\ IsPass(stack'[2]))
    BY <1>1, <1>3, <2>1
  <2>3. firing' > 0 => Len(obs) <= Len(obs')
    BY <1>1, <1>4
  <2> QED
    BY <1>1, <1>2, <1>4, <2>2, <2>3, OrderKept
<1>7. Typed'
  BY <1>2, <1>4, <1>6 DEF Typed
<1>8. /\ \A p : NotifyComes(p) => NotifyComes(p)'
      /\ pending => \E k \in 1 .. Len(stack') : stack'[k].type = "flush"
      /\ \A p \in dirty : Listed(p) /\ IsLive(p) => pending \/ FlushCovers(p)'
  <2>1. /\ \A p : NotifyComes(p) => NotifyFrom(1, p)
        /\ \A p : FlushCovers(p) => FlushFrom(1, p)
    BY <1>1, ComesFrom
  <2>2. CASE firing' > 0
    <3>1. obs' = obs
      BY <1>4, <2>2
    <3>2. /\ \A p : NotifyFrom(1, p) => NotifyComes(p)'
          /\ \A p : FlushFrom(1, p) => FlushCovers(p)'
      BY <1>2, <3>1, Unmoved, ComesKept
    <3>3. pending => \E k \in 1 .. Len(stack') : stack'[k].type = "flush"
      <4>1. pending => \E k \in 1 .. Len(stack) : stack[k].type = "flush"
        BY <1>1 DEF DirtyComes
      <4> QED
        BY <1>2, <4>1, FlushStays DEF Typed
    <3> QED
      BY <2>1, <3>2, <3>3 DEF DirtyComes
  <2>3. CASE ~ (firing' > 0)
    <3>1. \A k \in 1 .. Len(stack') : ~ IsPass(stack'[k])
      <4>1. firing' = 0 /\ firing' = Cardinality(Passes')
        BY <1>6, <2>3 DEF FramesInOrder
      <4>2. Passes' = {k \in 1 .. Len(stack') : IsPass(stack'[k])}
        BY <1>2 DEF Passes, IsPass
      <4> QED
        BY <1>2, <4>1, <4>2, NoPass
    <3>2. \A k \in 1 .. Len(stack) : k > 1 => ~ IsPass(stack[k])
      <4> SUFFICES ASSUME NEW k \in 1 .. Len(stack), k > 1 PROVE ~ IsPass(stack[k])
        OBVIOUS
      <4>1. k - 1 + 0 \in 1 .. Len(stack') /\ stack'[k - 1 + 0] = stack[k]
        BY <1>2 DEF Rest, Typed
      <4> QED
        BY <3>1, <4>1
    <3>3. \A p : ~ NotifyFrom(1, p) /\ ~ FlushFrom(1, p)
      BY <3>2 DEF NotifyFrom, FlushFrom, IsPass
    <3>4. ~ pending
      <4>1. \A k \in 1 .. Len(stack) : k = 1 \/ k > 1
        BY <1>1
      <4> QED
        BY <1>1, <3>2, <4>1 DEF DirtyComes, IsPass
    <3> QED
      BY <2>1, <3>3, <3>4 DEF DirtyComes
  <2> QED
    BY <2>2, <2>3
<1>9. DirtyComes'
  BY <1>4, <1>5, <1>8 DEF DirtyComes
<1>10. StaleComes'
  BY <1>1, <1>4, <1>5, <1>8 DEF StaleComes
<1>11. AboveRegisters' /\ ToRegister' \subseteq ToRegister
  <2>1. /\ AboveRegisters'
        /\ \A p \in ToRegister' :
             p \in ToRegister \/ (0 = 2 /\ stack'[2].type = "register" /\ p = stack'[2].o)
    BY <1>2, AboveKept
  <2> QED
    BY <2>1
<1>12. RegistersRead'
  <2>1. \A r, d : WritesLater(r, d)' <=> WritesLater(r, d)
    BY DEF WritesLater, Later
  <2> QED
    BY <1>1, <1>4, <1>5, <1>11, <2>1 DEF RegistersRead
<1>13. OwnersLive'
  BY <1>1, <1>2, <1>4, OwnersKept
<1>14. OneChange'
  BY <1>2, NoInputPass DEF OneChange, WatchesInputs
<1> QED
  BY <1>6, <1>7, <1>9, <1>10, <1>11, <1>12, <1>13, <1>14

(* The ends of both kinds of pass.                                         *)
LEMMA EndsKeep ==
  ASSUME IInv, NotifyEnd \/ FlushEnd
  PROVE  IInv'
<1>1. /\ stack # <<>> /\ IsPass(stack[1]) /\ stack[1].at > stack[1].n
      /\ stack[1].type = "flush" => ~ pending
      /\ PassOver
      /\ UNCHANGED <<wiring, dirty, dead, depth, pending, value, alive, seen, sets, runs>>
  BY DEF NotifyEnd, FlushEnd, Calling, Top, IsPass
<1> QED
  BY <1>1, PassOverKeeps

(* A flush starts over, for what was marked meanwhile.                     *)
LEMMA FlushRoundKeeps ==
  ASSUME IInv, FlushRound
  PROVE  IInv'
<1> USE DEF IInv
<1>0. PICK f, g : f = stack[1] /\ g = [Flush EXCEPT !.n = Len(obs)]
  OBVIOUS
<1>1. /\ UNCHANGED <<wiring, obs, dirty, dead, depth, firing, value, alive, seen, runs>>
      /\ stack # <<>> /\ f.type = "flush" /\ IsPass(f) /\ pending' = FALSE /\ Goto(g)
  BY <1>0 DEF FlushRound, Calling, Top, IsPass, TakePending
<1>2. /\ f \in Frame /\ 1 \in 1 .. Len(stack) /\ depth = 0
      /\ Len(stack) \in Nat /\ Len(obs) \in Nat /\ firing \in Nat
      /\ ~ At("read") /\ \A p : ~ RunComes(p)
  BY <1>0, <1>1, PassFacts
<1>3. g \in Frame /\ g.type = "flush" /\ g.at = 1 /\ g.n = Len(obs)
  BY <1>0, Framed DEF Flush
<1>4. stack' \in Seq(Frame) /\ Rest(1, 1) /\ stack'[1] = g /\ 1 \in 1 .. Len(stack')
  <2>1. stack' \in Seq(Frame) /\ Rest(1, 1) /\ stack'[1] = g
    BY <1>1, <1>3, GotoRest DEF Typed
  <2> QED
    BY <1>2, <2>1 DEF Rest
<1>5. /\ Grows /\ \A p : Listed(p)' <=> Listed(p)
      /\ \A p : IsLive(p)' => IsLive(p)
      /\ \A p : Fresh(p)' <=> Fresh(p)
  BY <1>1, Unmoved DEF Fresh
<1>6. FramesInOrder' /\ firing' \in Nat
  <2>1. One(1 = 1 /\ IsPass(stack[1])) = 1 /\ One(1 >= 1 /\ IsPass(stack'[1])) = 1
        /\ One(1 = 2 /\ IsPass(stack'[2])) = 0
    BY <1>0, <1>1, <1>3, <1>4 DEF One, IsPass
  <2>2. firing' = firing - One(1 = 1 /\ IsPass(stack[1])) + One(1 >= 1 /\ IsPass(stack'[1]))
                    + One(1 = 2 /\ IsPass(stack'[2]))
    BY <1>1, <1>2, <2>1
  <2>3. Len(obs) <= Len(obs') /\ obs' \in Seq(Observers)
    BY <1>1, <1>2 DEF Typed
  <2>4. \A k \in 1 .. 1 :
          /\ stack'[k].type \notin {"batch", "register", "run"}
          /\ depth = 0 /\ stack'[k].at \in 1 .. stack'[k].n + 1 /\ stack'[k].n <= Len(obs')
    <3>1. g.at \in 1 .. g.n + 1 /\ g.n <= Len(obs')
      BY <1>1, <1>2, <1>3
    <3> QED
      BY <1>2, <1>3, <1>4, <3>1
  <2> QED
    BY <1>0, <1>1, <1>2, <1>4, <2>2, <2>3, <2>4, OrderKept
<1>7. Typed'
  BY <1>1, <1>2, <1>4, <1>6 DEF Typed
<1>8. \A p : Listed(p) => FlushCovers(p)'
  <2>1. \A p : Listed(p) => Covers(g, p)'
    BY <1>1, <1>3 DEF Listed, Covers
  <2> QED
    BY <1>3, <1>4, <2>1 DEF FlushCovers
<1>9. DirtyComes'
  BY <1>1, <1>5, <1>8 DEF DirtyComes
<1>10. \A p : NotifyComes(p) => NotifyComes(p)'
  <2>1. \A p : NotifyFrom(1, p) => NotifyComes(p)'
    BY <1>1, <1>4, <1>5, ComesKept
  <2> QED
    BY <1>0, <1>1, <2>1, ComesFrom
<1>11. StaleComes'
  BY <1>1, <1>2, <1>5, <1>10 DEF StaleComes
<1>12. AboveRegisters' /\ ToRegister' \subseteq ToRegister
  <2>1. \A r \in ToRegister : AllowedAbove(r, g)
    BY <1>3 DEF AllowedAbove
  <2>2. /\ AboveRegisters'
        /\ \A p \in ToRegister' :
             p \in ToRegister \/ (1 = 2 /\ stack'[2].type = "register" /\ p = stack'[2].o)
    BY <1>1, <1>3, <1>4, <2>1, AboveKept
  <2> QED
    BY <2>2
<1>13. RegistersRead'
  <2>1. \A r, d : WritesLater(r, d)' <=> WritesLater(r, d)
    BY <1>1 DEF WritesLater, Later
  <2> QED
    BY <1>1, <1>2, <1>5, <1>12, <2>1 DEF RegistersRead
<1>14. OwnersLive'
  BY <1>1, <1>2, <1>3, <1>4, <1>5, OwnersKept
<1>15. OneChange'
  <2>1. \A k \in 1 .. 1 : stack'[k].type # "notify"
    BY <1>3, <1>4
  <2> QED
    BY <1>1, <1>4, <2>1, NoInputPass DEF OneChange, WatchesInputs
<1> QED
  BY <1>6, <1>7, <1>9, <1>11, <1>12, <1>13, <1>14, <1>15

-----------------------------------------------------------------------------
(* An observer's body keeps it.                                            *)
LEMMA BodyFacts ==
  ASSUME Typed, FramesInOrder, stack # <<>>, stack[1].type = "run"
  PROVE  /\ stack[1] \in Frame /\ 1 \in 1 .. Len(stack) /\ ~ IsPass(stack[1])
         /\ stack[1].o \in Observers
         /\ \A pc \in {"build", "write"} :
              /\ [stack[1] EXCEPT !.pc = pc] \in Frame
              /\ [stack[1] EXCEPT !.pc = pc].type = "run"
              /\ [stack[1] EXCEPT !.pc = pc].o = stack[1].o
              /\ [stack[1] EXCEPT !.pc = pc].pc = pc
         /\ Len(stack) \in Nat /\ Len(obs) \in Nat /\ firing \in Nat
<1>1. stack[1] \in Frame /\ 1 \in 1 .. Len(stack) /\ Len(stack) \in Nat /\ Len(obs) \in Nat
      /\ firing \in Nat
  BY DEF Typed
<1>2. PICK f \in Frame : f = stack[1]
  BY <1>1
<1>3. /\ f.o \in Observers /\ ~ IsPass(f)
      /\ \A pc \in {"build", "write"} :
           /\ [f EXCEPT !.pc = pc] \in Frame
           /\ [f EXCEPT !.pc = pc].type = "run" /\ [f EXCEPT !.pc = pc].o = f.o
           /\ [f EXCEPT !.pc = pc].pc = pc
  <2>1. f.type = "run"
    BY <1>2
  <2> QED
    BY <2>1, Fields, Zenon DEF IsPass
<1> QED
  BY <1>1, <1>2, <1>3

(* A body reads its cells: from here on the observer has seen them.        *)
LEMMA ReadKeeps ==
  ASSUME IInv, BodyRead
  PROVE  IInv'
<1> USE DEF IInv
<1>0. PICK f, o, g : f = stack[1] /\ o = f.o /\ g = [f EXCEPT !.pc = "build"]
  OBVIOUS
<1>1. /\ UNCHANGED <<wiring, obs, dirty, dead, depth, pending, firing, value, runs>>
      /\ stack # <<>> /\ f.type = "run" /\ f.pc = "read" /\ Goto(g)
      /\ seen' = [seen EXCEPT ![o] = Reads(o)]
      /\ alive' = alive \ {wiring[p].owner : p \in RowsBuilt(o)}
  <2>1. stack # <<>> /\ f.type = "run" /\ f.pc = "read" /\ Top = f /\ Top.o = o
    BY <1>0 DEF BodyRead, At, Calling, Top
  <2>2. Goto(g)
    BY <1>0, <2>1 DEF BodyRead
  <2> QED
    BY <2>1, <2>2 DEF BodyRead, hubVars
<1>2. /\ f \in Frame /\ 1 \in 1 .. Len(stack) /\ ~ IsPass(f) /\ o \in Observers
      /\ g \in Frame /\ g.type = "run" /\ g.o = o /\ g.pc = "build"
      /\ Len(stack) \in Nat /\ Len(obs) \in Nat /\ firing \in Nat
  BY <1>0, <1>1, BodyFacts
<1>3. stack' \in Seq(Frame) /\ Rest(1, 1) /\ stack'[1] = g
  BY <1>1, <1>2, GotoRest DEF Typed
<1>4. /\ Grows /\ \A p : Listed(p)' <=> Listed(p)
      /\ \A p : p \in ToSet(obs) <=> Listed(p)
      /\ \A p : IsLive(p)' => IsLive(p)
      /\ \A p : Reads(p)' = Reads(p)
  BY <1>1, Unmoved
<1>5. Fresh(o)' /\ \A p \in Observers : p # o => (Fresh(p)' <=> Fresh(p))
  BY <1>1, <1>2, <1>4 DEF Fresh, Typed
<1>6. \A p : RunComes(p) => p = o
  BY <1>0 DEF RunComes, Top
<1>7. FramesInOrder' /\ firing' \in Nat
  <2>1. One(1 = 1 /\ IsPass(stack[1])) = 0 /\ One(1 >= 1 /\ IsPass(stack'[1])) = 0
        /\ One(1 = 2 /\ IsPass(stack'[2])) = 0
    BY <1>0, <1>2, <1>3 DEF One, IsPass
  <2>2. firing' = firing - One(1 = 1 /\ IsPass(stack[1])) + One(1 >= 1 /\ IsPass(stack'[1]))
                    + One(1 = 2 /\ IsPass(stack'[2]))
    BY <1>1, <1>2, <2>1
  <2>3. Len(obs) <= Len(obs') /\ obs' \in Seq(Observers)
    BY <1>1, <1>2 DEF Typed
  <2>4. \A k \in 1 .. 1 :
          stack'[k].type = "run" /\ stack'[k].pc = "build" /\ ~ IsPass(stack'[k])
    BY <1>2, <1>3 DEF IsPass
  <2> QED
    BY <1>0, <1>1, <1>3, <2>2, <2>3, <2>4, OrderKept
<1>8. Typed'
  BY <1>1, <1>3, <1>7 DEF Typed
<1>9. /\ \A p : NotifyComes(p) => NotifyComes(p)'
      /\ \A p : FlushCovers(p) => FlushCovers(p)'
  <2>1. /\ \A p : NotifyFrom(1, p) => NotifyComes(p)'
        /\ \A p : FlushFrom(1, p) => FlushCovers(p)'
    BY <1>1, <1>3, <1>4, ComesKept
  <2> QED
    BY <1>0, <1>1, <2>1, ComesFrom
<1>10. DirtyComes'
  <2>1. (\E k \in 1 .. Len(stack) : stack[k].type = "flush")
          => \E k \in 1 .. Len(stack') : stack'[k].type = "flush"
    BY <1>0, <1>1, <1>3, FlushStays DEF Typed
  <2> QED
    BY <1>1, <1>4, <1>9, <2>1 DEF DirtyComes
<1>11. StaleComes'
  BY <1>1, <1>4, <1>5, <1>6, <1>9 DEF StaleComes
<1>12. AboveRegisters' /\ ToRegister' \subseteq ToRegister
  <2>1. \A r \in ToRegister : AllowedAbove(r, g)
    BY <1>0, <1>1, <1>2, TopAllowed DEF AllowedAbove
  <2>2. /\ AboveRegisters'
        /\ \A p \in ToRegister' :
             p \in ToRegister \/ (1 = 2 /\ stack'[2].type = "register" /\ p = stack'[2].o)
    BY <1>1, <1>2, <1>3, <2>1, AboveKept
  <2> QED
    BY <2>2
<1>13. RegistersRead'
  <2>1. \A r, d : WritesLater(r, d)' <=> WritesLater(r, d)
    BY <1>1 DEF WritesLater, Later
  <2>2. \A r \in ToRegister : r \in Observers
    BY <1>0, <1>1, TopAllowed
  <2>3. \A r \in ToRegister : Fresh(r)'
    BY <1>5, <1>6, <2>2 DEF RegistersRead
  <2> QED
    BY <1>1, <1>4, <1>12, <2>1, <2>3 DEF RegistersRead
<1>14. OwnersLive'
  <2>1. ~ At("read")'
    <3>1. stack' # <<>> /\ Top' = stack'[1]
      BY <1>3, TopAfter
    <3> QED
      BY <1>2, <1>3, <3>1 DEF At, Calling
  <2> SUFFICES ASSUME NEW q \in Observers, NEW p \in wiring[q].rows
               PROVE  Listed(p) \/ p \in dead \/ OwnerLives(p)'
    BY <1>1, <1>4, <2>1 DEF OwnersLive, OrphansNeverRun
  <2>2. p \in Observers /\ \A r \in Observers \ {p} : wiring[r].owner # wiring[p].owner
    BY Wired DEF Typed
  <2>3. CASE Listed(p)
    BY <2>3
  <2>4. CASE ~ Listed(p)
    <3>1. \A r \in RowsBuilt(o) : wiring[r].owner # wiring[p].owner
      <4>1. \A r \in RowsBuilt(o) : r \in Observers /\ r # p
        BY <1>4, <2>4, Unmoved DEF RowsBuilt
      <4> QED
        BY <2>2, <4>1
    <3>2. Listed(p) \/ p \in dead \/ OwnerLives(p)
      BY DEF OwnersLive
    <3> QED
      BY <1>1, <3>1, <3>2 DEF OwnerLives
  <2> QED
    BY <2>3, <2>4
<1>15. OneChange'
  <2>1. \A k \in 1 .. 1 : stack'[k].type # "notify"
    BY <1>2, <1>3
  <2> QED
    BY <1>1, <1>3, <2>1, NoInputPass DEF OneChange, WatchesInputs
<1> QED
  BY <1>7, <1>8, <1>10, <1>11, <1>12, <1>13, <1>14, <1>15

(* An each's body builds a row, and so registers the observer in it.       *)
LEMMA BuildKeeps ==
  ASSUME IInv, BodyBuild
  PROVE  IInv'
<1> USE DEF IInv
<1>0. PICK f, o, g : f = stack[1] /\ o = f.o /\ g = [f EXCEPT !.pc = "write"]
  OBVIOUS
<1>1. /\ stack # <<>> /\ f.type = "run" /\ f.pc = "build" /\ Top = f /\ Top.o = o
      /\ ~ At("read") /\ \A p : ~ RunComes(p)
  BY <1>0 DEF BodyBuild, At, Calling, Top, RunComes
<1>2. /\ f \in Frame /\ 1 \in 1 .. Len(stack) /\ ~ IsPass(f) /\ o \in Observers
      /\ g \in Frame /\ g.type = "run" /\ g.o = o /\ g.pc = "write"
      /\ Len(stack) \in Nat /\ Len(obs) \in Nat /\ firing \in Nat
  BY <1>0, <1>1, BodyFacts
<1>3. \A r \in ToRegister : AllowedAbove(r, g)
  BY <1>0, <1>1, <1>2, TopAllowed DEF AllowedAbove
<1>4. CASE RowsToCome(o) = {}
  <2>1. /\ UNCHANGED <<wiring, obs, dirty, dead, depth, pending, firing, value, alive, seen, runs>>
        /\ Goto(g)
    BY <1>0, <1>1, <1>4 DEF BodyBuild, hubVars
  <2>2. stack' \in Seq(Frame) /\ Rest(1, 1) /\ stack'[1] = g
    BY <1>1, <1>2, <2>1, GotoRest DEF Typed
  <2>3. /\ Grows /\ \A p : Listed(p)' <=> Listed(p)
        /\ \A p : IsLive(p)' => IsLive(p)
        /\ \A p : Fresh(p)' <=> Fresh(p)
    BY <2>1, Unmoved DEF Fresh
  <2>4. FramesInOrder' /\ firing' \in Nat
    <3>1. One(1 = 1 /\ IsPass(stack[1])) = 0 /\ One(1 >= 1 /\ IsPass(stack'[1])) = 0
          /\ One(1 = 2 /\ IsPass(stack'[2])) = 0
      BY <1>0, <1>2, <2>2 DEF One, IsPass
    <3>2. firing' = firing - One(1 = 1 /\ IsPass(stack[1])) + One(1 >= 1 /\ IsPass(stack'[1]))
                      + One(1 = 2 /\ IsPass(stack'[2]))
      BY <1>2, <2>1, <3>1
    <3>3. Len(obs) <= Len(obs') /\ obs' \in Seq(Observers)
      BY <1>2, <2>1 DEF Typed
    <3>4. \A k \in 1 .. 1 :
            stack'[k].type = "run" /\ stack'[k].pc = "write" /\ ~ IsPass(stack'[k])
      BY <1>2, <2>2 DEF IsPass
    <3> QED
      BY <1>0, <1>1, <2>1, <2>2, <3>2, <3>3, <3>4, OrderKept
  <2>5. Typed'
    BY <2>1, <2>2, <2>4 DEF Typed
  <2>6. /\ \A p : NotifyComes(p) => NotifyComes(p)'
        /\ \A p : FlushCovers(p) => FlushCovers(p)'
    <3>1. /\ \A p : NotifyFrom(1, p) => NotifyComes(p)'
          /\ \A p : FlushFrom(1, p) => FlushCovers(p)'
      BY <2>1, <2>2, <2>3, ComesKept
    <3> QED
      BY <1>0, <1>1, <3>1, ComesFrom
  <2>7. DirtyComes'
    <3>1. (\E k \in 1 .. Len(stack) : stack[k].type = "flush")
            => \E k \in 1 .. Len(stack') : stack'[k].type = "flush"
      BY <1>0, <1>1, <2>2, FlushStays DEF Typed
    <3> QED
      BY <2>1, <2>3, <2>6, <3>1 DEF DirtyComes
  <2>8. StaleComes'
    BY <1>1, <2>1, <2>3, <2>6 DEF StaleComes
  <2>9. AboveRegisters' /\ ToRegister' \subseteq ToRegister
    <3>1. /\ AboveRegisters'
          /\ \A p \in ToRegister' :
               p \in ToRegister \/ (1 = 2 /\ stack'[2].type = "register" /\ p = stack'[2].o)
      BY <1>2, <1>3, <2>1, <2>2, AboveKept
    <3> QED
      BY <3>1
  <2>10. RegistersRead'
    <3>1. \A r, d : WritesLater(r, d)' <=> WritesLater(r, d)
      BY <2>1 DEF WritesLater, Later
    <3> QED
      BY <1>1, <2>1, <2>3, <2>9, <3>1 DEF RegistersRead
  <2>11. OwnersLive'
    BY <1>2, <2>1, <2>2, <2>3, OwnersKept
  <2>12. OneChange'
    <3>1. \A k \in 1 .. 1 : stack'[k].type # "notify"
      BY <1>2, <2>2
    <3> QED
      BY <2>1, <2>2, <3>1, NoInputPass DEF OneChange, WatchesInputs
  <2> QED
    BY <2>4, <2>5, <2>7, <2>8, <2>9, <2>10, <2>11, <2>12
<1>5. CASE RowsToCome(o) # {}
  <2>0. PICK p \in RowsToCome(o) : Registering(p, <<g>> \o Tail(stack))
    BY <1>0, <1>1, <1>5 DEF BodyBuild
  <2>1. /\ p \in Observers /\ p \in wiring[o].rows /\ NeverRegistered(p)
        /\ wiring[p].owner # None /\ wiring[p].out = None
    <3>1. p \in wiring[o].rows /\ NeverRegistered(p)
      BY <2>0 DEF RowsToCome
    <3> QED
      BY <1>2, <3>1, Wired DEF Typed
  <2>2. /\ UNCHANGED <<wiring, dirty, dead, depth, pending, firing, value, alive, seen, runs>>
        /\ stack' = <<Seed(p)>> \o (<<g>> \o Tail(stack)) /\ obs' = Append(obs, p)
    BY <2>0, <2>1 DEF Registering
  <2>3. /\ stack' \in Seq(Frame) /\ Rest(1, 2) /\ stack'[1] = Seed(p) /\ stack'[2] = g
        /\ Seed(p) \in Frame /\ Seed(p).type = "run" /\ Seed(p).pc = "read" /\ Seed(p).o = p
    <3>1. Seed(p) \in Frame /\ Seed(p).type = "run" /\ Seed(p).pc = "read" /\ Seed(p).o = p
      BY <2>1, Framed DEF Seed
    <3>2. <<Seed(p)>> \o (<<g>> \o Tail(stack)) = <<Seed(p), g>> \o Tail(stack)
      <4>1. Tail(stack) \in Seq(Frame)
        BY <1>1 DEF Typed
      <4> QED
        BY <1>2, <3>1, <4>1
    <3>3. GotoCalling(g, Seed(p))
      BY <2>2, <3>2 DEF GotoCalling
    <3> QED
      BY <1>1, <1>2, <3>1, <3>3, CallRest DEF Typed
  <2>4. /\ obs' \in Seq(Observers) /\ Grows /\ Len(obs') = Len(obs) + 1
        /\ \A q : Listed(q)' <=> Listed(q) \/ q = p
        /\ \A q : IsLive(q)' => IsLive(q)
        /\ \A q : Fresh(q)' <=> Fresh(q)
        /\ ~ Listed(p) /\ p \notin dead
        /\ \A r \in ToRegister : r # p
    <3>1. /\ obs' \in Seq(Observers) /\ Grows /\ Len(obs') = Len(obs) + 1
          /\ \A q : Listed(q)' <=> Listed(q) \/ q = p
      BY <2>1, <2>2, Appended DEF Typed
    <3>2. /\ \A q : IsLive(q)' => IsLive(q)
          /\ \A q : Fresh(q)' <=> Fresh(q)
      BY <2>2, Unmoved DEF Fresh
    <3>3. ~ Listed(p) /\ p \notin dead
      BY <2>1, Unmoved DEF NeverRegistered
    <3>4. \A r \in ToRegister : r # p
      BY <2>1 DEF NeverRegistered, ToRegister, Typed
    <3> QED
      BY <3>1, <3>2, <3>3, <3>4
  <2>5. FramesInOrder' /\ firing' \in Nat
    <3>1. One(1 = 1 /\ IsPass(stack[1])) = 0 /\ One(2 >= 1 /\ IsPass(stack'[1])) = 0
          /\ One(2 = 2 /\ IsPass(stack'[2])) = 0
      BY <1>0, <1>2, <2>3 DEF One, IsPass
    <3>2. firing' = firing - One(1 = 1 /\ IsPass(stack[1])) + One(2 >= 1 /\ IsPass(stack'[1]))
                      + One(2 = 2 /\ IsPass(stack'[2]))
      BY <1>2, <2>2, <3>1
    <3>3. Len(obs) <= Len(obs')
      BY <1>2, <2>4
    <3>4. \A k \in 1 .. 2 : k = 1 \/ k = 2
      OBVIOUS
    <3>5. \A k \in 1 .. 2 :
            /\ stack'[k].type = "run" /\ ~ IsPass(stack'[k])
            /\ stack'[k].pc = "read" => k = 1
      BY <1>2, <2>3, <3>4 DEF IsPass
    <3> QED
      BY <1>0, <1>1, <2>2, <2>3, <2>4, <3>2, <3>3, <3>5, OrderKept
  <2>6. Typed'
    BY <2>2, <2>3, <2>4, <2>5 DEF Typed
  <2>7. RunComes(p)'
    <3>1. stack' # <<>> /\ Top' = stack'[1]
      BY <2>3, TopAfter
    <3> QED
      BY <2>3, <3>1 DEF RunComes, At, Calling
  <2>8. /\ \A q : NotifyComes(q) => NotifyComes(q)'
        /\ \A q : FlushCovers(q) => FlushCovers(q)'
    <3>1. /\ \A q : NotifyFrom(1, q) => NotifyComes(q)'
          /\ \A q : FlushFrom(1, q) => FlushCovers(q)'
      BY <2>2, <2>3, <2>4, ComesKept
    <3> QED
      BY <1>0, <1>1, <3>1, ComesFrom
  <2>9. DirtyComes'
    <3>1. (\E k \in 1 .. Len(stack) : stack[k].type = "flush")
            => \E k \in 1 .. Len(stack') : stack'[k].type = "flush"
      BY <1>0, <1>1, <2>3, FlushStays DEF Typed
    <3>2. p \notin dirty
      BY <2>4 DEF DirtyComes
    <3> QED
      BY <2>2, <2>4, <2>8, <3>1, <3>2 DEF DirtyComes
  <2>10. StaleComes'
    BY <1>1, <2>2, <2>4, <2>7, <2>8 DEF StaleComes
  <2>11. AboveRegisters' /\ ToRegister' \subseteq ToRegister
    <3>1. \A r \in ToRegister : AllowedAbove(r, Seed(p))
      BY <2>1, <2>3 DEF AllowedAbove, WritesLater
    <3>2. \A k \in 1 .. 2 : stack'[k].type # "register"
                             /\ \A r \in ToRegister : AllowedAbove(r, stack'[k])
      BY <1>2, <1>3, <2>3, <3>1
    <3>3. /\ AboveRegisters'
          /\ \A q \in ToRegister' :
               q \in ToRegister \/ (2 = 2 /\ stack'[2].type = "register" /\ q = stack'[2].o)
      BY <2>2, <2>3, <3>2, AboveKept
    <3> QED
      BY <1>2, <2>3, <3>3
  <2>12. RegistersRead'
    <3>1. \A r, d : WritesLater(r, d)' <=> WritesLater(r, d)
      BY <2>2 DEF WritesLater, Later
    <3>2. p \notin dirty
      BY <2>4 DEF DirtyComes
    <3> QED
      BY <1>1, <2>2, <2>4, <2>11, <3>1, <3>2 DEF RegistersRead
  <2>13. OwnersLive'
    <3>1. OwnerLives(p)
      BY <1>2, <2>1, <2>4 DEF OwnersLive
    <3> QED
      BY <1>1, <2>2, <2>3, <2>4, <3>1, OwnersKept
  <2>14. OneChange'
    <3>1. \A k \in 1 .. 2 : stack'[k].type # "notify"
      BY <1>2, <2>3
    <3> QED
      BY <2>2, <2>3, <3>1, NoInputPass, SMTT(30) DEF OneChange, WatchesInputs
  <2> QED
    BY <2>5, <2>6, <2>9, <2>10, <2>11, <2>12, <2>13, <2>14
<1> QED
  BY <1>4, <1>5

(* Three ways to write the cell: in a block, in a batch of its own, and    *)
(* with a pass at once.  WriteFacts is what they share.                    *)
LEMMA WriteFacts ==
  ASSUME IInv, BodyWrite, NEW f, f = stack[1], NEW c, c = wiring[f.o].out, c # None
  PROVE  /\ stack # <<>> /\ f.type = "run" /\ f.pc = "write"
         /\ ~ At("read") /\ \A p : ~ RunComes(p)
         /\ f \in Frame /\ 1 \in 1 .. Len(stack) /\ ~ IsPass(f)
         /\ Len(stack) \in Nat /\ Len(obs) \in Nat /\ firing \in Nat
         /\ c \in Cells /\ c \in Derived /\ c \notin Inputs
         /\ UNCHANGED <<wiring, obs, dead, depth, alive, seen, runs>>
         /\ DOMAIN value' = Cells
         /\ Grows /\ \A p : Listed(p)' <=> Listed(p)
         /\ \A p : p \in Watchers(c) <=> Listed(p) /\ Watches(p, c)
         /\ \A p : Listed(p) => p \in Observers
         /\ \A p : IsLive(p)' => IsLive(p)
         /\ \A p \in Observers : ~ Watches(p, c) => (Fresh(p)' <=> Fresh(p))
         /\ \A r \in ToRegister :
              /\ r \in Observers /\ Later(r, c) /\ ~ Watches(r, c)
              /\ \A p \in Observers : Watches(p, c) => WritesLater(r, p)
         /\ \A p \in Observers : WatchesInputs(p) => ~ Watches(p, c)
<1> USE DEF IInv
<1>1. /\ stack # <<>> /\ f.type = "run" /\ f.pc = "write" /\ Top.o = f.o
      /\ ~ At("read") /\ \A p : ~ RunComes(p)
  BY DEF BodyWrite, At, Calling, Top, RunComes
<1>2. /\ f \in Frame /\ 1 \in 1 .. Len(stack) /\ ~ IsPass(f) /\ f.o \in Observers
      /\ Len(stack) \in Nat /\ Len(obs) \in Nat /\ firing \in Nat
  BY <1>1, BodyFacts
<1>3. c \in Cells /\ c \in Derived /\ c \notin Inputs
  BY <1>2, Wired, NamesAssumption DEF Typed, Cells
<1>4. /\ UNCHANGED <<wiring, obs, dead, depth, alive, seen, runs>>
      /\ value' = [value EXCEPT ![c] = seen[f.o]]
  BY <1>1 DEF BodyWrite
<1>5. DOMAIN value' = Cells
  BY <1>4 DEF Typed
<1>6. /\ Grows /\ \A p : Listed(p)' <=> Listed(p)
      /\ \A p : p \in ToSet(obs) <=> Listed(p)
      /\ \A p : Listed(p) => p \in Observers
      /\ \A p : IsLive(p)' => IsLive(p)
  BY <1>4, Unmoved
<1>7. \A p : p \in Watchers(c) <=> Listed(p) /\ Watches(p, c)
  BY <1>6 DEF Watchers
<1>8. \A p \in Observers : ~ Watches(p, c) => (Fresh(p)' <=> Fresh(p))
  BY <1>3, <1>4, ReadsKept DEF Fresh
<1>9. ASSUME NEW r \in ToRegister
      PROVE  /\ r \in Observers /\ Later(r, c) /\ ~ Watches(r, c)
             /\ \A p \in Observers : Watches(p, c) => WritesLater(r, p)
  <2>1. r \in Observers /\ AllowedAbove(r, f)
    BY <1>1, TopAllowed
  <2>2. Later(r, c)
    BY <1>1, <2>1 DEF AllowedAbove, WritesLater
  <2> QED
    BY <1>3, <2>1, <2>2, WatchersLater DEF Typed
<1>10. \A p \in Observers : WatchesInputs(p) => ~ Watches(p, c)
  BY <1>3, NamesAssumption DEF WatchesInputs, Watches
<1> QED
  BY <1>1, <1>2, <1>3, <1>4, <1>5, <1>6, <1>7, <1>8, <1>9, <1>10

(* A computed cell's body sets the cell, which notifies or waits for the   *)
(* batch.                                                                  *)
LEMMA WriteKeeps ==
  ASSUME IInv, BodyWrite
  PROVE  IInv'
<1> USE DEF IInv
<1>0. PICK f, c : f = stack[1] /\ c = wiring[f.o].out
  OBVIOUS
<1>1. Top.o = f.o /\ stack # <<>> /\ f.type = "run" /\ f.pc = "write"
      /\ ~ At("read") /\ \A p : ~ RunComes(p)
  BY <1>0 DEF BodyWrite, At, Calling, Top, RunComes
<1>2. CASE c = None
  <2>1. /\ Return
        /\ UNCHANGED <<wiring, obs, dirty, dead, depth, pending, firing, value, alive, seen, runs>>
    BY <1>0, <1>1, <1>2 DEF BodyWrite
  <2>2. stack' \in Seq(Frame) /\ Rest(1, 0)
    BY <1>1, <2>1, ReturnRest DEF Typed
  <2>3. /\ Grows /\ \A p : Listed(p)' <=> Listed(p)
        /\ \A p : IsLive(p)' => IsLive(p)
        /\ \A p : Fresh(p)' <=> Fresh(p)
    BY <2>1, Unmoved DEF Fresh
  <2>4. FramesInOrder' /\ firing' \in Nat
    <3>1. One(1 = 1 /\ IsPass(stack[1])) = 0 /\ One(0 >= 1 /\ IsPass(stack'[1])) = 0
          /\ One(0 = 2 /\ IsPass(stack'[2])) = 0
      BY <1>0, <1>1 DEF One, IsPass
    <3>2. firing' = firing - One(1 = 1 /\ IsPass(stack[1])) + One(0 >= 1 /\ IsPass(stack'[1]))
                      + One(0 = 2 /\ IsPass(stack'[2]))
      BY <2>1, <3>1 DEF Typed
    <3>3. Len(obs) <= Len(obs') /\ obs' \in Seq(Observers)
      BY <2>1 DEF Typed
    <3> QED
      BY <1>0, <1>1, <2>1, <2>2, <3>2, <3>3, OrderKept
  <2>5. Typed'
    BY <2>1, <2>2, <2>4 DEF Typed
  <2>6. /\ \A p : NotifyComes(p) => NotifyComes(p)'
        /\ \A p : FlushCovers(p) => FlushCovers(p)'
    <3>1. /\ \A p : NotifyFrom(1, p) => NotifyComes(p)'
          /\ \A p : FlushFrom(1, p) => FlushCovers(p)'
      BY <2>1, <2>2, <2>3, ComesKept
    <3> QED
      BY <1>0, <1>1, <3>1, ComesFrom
  <2>7. DirtyComes'
    <3>1. (\E k \in 1 .. Len(stack) : stack[k].type = "flush")
            => \E k \in 1 .. Len(stack') : stack'[k].type = "flush"
      BY <1>0, <1>1, <2>2, FlushStays DEF Typed
    <3> QED
      BY <2>1, <2>3, <2>6, <3>1 DEF DirtyComes
  <2>8. StaleComes'
    BY <1>1, <2>1, <2>3, <2>6 DEF StaleComes
  <2>9. AboveRegisters' /\ ToRegister' \subseteq ToRegister
    <3>1. /\ AboveRegisters'
          /\ \A p \in ToRegister' :
               p \in ToRegister \/ (0 = 2 /\ stack'[2].type = "register" /\ p = stack'[2].o)
      BY <2>1, <2>2, AboveKept
    <3> QED
      BY <3>1
  <2>10. RegistersRead'
    <3>1. \A r, d : WritesLater(r, d)' <=> WritesLater(r, d)
      BY <2>1 DEF WritesLater, Later
    <3> QED
      BY <1>1, <2>1, <2>3, <2>9, <3>1 DEF RegistersRead
  <2>11. OwnersLive'
    BY <1>1, <2>1, <2>2, <2>3, OwnersKept
  <2>12. OneChange'
    BY <2>1, <2>2, NoInputPass DEF OneChange, WatchesInputs
  <2> QED
    BY <2>4, <2>5, <2>7, <2>8, <2>9, <2>10, <2>11, <2>12
<1>3. CASE c # None
  <2>1. /\ f \in Frame /\ 1 \in 1 .. Len(stack) /\ ~ IsPass(f)
        /\ Len(stack) \in Nat /\ Len(obs) \in Nat /\ firing \in Nat
        /\ c \in Cells /\ c \in Derived /\ c \notin Inputs
    BY <1>0, <1>3, WriteFacts
  <2>2. /\ UNCHANGED <<wiring, obs, dead, depth, alive, seen, runs>>
        /\ DOMAIN value' = Cells
        /\ Grows /\ \A p : Listed(p)' <=> Listed(p)
        /\ \A p : p \in Watchers(c) <=> Listed(p) /\ Watches(p, c)
        /\ \A p : Listed(p) => p \in Observers
        /\ \A p : IsLive(p)' => IsLive(p)
        /\ \A p \in Observers : ~ Watches(p, c) => (Fresh(p)' <=> Fresh(p))
    BY <1>0, <1>3, WriteFacts
  <2>3. /\ \A r \in ToRegister :
             /\ r \in Observers /\ Later(r, c) /\ ~ Watches(r, c)
             /\ \A p \in Observers : Watches(p, c) => WritesLater(r, p)
        /\ \A p \in Observers : WatchesInputs(p) => ~ Watches(p, c)
    BY <1>0, <1>3, WriteFacts
  <2>4. \A r, d : WritesLater(r, d)' <=> WritesLater(r, d)
    BY <2>2 DEF WritesLater, Later
  <2>5. /\ dirty' \subseteq dirty \cup Watchers(c) /\ dirty \subseteq dirty'
        /\ pending => pending' /\ pending' \in BOOLEAN
        /\ \/ /\ depth > 0 /\ dirty' = dirty \cup Watchers(c)
              /\ pending' = (pending \/ Watchers(c) # {}) /\ Return /\ firing' = firing
           \/ /\ depth = 0 /\ dirty' = dirty \cup Watchers(c)
              /\ pending' = (pending \/ Watchers(c) # {}) /\ Goto(Flush) /\ firing' = firing + 1
           \/ /\ depth = 0 /\ dirty' = dirty /\ pending' = pending
              /\ Goto(Notify(c)) /\ firing' = firing + 1
    BY <1>0, <1>1, <1>3 DEF BodyWrite, MarkWatchers, Typed
  <2>6. dirty' \subseteq Observers
    BY <2>2, <2>5 DEF Typed
  <2>7. ASSUME NEW n \in 0 .. 2, Rest(1, n), stack' \in Seq(Frame),
               \A k \in 1 .. n : stack'[k].type # "run"
        PROVE  /\ \A p : NotifyComes(p) => NotifyComes(p)'
               /\ \A p : FlushCovers(p) => FlushCovers(p)'
               /\ (\E k \in 1 .. Len(stack) : stack[k].type = "flush")
                    => \E k \in 1 .. Len(stack') : stack'[k].type = "flush"
               /\ OwnersLive'
    <3>1. /\ \A p : NotifyFrom(1, p) => NotifyComes(p)'
          /\ \A p : FlushFrom(1, p) => FlushCovers(p)'
      BY <2>2, <2>7, ComesKept
    <3>2. (\E k \in 1 .. Len(stack) : stack[k].type = "flush")
            => \E k \in 1 .. Len(stack') : stack'[k].type = "flush"
      BY <1>0, <1>1, <2>7, FlushStays DEF Typed
    <3>3. n >= 1 => 1 \in 1 .. n
      OBVIOUS
    <3>4. OwnersLive'
      BY <1>1, <2>2, <2>7, <3>3, OwnersKept
    <3> QED
      BY <1>0, <1>1, <3>1, <3>2, <3>4, ComesFrom
  <2>8. CASE /\ depth > 0 /\ dirty' = dirty \cup Watchers(c)
             /\ pending' = (pending \/ Watchers(c) # {}) /\ Return /\ firing' = firing
    <3>1. stack' \in Seq(Frame) /\ Rest(1, 0)
      BY <1>1, <2>8, ReturnRest DEF Typed
    <3>2. FramesInOrder' /\ firing' \in Nat
      <4>1. One(1 = 1 /\ IsPass(stack[1])) = 0 /\ One(0 >= 1 /\ IsPass(stack'[1])) = 0
            /\ One(0 = 2 /\ IsPass(stack'[2])) = 0
        BY <1>0, <1>1 DEF One, IsPass
      <4>2. firing' = firing - One(1 = 1 /\ IsPass(stack[1])) + One(0 >= 1 /\ IsPass(stack'[1]))
                        + One(0 = 2 /\ IsPass(stack'[2]))
        BY <2>1, <2>8, <4>1
      <4>3. Len(obs) <= Len(obs') /\ obs' \in Seq(Observers)
        BY <2>1, <2>2 DEF Typed
      <4> QED
        BY <1>0, <1>1, <2>2, <3>1, <4>2, <4>3, OrderKept
    <3>3. Typed'
      BY <2>2, <2>5, <2>6, <3>1, <3>2 DEF Typed
    <3>4. /\ \A p : NotifyComes(p) => NotifyComes(p)'
          /\ \A p : FlushCovers(p) => FlushCovers(p)'
          /\ OwnersLive'
      BY <2>7, <3>1
    <3>5. DirtyComes'
      BY <2>2, <2>8, <3>4 DEF DirtyComes
    <3>6. StaleComes'
      BY <1>1, <2>2, <2>8, <3>4 DEF StaleComes
    <3>7. AboveRegisters' /\ ToRegister' \subseteq ToRegister
      <4>1. /\ AboveRegisters'
            /\ \A p \in ToRegister' :
                 p \in ToRegister \/ (0 = 2 /\ stack'[2].type = "register" /\ p = stack'[2].o)
        BY <2>2, <3>1, AboveKept
      <4> QED
        BY <4>1
    <3>8. RegistersRead'
      BY <1>1, <2>2, <2>3, <2>8, <3>7 DEF RegistersRead
    <3>9. OneChange'
      BY <2>2, <2>8, <3>1, NoInputPass DEF OneChange, WatchesInputs
    <3> QED
      BY <3>2, <3>3, <3>4, <3>5, <3>6, <3>7, <3>8, <3>9
  <2>9. CASE /\ depth = 0 /\ dirty' = dirty \cup Watchers(c)
             /\ pending' = (pending \/ Watchers(c) # {}) /\ Goto(Flush) /\ firing' = firing + 1
    <3>1. Flush \in Frame /\ Flush.type = "flush" /\ Flush.at = 1 /\ Flush.n = 0
      BY Framed DEF Flush
    <3>2. stack' \in Seq(Frame) /\ Rest(1, 1) /\ stack'[1] = Flush /\ 1 \in 1 .. Len(stack')
      <4>1. stack' \in Seq(Frame) /\ Rest(1, 1) /\ stack'[1] = Flush
        BY <1>1, <2>9, <3>1, GotoRest DEF Typed
      <4> QED
        BY <2>1, <4>1 DEF Rest
    <3>3. FramesInOrder' /\ firing' \in Nat
      <4>1. One(1 = 1 /\ IsPass(stack[1])) = 0 /\ One(1 >= 1 /\ IsPass(stack'[1])) = 1
            /\ One(1 = 2 /\ IsPass(stack'[2])) = 0
        BY <1>0, <1>1, <3>1, <3>2 DEF One, IsPass
      <4>2. firing' = firing - One(1 = 1 /\ IsPass(stack[1])) + One(1 >= 1 /\ IsPass(stack'[1]))
                        + One(1 = 2 /\ IsPass(stack'[2]))
        BY <2>1, <2>9, <4>1
      <4>3. Len(obs) <= Len(obs') /\ obs' \in Seq(Observers)
        BY <2>1, <2>2 DEF Typed
      <4>4. \A k \in 1 .. 1 :
              /\ stack'[k].type \notin {"batch", "register", "run"}
              /\ depth = 0 /\ stack'[k].at \in 1 .. stack'[k].n + 1 /\ stack'[k].n <= Len(obs')
        BY <2>1, <2>2, <2>9, <3>1, <3>2
      <4> QED
        BY <1>0, <1>1, <2>2, <3>2, <4>2, <4>3, <4>4, OrderKept
    <3>4. Typed'
      BY <2>2, <2>5, <2>6, <3>2, <3>3 DEF Typed
    <3>5. /\ \A p : NotifyComes(p) => NotifyComes(p)'
          /\ \A p : FlushCovers(p) => FlushCovers(p)'
          /\ OwnersLive'
      BY <2>7, <3>1, <3>2
    <3>6. DirtyComes'
      BY <2>2, <2>9, <3>1, <3>2, <3>5 DEF DirtyComes
    <3>7. StaleComes'
      BY <1>1, <2>2, <2>9, <3>5 DEF StaleComes
    <3>8. AboveRegisters' /\ ToRegister' \subseteq ToRegister
      <4>1. \A r \in ToRegister : AllowedAbove(r, Flush)
        BY <3>1 DEF AllowedAbove
      <4>2. /\ AboveRegisters'
            /\ \A p \in ToRegister' :
                 p \in ToRegister \/ (1 = 2 /\ stack'[2].type = "register" /\ p = stack'[2].o)
        BY <2>2, <3>1, <3>2, <4>1, AboveKept
      <4> QED
        BY <4>2
    <3>9. RegistersRead'
      BY <1>1, <2>2, <2>3, <2>4, <2>9, <3>8 DEF RegistersRead
    <3>10. OneChange'
      <4>1. \A k \in 1 .. 1 : stack'[k].type # "notify"
        BY <3>1, <3>2
      <4>2. \A p \in Observers : WatchesInputs(p) /\ p \in dirty' => p \in dirty
        BY <2>2, <2>3, <2>9
      <4> QED
        BY <2>2, <2>9, <3>2, <4>1, <4>2, NoInputPass DEF OneChange, WatchesInputs
    <3> QED
      BY <3>3, <3>4, <3>5, <3>6, <3>7, <3>8, <3>9, <3>10
  <2>10. CASE /\ depth = 0 /\ dirty' = dirty /\ pending' = pending
              /\ Goto(Notify(c)) /\ firing' = firing + 1
    <3>1. PICK h : h = Notify(c)
      OBVIOUS
    <3>2. h \in Frame /\ h.type = "notify" /\ h.cell = c /\ h.at = 1 /\ h.n = Len(obs)
      BY <2>1, <3>1, Framed DEF Notify
    <3>3. stack' \in Seq(Frame) /\ Rest(1, 1) /\ stack'[1] = h /\ 1 \in 1 .. Len(stack')
      <4>1. stack' \in Seq(Frame) /\ Rest(1, 1) /\ stack'[1] = h
        BY <1>1, <2>10, <3>1, <3>2, GotoRest DEF Typed
      <4> QED
        BY <2>1, <4>1 DEF Rest
    <3>4. FramesInOrder' /\ firing' \in Nat
      <4>1. One(1 = 1 /\ IsPass(stack[1])) = 0 /\ One(1 >= 1 /\ IsPass(stack'[1])) = 1
            /\ One(1 = 2 /\ IsPass(stack'[2])) = 0
        BY <1>0, <1>1, <3>2, <3>3 DEF One, IsPass
      <4>2. firing' = firing - One(1 = 1 /\ IsPass(stack[1])) + One(1 >= 1 /\ IsPass(stack'[1]))
                        + One(1 = 2 /\ IsPass(stack'[2]))
        BY <2>1, <2>10, <4>1
      <4>3. Len(obs) <= Len(obs') /\ obs' \in Seq(Observers)
        BY <2>1, <2>2 DEF Typed
      <4>4. \A k \in 1 .. 1 :
              /\ stack'[k].type \notin {"batch", "register", "run"}
              /\ depth = 0 /\ stack'[k].at \in 1 .. stack'[k].n + 1 /\ stack'[k].n <= Len(obs')
        BY <2>1, <2>2, <2>10, <3>2, <3>3
      <4> QED
        BY <1>0, <1>1, <2>2, <3>3, <4>2, <4>3, <4>4, OrderKept
    <3>5. Typed'
      BY <2>2, <2>5, <2>6, <3>3, <3>4 DEF Typed
    <3>6. /\ \A p : NotifyComes(p) => NotifyComes(p)'
          /\ \A p : FlushCovers(p) => FlushCovers(p)'
          /\ (\E k \in 1 .. Len(stack) : stack[k].type = "flush")
               => \E k \in 1 .. Len(stack') : stack'[k].type = "flush"
          /\ OwnersLive'
      BY <2>7, <3>2, <3>3
    <3>7. DirtyComes'
      BY <2>2, <2>10, <3>6 DEF DirtyComes
    <3>8. \A p : Listed(p) /\ Watches(p, c) => NotifyComes(p)'
      <4>1. \A p : Listed(p) /\ Watches(p, c) => Covers(h, p)' /\ Watches(p, h.cell)'
        BY <2>2, <3>2 DEF Listed, Covers, Watches
      <4> QED
        BY <3>2, <3>3, <4>1 DEF NotifyComes
    <3>9. StaleComes'
      BY <1>1, <2>2, <2>10, <3>6, <3>8 DEF StaleComes
    <3>10. AboveRegisters' /\ ToRegister' \subseteq ToRegister
      <4>1. \A r \in ToRegister : AllowedAbove(r, h)
        BY <2>3, <3>2 DEF AllowedAbove
      <4>2. /\ AboveRegisters'
            /\ \A p \in ToRegister' :
                 p \in ToRegister \/ (1 = 2 /\ stack'[2].type = "register" /\ p = stack'[2].o)
        BY <2>2, <3>2, <3>3, <4>1, AboveKept
      <4> QED
        BY <4>2
    <3>11. RegistersRead'
      BY <1>1, <2>2, <2>3, <2>4, <2>10, <3>10 DEF RegistersRead
    <3>12. OneChange'
      <4>1. \A k \in 1 .. 1 : stack'[k].cell \notin Inputs
        BY <2>1, <3>2, <3>3
      <4> QED
        BY <2>2, <2>10, <3>3, <4>1, NoInputPass DEF OneChange, WatchesInputs
    <3> QED
      BY <3>4, <3>5, <3>6, <3>7, <3>9, <3>10, <3>11, <3>12
  <2> QED
    BY <2>5, <2>8, <2>9, <2>10
<1> QED
  BY <1>2, <1>3

-----------------------------------------------------------------------------
(* Nothing is registered at the start.                                     *)
LEMMA InitHolds == Init => IInv
<1> SUFFICES ASSUME Init PROVE IInv
  OBVIOUS
<1>1. /\ obs = <<>> /\ stack = <<>> /\ Len(stack) = 0 /\ Len(obs) = 0
      /\ 1 .. Len(stack) = {} /\ 1 .. Len(obs) = {}
  BY DEF Init
<1>2. Typed
  <2>1. wiring \in Wirings /\ obs \in Seq(Observers) /\ stack \in Seq(Frame)
    BY DEF Init
  <2>2. DOMAIN value = Cells /\ DOMAIN seen = Observers /\ runs \in [Observers -> Nat]
    BY DEF Init
  <2>3. dirty \subseteq Observers /\ dead \subseteq Observers /\ depth \in Nat
        /\ pending \in BOOLEAN /\ firing \in Nat
    BY DEF Init
  <2> QED
    BY <2>1, <2>2, <2>3 DEF Typed
<1>3. Passes = {} /\ Cardinality(Passes) = 0
  <2>1. Passes = {}
    BY <1>1 DEF Passes
  <2> QED
    BY <2>1, FS_EmptySet
<1>4. FramesInOrder
  BY <1>1, <1>3 DEF Init, FramesInOrder
<1>5. DirtyComes /\ StaleComes
  BY <1>1 DEF Init, DirtyComes, StaleComes, Listed
<1>6. AboveRegisters /\ RegistersRead
  BY <1>1 DEF AboveRegisters, RegistersRead, ToRegister
<1>7. OwnersLive
  <2>1. \A p \in Observers : wiring[p].owner \in Widgets \cup {None}
    BY WiringAssumption DEF Init, WiringType
  <2>2. \A q \in Observers : wiring[q].rows \subseteq Observers
    BY <1>2, Wired DEF Typed
  <2> QED
    BY <1>1, <2>1, <2>2 DEF Init, OwnersLive, OrphansNeverRun, At, Calling, OwnerLives
<1>8. OneChange
  BY <1>1 DEF Init, OneChange, InBatch
<1> QED
  BY <1>2, <1>4, <1>5, <1>6, <1>7, <1>8 DEF IInv

(* Every turn of every loop, and every call of the application.            *)
LEMMA NextKeeps == IInv /\ [Next]_vars => IInv'
<1> SUFFICES ASSUME IInv, [Next]_vars PROVE IInv'
  OBVIOUS
<1>1. CASE \E c \in Inputs : AppSet(c)
  BY <1>1, SetKeeps
<1>2. CASE \E o \in Observers : AppRegister(o)
  BY <1>2, RegistrationKeeps
<1>3. CASE \E w \in Widgets : Destroy(w)
  BY <1>3, DestroyKeeps
<1>4. CASE BatchBegin \/ BatchEnd
  BY <1>4, BeginKeeps, EndKeeps
<1>5. CASE HubStep
  BY <1>5, RegisterKeeps, NotifyTurnKeeps, EndsKeep, FlushRoundKeeps, FlushTurnKeeps,
     ReadKeeps, BuildKeeps, WriteKeeps DEF HubStep
<1>6. CASE UNCHANGED vars
  <2>1. UNCHANGED <<wiring, obs, dirty, dead, depth, pending, firing, stack, value, alive, seen,
                    runs>>
    BY <1>6 DEF vars, hubVars
  <2>2. Typed' /\ FramesInOrder'
    BY <2>1 DEF IInv, Typed, FramesInOrder, Passes
  <2>3. DirtyComes' /\ StaleComes'
    BY <2>1 DEF IInv, DirtyComes, StaleComes, Listed, IsLive, OwnerLives, FlushCovers, NotifyComes,
       Covers, Watches, RunComes, At, Calling, Top, Fresh, Reads, ValueOf
  <2>4. AboveRegisters' /\ RegistersRead'
    <3>1. AboveRegisters'
      BY <2>1 DEF IInv, AboveRegisters, AllowedAbove, WritesLater, Later
    <3>2. ToRegister' = ToRegister
      BY <2>1 DEF ToRegister
    <3>3. RegistersRead'
      BY <2>1, <3>2 DEF IInv, RegistersRead, WritesLater, Later, Listed, IsLive, OwnerLives,
         RunComes, At, Calling, Top, Fresh, Reads, ValueOf
    <3> QED
      BY <3>1, <3>3
  <2>5. OwnersLive' /\ OneChange'
    BY <2>1 DEF IInv, OwnersLive, OrphansNeverRun, At, Calling, Top, OwnerLives, Listed, OneChange,
       WatchesInputs, InBatch
  <2> QED
    BY <2>2, <2>3, <2>4, <2>5 DEF IInv
<1> QED
  BY <1>1, <1>2, <1>3, <1>4, <1>5, <1>6 DEF Next

(* So it holds throughout.                                                 *)
LEMMA Invariance == Spec => []IInv
BY InitHolds, NextKeeps, PTL DEF Spec

(* However sets, batches, registrations and destructions interleave and    *)
(* nest, once the thread is back in its event loop every observer whose    *)
(* owner lives has run on the values the cells hold.                       *)
THEOREM SettledAlways == Spec => []Settled
<1>1. IInv => Settled
  <2> SUFFICES ASSUME IInv, stack = <<>>, NEW o \in ToSet(obs), IsLive(o)
               PROVE  seen[o] = Reads(o)
    BY DEF Settled, Idle
  <2> USE DEF IInv
  <2>1. Listed(o) /\ o \in Observers
    BY Unmoved
  <2>2. Len(stack) = 0 /\ 1 .. Len(stack) = {} /\ depth \in Nat
    BY DEF Typed
  <2>3. ~ NotifyComes(o) /\ ~ FlushCovers(o) /\ ~ RunComes(o)
    BY <2>2 DEF NotifyComes, FlushCovers, RunComes, At, Calling
  <2>4. ~ pending
    BY <2>2 DEF DirtyComes, FramesInOrder
  <2>5. o \notin dirty
    BY <2>1, <2>3, <2>4 DEF DirtyComes
  <2> QED
    BY <2>1, <2>3, <2>5 DEF StaleComes, Fresh
<1> QED
  BY <1>1, Invariance, PTL

(* No observer's body starts once the widget that owns it is gone, the     *)
(* ones an each() builds while a pass is under way included.               *)
THEOREM OrphansNeverRunAlways == Spec => []OrphansNeverRun
<1>1. IInv => OrphansNeverRun
  BY DEF IInv, OwnersLive
<1> QED
  BY <1>1, Invariance, PTL

(* A batch is one change to each observer of what the application sets:    *)
(* nothing runs while the block is open, and its close runs the observer   *)
(* once at most, whatever else the flush sets.                             *)
THEOREM InputBatchIsOneChangeAlways == Spec => []InputBatchIsOneChange
<1>1. IInv => InputBatchIsOneChange
  BY DEF IInv, OneChange, WatchesInputs, InputBatchIsOneChange, BatchIsOneChangeFor
<1> QED
  BY <1>1, Invariance, PTL

(* While a pass walks the list of observers by index, the list only grows  *)
(* at its end: nothing a pass will come to moves.                          *)
THEOREM PassesKeepTheListAlways == Spec => PassesKeepTheList
<1>1. ASSUME IInv, IInv', [Next]_vars, Passes' # {} PROVE IsPrefix(obs, obs')
  <2>1. obs \in Seq(Observers)
    BY <1>1 DEF IInv, Typed
  <2>2. obs' = obs \/ (\E o \in Observers : obs' = Append(obs, o))
    <3>1. firing' # 0
      <4>1. stack' \in Seq(Frame) /\ firing' = Cardinality(Passes')
        BY <1>1 DEF IInv, Typed, FramesInOrder
      <4>2. Passes' = {k \in 1 .. Len(stack') : IsPass(stack'[k])}
        BY <4>1 DEF Passes, IsPass
      <4> QED
        BY <1>1, <4>1, <4>2, NoPass
    <3>2. firing' \in Nat
      BY <1>1 DEF IInv, Typed
    <3>3. CASE PassOver
      <4>1. firing' > 0
        BY ONLY <3>1, <3>2
      <4> QED
        BY <3>3, <4>1 DEF PassOver, Compact
    <3>4. CASE \E o \in Observers : AppRegister(o)
      BY <3>4 DEF AppRegister, Registering
    <3>5. CASE RegisterStep
      <4>1. stack # <<>> /\ stack[1].type = "register" /\ obs' = Append(obs, stack[1].o)
        BY <3>5 DEF RegisterStep, Calling, Top
      <4>2. stack[1] \in Frame
        BY <1>1, <4>1 DEF IInv, Typed
      <4> QED
        BY <4>1, <4>2, Fields
    <3>6. CASE BodyBuild
      <4>1. PICK f : f = stack[1] /\ stack # <<>> /\ f.type = "run" /\ Top.o = f.o
        BY <3>6 DEF BodyBuild, At, Calling, Top
      <4>2. wiring[f.o].rows \subseteq Observers
        <5>1. f.o \in Observers
          BY <1>1, <4>1, BodyFacts DEF IInv
        <5> QED
          BY <1>1, <5>1, Wired DEF IInv, Typed
      <4> QED
        BY <3>6, <4>1, <4>2 DEF BodyBuild, Registering, RowsToCome, hubVars
    <3>7. CASE UNCHANGED obs
      BY <3>7
    <3> QED
      BY <1>1, <3>3, <3>4, <3>5, <3>6, <3>7
         DEF Next, HubStep, vars, hubVars, AppSet, BatchBegin, BatchEnd, Destroy, NotifyTurn,
             NotifyEnd, FlushRound, FlushTurn, FlushEnd, BodyRead, BodyWrite
  <2>3. Grows /\ obs' \in Seq(Observers)
    BY <2>1, <2>2, Unmoved, Appended, <1>1 DEF IInv
  <2>4. SubSeq(obs, 1, Len(obs)) = SubSeq(obs', 1, Len(obs))
    BY <2>1, <2>3 DEF Grows
  <2> QED
    BY <2>1, <2>3, <2>4 DEF IsPrefix, Grows
<1>2. IInv /\ IInv' /\ [Next]_vars => [Passes' # {} => IsPrefix(obs, obs')]_vars
  BY <1>1
<1> QED
  BY <1>2, Invariance, PTL DEF Spec, PassesKeepTheList
=============================================================================
