--------------------------- MODULE SweepingProofs ---------------------------
(***************************************************************************)
(* What a sweep keeps: the entries it was to keep, all of them, nothing    *)
(* else and in their order, for lists of any length.                       *)
(***************************************************************************)
EXTENDS Sweeping, WellFoundedInduction, TLAPS

(* A set of numbers that is not empty has a least one: what the inductions *)
(* over the places of a list below rest on.                                *)
LEMMA LeastPlace ==
  ASSUME NEW T \in SUBSET Nat, T # {}
  PROVE  \E m \in T : \A n \in T : m <= n
<1> DEFINE R == OpToRel(<, Nat)
<1>1. IsWellFoundedOn(R, Nat)
  BY NatLessThanWellFounded
<1> HIDE DEF R
<1>2. PICK m \in T : \A n \in T : <<n, m>> \notin R
  BY <1>1, WFMin
<1>3. \A n \in T : ~(n < m)
  BY <1>2 DEF R, OpToRel
<1> QED
  BY <1>3

(* Induction over the places of a list, with a set for the property: a set *)
(* that holds 0, and with a place the next, holds them all.                *)
LEMMA Climb ==
  ASSUME NEW n \in Nat, NEW T, 0 \in T,
         \A i \in 1 .. n : i - 1 \in T => i \in T
  PROVE  \A i \in 0 .. n : i \in T
<1> DEFINE Missed == {i \in 0 .. n : i \notin T}
<1> SUFFICES ASSUME Missed # {}
             PROVE  FALSE
  OBVIOUS
<1>1. Missed \in SUBSET Nat
  OBVIOUS
<1>2. PICK m \in Missed : \A i \in Missed : m <= i
  BY <1>1, LeastPlace
<1>3. m \in 1 .. n /\ m - 1 \in 0 .. n /\ m - 1 \notin Missed
  BY <1>2
<1> QED
  BY <1>2, <1>3

(* A run of a loop of n turns, from base: each turn makes what there is    *)
(* by then into what there is next.                                        *)
LoopRun(n, A, base, F, g) ==
  g \in [0 .. n -> A] /\ g[0] = base /\ \A i \in 1 .. n : g[i] = F[i][g[i - 1]]
(* Such a loop can be run to its end.                                      *)
LEMMA LoopRuns ==
  ASSUME NEW n \in Nat, NEW A, NEW base \in A, NEW F, F \in [1 .. n -> [A -> A]]
  PROVE  \E g : LoopRun(n, A, base, F, g)
<1> DEFINE Runs(m, g) == /\ g \in [0 .. m -> A] /\ g[0] = base
                         /\ \A i \in 1 .. m : g[i] = F[i][g[i - 1]]
           Ran == {m \in 0 .. n : \E g : Runs(m, g)}
<1>1. 0 \in Ran
  <2>1. Runs(0, [i \in 0 .. 0 |-> base])
    OBVIOUS
  <2> HIDE DEF Runs
  <2> QED
    BY <2>1
<1>2. ASSUME NEW m \in 1 .. n, m - 1 \in Ran
      PROVE  m \in Ran
  <2>1. PICK g : Runs(m - 1, g)
    BY <1>2
  <2> DEFINE h == [i \in 0 .. m |-> IF i = m THEN F[m][g[m - 1]] ELSE g[i]]
  <2>2. \A i \in 0 .. m : i = m \/ i \in 0 .. (m - 1)
    OBVIOUS
  <2>3. m - 1 \in 0 .. (m - 1) /\ g[m - 1] \in A
    BY <2>1
  <2>4. F[m][g[m - 1]] \in A
    BY <2>3
  <2>5. h \in [0 .. m -> A]
    BY <2>1, <2>2, <2>4
  <2>6. h[m] = F[m][g[m - 1]] /\ \A i \in 0 .. (m - 1) : h[i] = g[i]
    OBVIOUS
  <2> HIDE DEF h
  <2>7. \A i \in 1 .. m : i - 1 \in 0 .. (m - 1) /\ (i = m \/ i \in 1 .. (m - 1))
    OBVIOUS
  <2>8. h[0] = base /\ \A i \in 1 .. m : h[i] = F[i][h[i - 1]]
    BY <2>1, <2>6, <2>7
  <2>9. Runs(m, h)
    BY <2>5, <2>8
  <2> HIDE DEF Runs
  <2> QED
    BY <2>9
<1> HIDE DEF Ran
<1>3. \A m \in 0 .. n : m \in Ran
  BY <1>1, <1>2, Climb
<1> QED
  BY <1>3 DEF Ran, LoopRun

(* The loop of a sweep, turn by turn.                                      *)
Turn(s, K, g, i) ==
  IF i = 0 THEN <<>> ELSE IF i \in K THEN Append(g[i - 1], s[i]) ELSE g[i - 1]
TurnsTo(S, s, K, n, g) ==
  g \in [0 .. n -> Seq(S)] /\ \A i \in 0 .. n : g[i] = Turn(s, K, g, i)

(* One more turn of the sweep's loop.                                      *)
LEMMA TurnTaken ==
  ASSUME NEW S, NEW s \in Seq(S), NEW K, NEW m \in 1 .. Len(s), NEW g,
         TurnsTo(S, s, K, m - 1, g)
  PROVE  \E h : TurnsTo(S, s, K, m, h)
<1> DEFINE last == IF m \in K THEN Append(g[m - 1], s[m]) ELSE g[m - 1]
           h == [i \in 0 .. m |-> IF i = m THEN last ELSE g[i]]
<1>1. /\ m \in Nat /\ m - 1 \in 0 .. (m - 1) /\ s[m] \in S
      /\ \A i \in 0 .. m : i = m \/ i \in 0 .. (m - 1)
  OBVIOUS
<1>2. g[m - 1] \in Seq(S) /\ last \in Seq(S)
  BY <1>1 DEF TurnsTo
<1>3. h \in [0 .. m -> Seq(S)]
  BY <1>1, <1>2 DEF TurnsTo
<1>4. h[m] = last /\ \A i \in 0 .. (m - 1) : h[i] = g[i]
  BY <1>1
<1> HIDE DEF h
<1>5. Turn(s, K, h, m) = last
  BY <1>1, <1>4 DEF Turn
<1>6. ASSUME NEW i \in 0 .. (m - 1)
      PROVE  h[i] = Turn(s, K, h, i)
  <2>1. h[i] = Turn(s, K, g, i)
    BY <1>4 DEF TurnsTo
  <2>2. i # 0 => i - 1 \in 0 .. (m - 1)
    OBVIOUS
  <2> QED
    BY <1>4, <2>1, <2>2 DEF Turn
<1> QED
  BY <1>1, <1>3, <1>4, <1>5, <1>6 DEF TurnsTo

(* The whole sweep is its turns one after another.                         *)
LEMMA KeptTurns ==
  ASSUME NEW S, NEW s \in Seq(S), NEW K
  PROVE  \E g : TurnsTo(S, s, K, Len(s), g) /\ Kept(s, K) = g[Len(s)]
<1> DEFINE Loop(g) == g = [i \in 0 .. Len(s) |-> Turn(s, K, g, i)]
           loop == CHOOSE h : Loop(h)
           Taken == {n \in 0 .. Len(s) : \E h : TurnsTo(S, s, K, n, h)}
<1>1. Len(s) \in Nat
  OBVIOUS
<1>2. \E h : TurnsTo(S, s, K, Len(s), h)
  <2>1. 0 \in Taken
    <3>1. TurnsTo(S, s, K, 0, [i \in 0 .. 0 |-> <<>>])
      BY DEF TurnsTo, Turn
    <3> QED
      BY <1>1, <3>1
  <2>2. ASSUME NEW m \in 1 .. Len(s), m - 1 \in Taken
        PROVE  m \in Taken
    BY <2>2, TurnTaken
  <2> HIDE DEF Taken
  <2>3. \A n \in 0 .. Len(s) : n \in Taken
    BY <1>1, <2>1, <2>2, Climb
  <2> QED
    BY <1>1, <2>3 DEF Taken
<1>3. Loop(loop)
  <2>1. PICK h : TurnsTo(S, s, K, Len(s), h)
    BY <1>2
  <2>2. Loop(h)
    BY <2>1 DEF TurnsTo
  <2> HIDE DEF Loop
  <2> QED
    BY <2>2
<1>4. Kept(s, K) = loop[Len(s)]
  BY DEF Kept, Turn
<1> HIDE DEF loop
<1>5. PICK g : Loop(g) /\ Kept(s, K) = g[Len(s)]
  BY <1>3, <1>4
<1>6. \A i \in 0 .. Len(s) : g[i] = Turn(s, K, g, i)
  BY <1>5
<1>7. \A i \in 0 .. Len(s) : g[i] \in Seq(S)
  <2> DEFINE Sound == {n \in 0 .. Len(s) : g[n] \in Seq(S)}
  <2>1. 0 \in Sound
    <3>1. g[0] = <<>> /\ <<>> \in Seq(S)
      BY <1>1, <1>6 DEF Turn
    <3>2. 0 \in 0 .. Len(s) /\ g[0] \in Seq(S)
      BY <1>1, <3>1
    <3> QED
      BY <3>2, Zenon
  <2>2. ASSUME NEW m \in 1 .. Len(s), m - 1 \in Sound
        PROVE  m \in Sound
    <3>1. s[m] \in S /\ m \in 0 .. Len(s) /\ m # 0 /\ g[m - 1] \in Seq(S)
      BY <2>2
    <3>2. g[m] = IF m \in K THEN Append(g[m - 1], s[m]) ELSE g[m - 1]
      BY <1>6, <3>1 DEF Turn
    <3>3. g[m] \in Seq(S)
      BY <3>1, <3>2
    <3> QED
      BY <3>1, <3>3, Zenon
  <2> HIDE DEF Sound
  <2>3. \A n \in 0 .. Len(s) : n \in Sound
    BY <1>1, <2>1, <2>2, Climb
  <2> QED
    BY <2>3 DEF Sound
<1>8. g \in [0 .. Len(s) -> Seq(S)]
  BY <1>5, <1>7
<1> QED
  BY <1>5, <1>6, <1>8 DEF TurnsTo

(* The entries of c are those of s, up to the place n, at the places of K, *)
(* in their order; f says where each of them was.                          *)
Picked(s, K, n, c, f) ==
  /\ f \in [1 .. Len(c) -> K \cap (1 .. n)]
  /\ \A j \in 1 .. Len(c) : c[j] = s[f[j]]
  /\ \A j, k \in 1 .. Len(c) : j < k => f[j] < f[k]
  /\ \A i \in K \cap (1 .. n) : \E j \in 1 .. Len(c) : f[j] = i

(* Where each entry kept so far came from, after one more turn.            *)
LEMMA PickedNext ==
  ASSUME NEW S, NEW s \in Seq(S), NEW K, NEW m \in 1 .. Len(s), NEW c \in Seq(S), NEW f,
         Picked(s, K, m - 1, c, f)
  PROVE  \E h : Picked(s, K, m, IF m \in K THEN Append(c, s[m]) ELSE c, h)
<1>1. m \in Nat /\ Len(c) \in Nat /\ s[m] \in S
  OBVIOUS
<1>2. CASE m \notin K
  <2>1. K \cap (1 .. m) = K \cap (1 .. (m - 1))
    BY <1>1, <1>2
  <2>2. Picked(s, K, m, c, f)
    BY <2>1 DEF Picked
  <2> QED
    BY <1>2, <2>2
<1>3. CASE m \in K
  <2> DEFINE l == Len(c)
             d == Append(c, s[m])
             h == [j \in 1 .. l + 1 |-> IF j = l + 1 THEN m ELSE f[j]]
  <2>1. Len(d) = l + 1 /\ d[l + 1] = s[m] /\ \A j \in 1 .. l : d[j] = c[j]
    BY <1>1
  <2>2. /\ \A j \in 1 .. l : f[j] \in K \cap (1 .. (m - 1)) /\ c[j] = s[f[j]]
        /\ \A j, k \in 1 .. l : j < k => f[j] < f[k]
        /\ \A i \in K \cap (1 .. (m - 1)) : \E j \in 1 .. l : f[j] = i
    BY DEF Picked
  <2>3. l \in Nat
    BY <1>1
  <2> HIDE DEF d, l
  <2>4. \A j \in 1 .. l + 1 : j = l + 1 \/ (j \in 1 .. l /\ j # l + 1)
    BY <2>3
  <2>5. h[l + 1] = m /\ \A j \in 1 .. l : h[j] = f[j]
    BY <2>3
  <2>6. h \in [1 .. l + 1 -> K \cap (1 .. m)]
    BY <1>1, <1>3, <2>2, <2>4
  <2> HIDE DEF h
  <2>7. \A j \in 1 .. l + 1 : d[j] = s[h[j]]
    BY <2>1, <2>2, <2>4, <2>5
  <2>8. ASSUME NEW j \in 1 .. l + 1, NEW k \in 1 .. l + 1, j < k
        PROVE  h[j] < h[k]
    <3>1. j \in 1 .. l /\ h[j] = f[j] /\ f[j] \in 1 .. (m - 1)
      BY <2>2, <2>3, <2>5, <2>8
    <3>2. CASE k = l + 1
      BY <1>1, <2>5, <3>1, <3>2
    <3>3. CASE k # l + 1
      BY <2>2, <2>4, <2>5, <2>8, <3>1, <3>3
    <3> QED
      BY <3>2, <3>3
  <2>9. ASSUME NEW i \in K \cap (1 .. m)
        PROVE  \E j \in 1 .. l + 1 : h[j] = i
    <3>1. CASE i = m
      BY <2>3, <2>5, <3>1
    <3>2. CASE i # m
      <4>1. i \in K \cap (1 .. (m - 1))
        BY <1>1, <3>2
      <4>2. PICK j \in 1 .. l : f[j] = i
        BY <2>2, <4>1
      <4> QED
        BY <2>3, <2>5, <4>2
    <3> QED
      BY <3>1, <3>2
  <2>10. Picked(s, K, m, d, h)
    BY <2>1, <2>6, <2>7, <2>8, <2>9 DEF Picked
  <2> QED
    BY <1>3, <2>10 DEF d
<1> QED
  BY <1>2, <1>3

(* The kept entries, and where each of them was.                           *)
LEMMA KeptFacts ==
  ASSUME NEW S, NEW s \in Seq(S), NEW K
  PROVE  Kept(s, K) \in Seq(S) /\ \E f : Picked(s, K, Len(s), Kept(s, K), f)
<1>1. PICK g : TurnsTo(S, s, K, Len(s), g) /\ Kept(s, K) = g[Len(s)]
  BY KeptTurns
<1>2. /\ Len(s) \in Nat /\ g[0] = <<>>
      /\ \A i \in 0 .. Len(s) : g[i] \in Seq(S)
      /\ \A i \in 1 .. Len(s) :
           g[i] = IF i \in K THEN Append(g[i - 1], s[i]) ELSE g[i - 1]
  <2>1. \A i \in 0 .. Len(s) : g[i] = Turn(s, K, g, i) /\ g[i] \in Seq(S)
    BY <1>1 DEF TurnsTo
  <2>2. Turn(s, K, g, 0) = <<>> /\ 0 \in 0 .. Len(s)
    BY DEF Turn
  <2>3. \A i \in 1 .. Len(s) : i \in 0 .. Len(s) /\ i # 0
    OBVIOUS
  <2> QED
    BY <2>1, <2>2, <2>3 DEF Turn
<1> DEFINE Done == {n \in 0 .. Len(s) : \E f : Picked(s, K, n, g[n], f)}
<1>3. 0 \in Done
  <2>1. Picked(s, K, 0, <<>>, <<>>)
    BY DEF Picked
  <2> QED
    BY <1>2, <2>1
<1>4. ASSUME NEW m \in 1 .. Len(s), m - 1 \in Done
      PROVE  m \in Done
  <2>1. m \in 0 .. Len(s) /\ g[m - 1] \in Seq(S)
    BY <1>2
  <2>2. PICK f : Picked(s, K, m - 1, g[m - 1], f)
    BY <1>4
  <2>3. \E h : Picked(s, K, m, g[m], h)
    BY <1>2, <2>1, <2>2, PickedNext
  <2> QED
    BY <2>1, <2>3
<1> HIDE DEF Done
<1>5. \A n \in 0 .. Len(s) : n \in Done
  BY <1>2, <1>3, <1>4, Climb
<1>6. Len(s) \in Done
  BY <1>2, <1>5
<1> QED
  BY <1>1, <1>2, <1>6 DEF Done
=============================================================================
