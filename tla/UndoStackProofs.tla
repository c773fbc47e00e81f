-------------------------- MODULE UndoStackProofs --------------------------
(***************************************************************************)
(* For every capacity, label set and bound: the indices of the undo stack  *)
(* stay within the array, no closure pair that the stack can still run was *)
(* released or is owned twice, whether or not a group's block steps the    *)
(* stack.  And where it does not, no pair is lost, a block that fits is    *)
(* one step, and the application's document is at all times what the edits *)
(* behind the cursor did, in their order.                                  *)
(*                                                                         *)
(* OwnedOnce is not inductive alone: a push could reuse the name of a pair *)
(* already on the stack.  Fresh adds that every pair on the stack was      *)
(* named by an earlier push; GroupInv says what an open block's edits look *)
(* like, so that collapsing them neither loses a pair nor changes what a   *)
(* step runs.                                                              *)
(***************************************************************************)
EXTENDS UndoStack, SweepingProofs, SequenceTheorems

Fresh == \A i \in Live : Boxes(undo_stack[i]) \subseteq 1 .. undo_push_seq

IInv == TypeOK /\ OwnedOnce /\ Fresh

(* The closures of a freshly emptied slot.                                 *)
LEMMA EmptyEditFacts == EmptyEdit \in Edit /\ Boxes(EmptyEdit) = {}
BY DEF EmptyEdit, Edit, Boxes, NoLabel

(* Releasing slots keeps the array an array of edits.                      *)
LEMMA ReleaseType ==
  ASSUME NEW stack \in [Slots -> Edit], NEW S
  PROVE  Release(stack, S) \in [Slots -> Edit]
BY EmptyEditFacts DEF Release

(* Dropping the oldest slot keeps the array an array of edits.             *)
LEMMA ShiftDownType ==
  ASSUME NEW stack \in [Slots -> Edit]
  PROVE  ShiftDown(stack) \in [Slots -> Edit]
BY DEF ShiftDown

(* The array starts empty.                                                 *)
LEMMA InitIInv == Init => IInv
<1> SUFFICES ASSUME Init PROVE IInv
  OBVIOUS
<1>1. TypeOK
  BY EmptyEditFacts, CapAssumption, BoundsAssumption
  DEF Init, TypeOK, NoLabel
<1>2. Live = {}
  BY DEF Init, Live
<1> QED
  BY <1>1, <1>2 DEF IInv, OwnedOnce, Fresh

(* --- a push ---------------------------------------------------------------- *)

(* The array a push leaves under the new edit, where that edit goes, and   *)
(* what is released: in slot i lies what was in From(i).                   *)
Full == undo_cursor >= CAP
TopSlot == IF Full THEN undo_cursor - 1 ELSE undo_cursor
KeptEdits == Release(undo_stack, RedoTail)
Base == IF Full THEN ShiftDown(KeptEdits) ELSE KeptEdits
Gone == BoxesOf(undo_stack, RedoTail) \cup (IF Full THEN Boxes(KeptEdits[0]) ELSE {})
From(i) == IF Full THEN i + 1 ELSE i
NewEdit(label) == [label |-> label, box |-> undo_push_seq + 1, members |-> <<>>]

(* What a push does to the array, below the new edit and at it.            *)
LEMMA PushFacts ==
  ASSUME IInv, NEW label \in Labels, Undoable(label)
  PROVE  /\ TopSlot \in Slots /\ TopSlot \in Nat
         /\ undo_stack' \in [Slots -> Edit]
         /\ undo_len' = TopSlot + 1 /\ undo_cursor' = TopSlot + 1
         /\ undo_push_seq < MaxPushes /\ undo_push_seq' = undo_push_seq + 1
         /\ released' = released \cup Gone
         /\ UNCHANGED groupVars
         /\ Live' = 0 .. TopSlot
         /\ undo_stack'[TopSlot] = NewEdit(label)
         /\ Boxes(NewEdit(label)) = {undo_push_seq + 1}
         /\ \A i \in 0 .. TopSlot - 1 :
              /\ From(i) \in Live /\ From(i) < undo_cursor /\ From(i) \notin RedoTail
              /\ undo_stack'[i] = undo_stack[From(i)]
<1>1. /\ undo_stack' = [Base EXCEPT ![TopSlot] = NewEdit(label)]
      /\ undo_len' = TopSlot + 1
      /\ undo_cursor' = TopSlot + 1
      /\ undo_push_seq' = undo_push_seq + 1
      /\ undo_push_seq < MaxPushes
      /\ released' = released \cup Gone
      /\ UNCHANGED groupVars
  BY DEF Undoable, Full, TopSlot, KeptEdits, Base, Gone, NewEdit
<1>2. /\ undo_stack \in [Slots -> Edit]
      /\ undo_len \in 0 .. CAP
      /\ undo_cursor \in 0 .. undo_len
      /\ undo_push_seq \in 0 .. MaxPushes
      /\ CAP \in Nat \ {0}
      /\ MaxPushes \in Nat
  BY CapAssumption, BoundsAssumption DEF IInv, TypeOK
<1>3. Base \in [Slots -> Edit]
  BY <1>2, ReleaseType, ShiftDownType DEF Base, KeptEdits
<1>4. TopSlot \in Slots /\ TopSlot \in Nat
  BY <1>2 DEF Slots, TopSlot, Full
<1>5. NewEdit(label) \in Edit /\ Boxes(NewEdit(label)) = {undo_push_seq + 1}
  BY <1>2 DEF Edit, Boxes, NewEdit
<1>6. ASSUME NEW i \in 0 .. TopSlot - 1
      PROVE  /\ From(i) \in Live /\ From(i) < undo_cursor /\ From(i) \notin RedoTail
             /\ Base[i] = undo_stack[From(i)]
  <2>1. /\ From(i) \in Live /\ From(i) < undo_cursor
        /\ i \in Slots /\ From(i) \in Slots /\ From(i) \notin RedoTail
    BY <1>2 DEF From, TopSlot, Full, Live, RedoTail, Slots
  <2>2. KeptEdits[From(i)] = undo_stack[From(i)]
    BY <2>1 DEF KeptEdits, Release
  <2>3. Base[i] = KeptEdits[From(i)]
    BY <2>1 DEF Base, ShiftDown, From
  <2> QED
    BY <2>1, <2>2, <2>3
<1>7. /\ undo_stack' \in [Slots -> Edit]
      /\ undo_stack'[TopSlot] = NewEdit(label)
      /\ \A i \in 0 .. TopSlot - 1 : undo_stack'[i] = Base[i]
  BY <1>1, <1>2, <1>3, <1>4, <1>5 DEF Slots
<1>8. Live' = 0 .. TopSlot
  BY <1>1, <1>4 DEF Live
<1> QED
  BY <1>1, <1>4, <1>5, <1>6, <1>7, <1>8

(* What a push releases was owned by live edits, and by no edit that stays.*)
LEMMA GoneFacts ==
  ASSUME IInv
  PROVE  /\ Gone = BoxesOf(undo_stack, RedoTail \cup IF Full THEN {0} ELSE {})
         /\ RedoTail \subseteq Live
         /\ Full => 0 \in Live
         /\ Gone \subseteq 1 .. undo_push_seq
<1>1. /\ undo_len \in 0 .. CAP
      /\ undo_cursor \in 0 .. undo_len
      /\ CAP \in Nat \ {0}
  BY CapAssumption DEF IInv, TypeOK
<1>2. RedoTail \subseteq Live /\ (Full => 0 \in Live /\ KeptEdits[0] = undo_stack[0])
  BY <1>1 DEF RedoTail, Live, Full, KeptEdits, Release, Slots
<1>3. Gone = BoxesOf(undo_stack, RedoTail \cup IF Full THEN {0} ELSE {})
  BY <1>2 DEF Gone, BoxesOf
<1>4. \A i \in Live : Boxes(undo_stack[i]) \subseteq 1 .. undo_push_seq
  BY DEF IInv, Fresh
<1>5. Gone \subseteq 1 .. undo_push_seq
  BY <1>2, <1>3, <1>4 DEF BoxesOf
<1> QED
  BY <1>2, <1>3, <1>5

(* An edit that stays under the new one keeps owning what it owned.        *)
LEMMA StayingFacts ==
  ASSUME IInv, NEW label \in Labels, Undoable(label), NEW i \in 0 .. TopSlot - 1
  PROVE  /\ Boxes(undo_stack'[i]) \subseteq 1 .. undo_push_seq
         /\ Boxes(undo_stack'[i]) \cap released = {}
         /\ Boxes(undo_stack'[i]) \cap Gone = {}
<1>1. /\ undo_stack'[i] = undo_stack[From(i)] /\ From(i) \in Live
      /\ From(i) \notin RedoTail /\ (Full => From(i) # 0)
  BY PushFacts DEF From
<1>2. /\ Boxes(undo_stack[From(i)]) \subseteq 1 .. undo_push_seq
      /\ Boxes(undo_stack[From(i)]) \cap released = {}
  BY <1>1 DEF IInv, Fresh, OwnedOnce
<1>3. \A j \in Live : j # From(i) =>
        Boxes(undo_stack[From(i)]) \cap Boxes(undo_stack[j]) = {}
  BY <1>1 DEF IInv, OwnedOnce
<1>4. Boxes(undo_stack[From(i)]) \cap Gone = {}
  BY <1>1, <1>3, GoneFacts DEF BoxesOf
<1> QED
  BY <1>1, <1>2, <1>4

(* A push: the redo tail and, on a full stack, the oldest edit go, and the *)
(* new edit is the only owner of its fresh pair.                           *)
LEMMA UndoableIInv ==
  ASSUME IInv, NEW label \in Labels, Undoable(label)
  PROVE  IInv'
<1> DEFINE at == TopSlot
           id == undo_push_seq + 1
<1>1. /\ at \in Slots /\ at \in Nat
      /\ undo_stack' \in [Slots -> Edit]
      /\ undo_len' = at + 1 /\ undo_cursor' = at + 1
      /\ undo_push_seq < MaxPushes /\ undo_push_seq' = id
      /\ released' = released \cup Gone
      /\ UNCHANGED groupVars
      /\ Live' = 0 .. at
      /\ Boxes(undo_stack'[at]) = {id}
      /\ \A i \in 0 .. at - 1 : From(i) \in Live /\ undo_stack'[i] = undo_stack[From(i)]
  BY PushFacts
<1>2. /\ undo_push_seq \in 0 .. MaxPushes
      /\ released \subseteq 1 .. undo_push_seq
      /\ Gone \subseteq 1 .. undo_push_seq
      /\ CAP \in Nat \ {0}
      /\ MaxPushes \in Nat
  BY CapAssumption, BoundsAssumption, GoneFacts DEF IInv, TypeOK
<1>3. \A i \in 0 .. at - 1 : /\ Boxes(undo_stack'[i]) \subseteq 1 .. undo_push_seq
                             /\ Boxes(undo_stack'[i]) \cap released' = {}
  BY <1>1, StayingFacts
<1>4. \A i \in 0 .. at : i = at \/ i \in 0 .. at - 1
  BY <1>1
<1>5. TypeOK'
  <2>1. undo_len' \in 0 .. CAP /\ undo_cursor' \in 0 .. undo_len'
    BY <1>1, <1>2 DEF Slots
  <2>2. undo_push_seq' \in 0 .. MaxPushes /\ released' \subseteq 1 .. undo_push_seq'
    BY <1>1, <1>2
  <2>3. /\ undo_group_depth' \in 0 .. MaxDepth
        /\ undo_group_start' \in 0 .. CAP
        /\ undo_group_label' \in Labels \cup {NoLabel}
        /\ undo_group_seq0' \in 0 .. undo_push_seq'
    BY <1>1, <1>2 DEF IInv, TypeOK, groupVars
  <2> QED
    BY <1>1, <2>1, <2>2, <2>3 DEF TypeOK
<1>6. Fresh'
  <2> SUFFICES ASSUME NEW i \in 0 .. at
               PROVE  Boxes(undo_stack'[i]) \subseteq 1 .. undo_push_seq'
    BY <1>1 DEF Fresh, Boxes
  <2> QED
    BY <1>1, <1>2, <1>3, <1>4
<1>7. OwnedOnce'
  <2>1. \A i \in 0 .. at : Boxes(undo_stack'[i]) \cap released' = {}
    BY <1>1, <1>2, <1>3, <1>4
  <2>2. \A i, j \in 0 .. at - 1 :
          i # j => Boxes(undo_stack'[i]) \cap Boxes(undo_stack'[j]) = {}
    <3>1. \A i, j \in Live : i # j => Boxes(undo_stack[i]) \cap Boxes(undo_stack[j]) = {}
      BY DEF IInv, OwnedOnce
    <3>2. \A i, j \in 0 .. at - 1 : i # j => From(i) # From(j)
      BY DEF From
    <3> QED
      BY <1>1, <3>1, <3>2
  <2>3. \A i \in 0 .. at - 1 : id \notin Boxes(undo_stack'[i])
    BY <1>2, <1>3
  <2>4. \A i, j \in 0 .. at :
          i # j => Boxes(undo_stack'[i]) \cap Boxes(undo_stack'[j]) = {}
    <3>1. \A i \in 0 .. at - 1 : /\ Boxes(undo_stack'[i]) \cap Boxes(undo_stack'[at]) = {}
                                 /\ Boxes(undo_stack'[at]) \cap Boxes(undo_stack'[i]) = {}
      BY <1>1, <2>3
    <3> QED
      BY <1>4, <2>2, <3>1, Zenon
  <2> QED
    BY <1>1, <2>1, <2>4 DEF OwnedOnce, Boxes
<1> QED
  BY <1>5, <1>6, <1>7 DEF IInv

(* A step after which every live slot owns what it owned keeps ownership.  *)
LEMMA SameOwners ==
  ASSUME OwnedOnce, Fresh, UNCHANGED <<released, undo_push_seq>>, Live' = Live,
         \A i \in Live : Boxes(undo_stack'[i]) = Boxes(undo_stack[i])
  PROVE  OwnedOnce' /\ Fresh'
<1>1. \A i \in Live : Boxes(undo_stack'[i]) \cap released' = {}
  BY DEF OwnedOnce
<1>2. \A i, j \in Live :
        i # j => Boxes(undo_stack'[i]) \cap Boxes(undo_stack'[j]) = {}
  BY DEF OwnedOnce
<1>3. \A i \in Live : Boxes(undo_stack'[i]) \subseteq 1 .. undo_push_seq'
  BY DEF Fresh
<1> QED
  BY <1>1, <1>2, <1>3 DEF OwnedOnce, Fresh, Boxes

(* A step moves the cursor and nothing else the invariant speaks of.       *)
LEMMA StepIInv ==
  ASSUME IInv, Undo \/ Redo
  PROVE  IInv'
<1>1. /\ undo_cursor' \in 0 .. undo_len
      /\ UNCHANGED <<undo_stack, undo_len, undo_push_seq, released, groupVars>>
  BY DEF IInv, TypeOK, Undo, Redo, CanRedo
<1>2. TypeOK'
  BY <1>1 DEF IInv, TypeOK, groupVars
<1> QED
  BY <1>1, <1>2, SameOwners DEF IInv, Live

(* Opening a group records where it starts.                                *)
LEMMA GroupBeginIInv ==
  ASSUME IInv, NEW label \in Labels, GroupBegin(label)
  PROVE  IInv'
<1>1. UNCHANGED stackVars
  BY DEF GroupBegin
<1>2. TypeOK'
  BY <1>1, BoundsAssumption, CapAssumption
  DEF IInv, TypeOK, GroupBegin, OutermostBegin, stackVars
<1> QED
  BY <1>1, <1>2, SameOwners DEF IInv, Live, stackVars

(* A group entry owns the boxes of the slots it absorbs and nothing else.  *)
LEMMA CollapsedFacts ==
  ASSUME IInv, GroupSpan > 1
  PROVE  /\ Collapsed \in [Slots -> Edit]
         /\ \A i \in 0 .. undo_group_start - 1 : Collapsed[i] = undo_stack[i]
         /\ \A b \in Boxes(Collapsed[undo_group_start]) :
              \E j \in undo_group_start .. undo_len - 1 :
                b \in Boxes(undo_stack[j])
<1> DEFINE s == undo_group_start
<1>1. /\ undo_stack \in [Slots -> Edit]
      /\ undo_len \in 0 .. CAP
      /\ s \in 0 .. CAP
      /\ CAP \in Nat \ {0}
      /\ undo_group_label \in Labels \cup {NoLabel}
      /\ GroupSpan = undo_len - s /\ GroupSpan \in Nat
  BY CapAssumption DEF IInv, TypeOK, GroupSpan
<1>2. \A k \in 1 .. GroupSpan :
        /\ s + k - 1 \in s .. undo_len - 1
        /\ s + k - 1 \in Slots
        /\ undo_stack[s + k - 1].box \in Nat
  BY <1>1 DEF Slots, Edit
<1>3. [k \in 1 .. GroupSpan |-> undo_stack[s + k - 1].box] \in Seq(Nat)
  BY <1>1, <1>2
<1>4. GroupEntry \in Edit
  BY <1>1, <1>3 DEF GroupEntry, Edit
<1>5. s \in Slots /\ s \in s .. undo_len - 1
  BY <1>1 DEF Slots
<1>6. Collapsed[s] = GroupEntry
  BY <1>5 DEF Collapsed
<1>7. \A i \in Slots : Moved(undo_stack[i]) \in Edit
  BY <1>1 DEF Moved, Edit
<1>8. Collapsed \in [Slots -> Edit]
  BY <1>1, <1>4, <1>7 DEF Collapsed
<1>9. \A i \in 0 .. s - 1 : Collapsed[i] = undo_stack[i]
  BY <1>1 DEF Collapsed, Slots
<1>10. \A b \in Boxes(GroupEntry) : \E j \in s .. undo_len - 1 :
         b \in Boxes(undo_stack[j])
  <2> SUFFICES ASSUME NEW b \in Boxes(GroupEntry)
               PROVE  \E j \in s .. undo_len - 1 : b \in Boxes(undo_stack[j])
    OBVIOUS
  <2>1. PICK k \in 1 .. GroupSpan : b = undo_stack[s + k - 1].box /\ b # 0
    BY DEF Boxes, GroupEntry
  <2>2. b \in Boxes(undo_stack[s + k - 1])
    BY <2>1 DEF Boxes
  <2> QED
    BY <1>2, <2>2
<1> QED
  BY <1>6, <1>8, <1>9, <1>10

(* Closing the outermost group, collapse included.                         *)
LEMMA CloseGroupIInv ==
  ASSUME IInv, undo_group_depth' \in 0 .. MaxDepth, CloseGroup,
         UNCHANGED <<undo_group_start, undo_group_label, undo_group_seq0,
                     undo_push_seq, released>>
  PROVE  IInv'
<1>1. /\ undo_stack \in [Slots -> Edit]
      /\ undo_len \in 0 .. CAP
      /\ undo_cursor \in 0 .. undo_len
      /\ undo_group_start \in 0 .. CAP
      /\ CAP \in Nat \ {0}
  BY CapAssumption DEF IInv, TypeOK
<1>2. CASE UNCHANGED <<undo_stack, undo_len, undo_cursor>>
  <2>1. TypeOK'
    BY <1>2 DEF IInv, TypeOK
  <2> QED
    BY <1>2, <2>1, SameOwners DEF IInv, Live
<1>3. CASE /\ GroupSpan = 1
           /\ undo_stack' = [undo_stack EXCEPT ![undo_group_start] = Relabelled(@)]
           /\ undo_cursor' = undo_len
           /\ UNCHANGED undo_len
  <2>1. undo_group_start \in Slots
    BY <1>1, <1>3 DEF GroupSpan, Slots
  <2>2. /\ Relabelled(undo_stack[undo_group_start]) \in Edit
        /\ Boxes(Relabelled(undo_stack[undo_group_start])) =
             Boxes(undo_stack[undo_group_start])
    BY <1>1, <2>1 DEF Relabelled, Edit, IInv, TypeOK, Boxes
  <2>3. undo_stack' \in [Slots -> Edit]
    BY <1>1, <1>3, <2>2
  <2>4. \A i \in Slots : Boxes(undo_stack'[i]) = Boxes(undo_stack[i])
    BY <1>1, <1>3, <2>1, <2>2
  <2>5. Live' = Live /\ Live \subseteq Slots
    BY <1>1, <1>3 DEF Live, Slots
  <2>6. TypeOK'
    BY <1>1, <1>3, <2>3 DEF IInv, TypeOK
  <2> QED
    BY <2>4, <2>5, <2>6, SameOwners DEF IInv
<1>4. CASE /\ GroupSpan > 1
           /\ undo_stack' = Collapsed
           /\ undo_len' = undo_group_start + 1
           /\ undo_cursor' = undo_group_start + 1
  <2> DEFINE s == undo_group_start
  <2>1. /\ undo_stack' \in [Slots -> Edit]
        /\ \A i \in 0 .. s - 1 : undo_stack'[i] = undo_stack[i]
        /\ \A b \in Boxes(undo_stack'[s]) : \E j \in s .. undo_len - 1 :
             b \in Boxes(undo_stack[j])
    BY <1>4, CollapsedFacts
  <2>2. Live' = 0 .. s /\ s .. undo_len - 1 \subseteq Live
        /\ 0 .. s - 1 \subseteq Live
    BY <1>1, <1>4 DEF Live, GroupSpan
  <2>3. TypeOK'
    BY <1>1, <1>4, <2>1 DEF IInv, TypeOK, GroupSpan
  <2>4. \A i \in 0 .. s : i = s \/ i \in 0 .. s - 1
    BY <1>1
  <2>5. Fresh'
    <3>1. \A i \in Live : Boxes(undo_stack[i]) \subseteq 1 .. undo_push_seq
      BY DEF IInv, Fresh
    <3>2. Boxes(undo_stack'[s]) \subseteq 1 .. undo_push_seq
      BY <2>1, <2>2, <3>1
    <3>3. \A i \in 0 .. s - 1 : Boxes(undo_stack'[i]) \subseteq 1 .. undo_push_seq
      BY <2>1, <2>2, <3>1
    <3> QED
      BY <2>2, <2>4, <3>2, <3>3 DEF Fresh, Boxes
  <2>6. OwnedOnce'
    <3>1. \A i \in Live : Boxes(undo_stack[i]) \cap released = {}
      BY DEF IInv, OwnedOnce
    <3>2. \A i, j \in Live :
            i # j => Boxes(undo_stack[i]) \cap Boxes(undo_stack[j]) = {}
      BY DEF IInv, OwnedOnce
    <3>3. \A i \in 0 .. s : Boxes(undo_stack'[i]) \cap released = {}
      BY <2>1, <2>2, <2>4, <3>1
    <3>4. \A i \in 0 .. s - 1 : Boxes(undo_stack'[i]) \cap Boxes(undo_stack'[s]) = {}
      <4> SUFFICES ASSUME NEW i \in 0 .. s - 1, NEW b,
                          b \in Boxes(undo_stack'[i]), b \in Boxes(undo_stack'[s])
                   PROVE  FALSE
        OBVIOUS
      <4>1. PICK j \in s .. undo_len - 1 : b \in Boxes(undo_stack[j])
        BY <2>1
      <4>2. i \in Live /\ j \in Live /\ i # j
        BY <1>1, <2>2
      <4> QED
        BY <2>1, <3>2, <4>1, <4>2
    <3>5. \A i, j \in 0 .. s - 1 :
            i # j => Boxes(undo_stack'[i]) \cap Boxes(undo_stack'[j]) = {}
      BY <2>1, <2>2, <3>2
    <3>6. \A i, j \in 0 .. s :
            i # j => Boxes(undo_stack'[i]) \cap Boxes(undo_stack'[j]) = {}
      BY <2>4, <3>4, <3>5
    <3> QED
      BY <2>2, <3>3, <3>6 DEF OwnedOnce, Boxes
  <2> QED
    BY <2>3, <2>5, <2>6 DEF IInv
<1> QED
  BY <1>2, <1>3, <1>4 DEF CloseGroup

(* Ending a group, at any depth, with or without memory for the entry.     *)
LEMMA GroupEndIInv ==
  ASSUME IInv, GroupEnd \/ GroupEndNoMemory
  PROVE  IInv'
<1>1. /\ undo_group_depth' \in 0 .. MaxDepth
      /\ UNCHANGED <<undo_group_start, undo_group_label, undo_group_seq0,
                     undo_push_seq, released>>
  BY BoundsAssumption
  DEF IInv, TypeOK, GroupEnd, GroupEndNoMemory, stackVars
<1>2. CASE CloseGroup
  BY <1>1, <1>2, CloseGroupIInv
<1>3. CASE UNCHANGED <<undo_stack, undo_len, undo_cursor>>
  <2>1. TypeOK'
    BY <1>1, <1>3 DEF IInv, TypeOK
  <2> QED
    BY <1>1, <1>3, <2>1, SameOwners DEF IInv, Live
<1> QED
  BY <1>2, <1>3 DEF GroupEnd, GroupEndNoMemory, stackVars

(* Every step of the stack keeps the inductive invariant.                  *)
LEMMA NextIInv == IInv /\ [Next]_vars => IInv'
<1> SUFFICES ASSUME IInv, [Next]_vars PROVE IInv'
  OBVIOUS
<1>1. CASE Next
  BY <1>1, UndoableIInv, StepIInv, GroupBeginIInv, GroupEndIInv DEF Next
<1>2. CASE UNCHANGED vars
  <2>1. TypeOK'
    BY <1>2 DEF vars, stackVars, groupVars, IInv, TypeOK
  <2> QED
    BY <1>2, <2>1, SameOwners DEF IInv, Live, vars, stackVars
<1> QED
  BY <1>1, <1>2

(* The indices of the stack never leave the array, in every execution.     *)
THEOREM TypeCorrect == Spec => []TypeOK
<1>1. IInv => TypeOK
  BY DEF IInv
<1> QED
  BY InitIInv, NextIInv, <1>1, PTL DEF Spec

(* An edit that undo or redo can still reach never owns a released closure *)
(* pair, nor one that another edit owns: neither truncation, the drop of   *)
(* the oldest edit nor a collapse leaves a dangling or doubled owner.      *)
THEOREM ClosuresOwnedOnce == Spec => []OwnedOnce
<1>1. IInv => OwnedOnce
  BY DEF IInv
<1> QED
  BY InitIInv, NextIInv, <1>1, PTL DEF Spec

(* --- groups, and what no step leaks ---------------------------------------- *)

(* While a block is open and does not step the stack itself, its edits are *)
(* the top of the stack: none is behind the cursor, none is a collapsed    *)
(* group, and as long as the block fits the array they lie in the order of *)
(* the pushes, from the slot the group began at.                           *)
GroupInv ==
  undo_group_depth > 0 =>
    /\ opened = undo_group_seq0
    /\ undo_push_seq = opened => undo_cursor = undo_group_start
    /\ undo_push_seq # opened =>
         /\ undo_cursor = undo_len
         /\ \A i \in undo_group_start .. undo_len - 1 : undo_stack[i].members = <<>>
         /\ undo_group_start + GroupPushes <= CAP =>
              /\ undo_len = undo_group_start + GroupPushes
              /\ \A k \in 1 .. GroupPushes :
                   undo_stack[undo_group_start + k - 1].box = opened + k

(* A push inside a block lands on top of the block's edits.                *)
LEMMA UndoableGroupInv ==
  ASSUME IInv, GroupInv, NEW label \in Labels, Undoable(label)
  PROVE  GroupInv'
<1> SUFFICES ASSUME undo_group_depth > 0 PROVE GroupInv'
  BY PushFacts DEF GroupInv, groupVars
<1> DEFINE s == undo_group_start
           n == GroupPushes
<1>1. /\ undo_group_start \in Nat /\ undo_push_seq \in Nat /\ CAP \in Nat
      /\ undo_cursor \in Nat /\ undo_len \in Nat
      /\ opened = undo_group_seq0 /\ opened \in 0 .. undo_push_seq
      /\ undo_push_seq = opened => undo_cursor = s
      /\ undo_push_seq # opened =>
           /\ undo_cursor = undo_len
           /\ \A i \in s .. undo_len - 1 : undo_stack[i].members = <<>>
           /\ s + n <= CAP =>
                /\ undo_len = s + n
                /\ \A k \in 1 .. n : undo_stack[s + k - 1].box = opened + k
  BY CapAssumption, BoundsAssumption DEF IInv, TypeOK, GroupInv
<1>2. /\ TopSlot \in Nat
      /\ undo_len' = TopSlot + 1 /\ undo_cursor' = TopSlot + 1
      /\ undo_push_seq' = undo_push_seq + 1
      /\ UNCHANGED <<undo_group_start, undo_group_seq0, opened>>
      /\ undo_stack'[TopSlot] = NewEdit(label)
      /\ \A i \in 0 .. TopSlot - 1 :
           /\ From(i) \in Live /\ From(i) < undo_cursor
           /\ undo_stack'[i] = undo_stack[From(i)]
  BY PushFacts DEF groupVars
<1>3. GroupPushes' = n + 1 /\ n \in Nat /\ (n = 0 <=> undo_push_seq = opened)
  BY <1>1, <1>2 DEF GroupPushes
<1>4. ASSUME NEW i \in s .. TopSlot
      PROVE  undo_stack'[i].members = <<>>
  <2>1. CASE i = TopSlot
    BY <1>2, <2>1 DEF NewEdit
  <2>2. CASE i # TopSlot
    <3>0. i \in 0 .. TopSlot - 1 /\ i >= s /\ (From(i) = i \/ From(i) = i + 1)
      BY <1>1, <1>2, <2>2 DEF From
    <3>1. i \in 0 .. TopSlot - 1 /\ From(i) \in s .. undo_len - 1
      <4>1. From(i) \in 0 .. undo_len - 1
        BY <1>2, <3>0 DEF Live
      <4> QED
        BY <1>1, <3>0, <4>1
    <3>2. undo_push_seq # opened
      BY <1>1, <1>2, <3>1
    <3> QED
      BY <1>1, <1>2, <3>1, <3>2
  <2> QED
    BY <2>1, <2>2
<1>5. ASSUME s + n + 1 <= CAP
      PROVE  /\ TopSlot = s + n
             /\ \A k \in 1 .. n + 1 : undo_stack'[s + k - 1].box = opened + k
  <2>1. ~Full /\ TopSlot = s + n
    BY <1>1, <1>3, <1>5 DEF Full, TopSlot
  <2>2. undo_stack'[s + n].box = opened + (n + 1)
    BY <1>1, <1>2, <2>1 DEF NewEdit, GroupPushes
  <2>3. ASSUME NEW k \in 1 .. n
        PROVE  undo_stack'[s + k - 1].box = opened + k
    <3>1. s + k - 1 \in 0 .. TopSlot - 1 /\ undo_push_seq # opened /\ s + n <= CAP
      BY <1>1, <1>3, <1>5, <2>1
    <3>2. undo_stack'[s + k - 1] = undo_stack[s + k - 1]
      BY <1>2, <2>1, <3>1 DEF From
    <3> QED
      BY <1>1, <3>1, <3>2
  <2>4. \A k \in 1 .. n + 1 : k \in 1 .. n \/ (k = n + 1 /\ s + k - 1 = s + n)
    BY <1>1, <1>3
  <2>5. \A k \in 1 .. n + 1 : undo_stack'[s + k - 1].box = opened + k
    BY <2>2, <2>3, <2>4
  <2> QED
    BY <2>1, <2>5
<1> QED
  BY <1>1, <1>2, <1>3, <1>4, <1>5 DEF GroupInv, GroupPushes

(* Every step keeps the shape of an open block, the stack's own undo and   *)
(* redo being kept out of it.                                              *)
LEMMA NextGroupInv ==
  ASSUME ~StepInGroup, IInv, GroupInv, [Next]_vars
  PROVE  GroupInv'
<1>1. CASE \E label \in Labels : Undoable(label)
  BY <1>1, UndoableGroupInv
<1>2. CASE \E label \in Labels : GroupBegin(label)
  BY <1>2 DEF GroupBegin, OutermostBegin, GroupInv, GroupPushes, stackVars, IInv, TypeOK
<1>3. CASE Undo \/ Redo
  BY <1>3 DEF Undo, Redo, MayStep, GroupInv, groupVars
<1>4. CASE GroupEnd
  <2>1. undo_group_depth \in Nat
    BY BoundsAssumption DEF IInv, TypeOK
  <2> QED
    BY <1>4, <2>1 DEF GroupEnd, GroupInv, GroupPushes
<1>5. CASE GroupEndNoMemory
  BY <1>5 DEF GroupEndNoMemory, GroupInv
<1>6. CASE UNCHANGED vars
  BY <1>6 DEF vars, stackVars, groupVars, GroupInv, GroupPushes
<1> QED
  BY <1>1, <1>2, <1>3, <1>4, <1>5, <1>6 DEF Next

(* The slots a closing block collapses into one hold plain edits, and the  *)
(* entry that takes them over owns exactly what they owned.                *)
LEMMA CollapseLosesNothing ==
  ASSUME IInv, GroupSpan > 1,
         \A i \in undo_group_start .. undo_len - 1 : undo_stack[i].members = <<>>
  PROVE  BoxesOf(undo_stack, undo_group_start .. undo_len - 1) = Boxes(GroupEntry)
<1> DEFINE s == undo_group_start
           span == s .. undo_len - 1
<1>1. s \in Nat /\ undo_len \in Nat /\ GroupSpan = undo_len - s
  BY CapAssumption DEF IInv, TypeOK, GroupSpan
<1>2. \A i \in span : Boxes(undo_stack[i]) = {undo_stack[i].box} \ {0}
  BY DEF Boxes
<1>3. Boxes(GroupEntry) = {undo_stack[s + k - 1].box : k \in 1 .. GroupSpan} \ {0}
  BY DEF Boxes, GroupEntry
<1>4. \A i \in span : i - s + 1 \in 1 .. GroupSpan /\ i = s + (i - s + 1) - 1
  BY <1>1
<1>5. \A k \in 1 .. GroupSpan : s + k - 1 \in span
  BY <1>1
<1>6. ASSUME NEW b \in BoxesOf(undo_stack, span)
      PROVE  b \in Boxes(GroupEntry)
  <2>1. PICK i \in span : b = undo_stack[i].box /\ b # 0
    BY <1>2, <1>6 DEF BoxesOf
  <2> QED
    BY <1>3, <1>4, <2>1
<1>7. ASSUME NEW b \in Boxes(GroupEntry)
      PROVE  b \in BoxesOf(undo_stack, span)
  <2>1. PICK k \in 1 .. GroupSpan : b = undo_stack[s + k - 1].box /\ b # 0
    BY <1>3, <1>7
  <2>2. s + k - 1 \in span /\ b \in Boxes(undo_stack[s + k - 1])
    BY <1>2, <1>5, <2>1
  <2> QED
    BY <2>2 DEF BoxesOf
<1> QED
  BY <1>6, <1>7

(* A push releases exactly what the edits it makes unreachable own.        *)
LEMMA UndoableNoLeak ==
  ASSUME IInv, NoLeak, NEW label \in Labels, Undoable(label)
  PROVE  NoLeak'
<1> DEFINE p == undo_push_seq
<1>1. /\ TopSlot \in Nat
      /\ undo_push_seq' = p + 1 /\ p \in Nat
      /\ released' = released \cup Gone
      /\ released \subseteq 1 .. p /\ Gone \subseteq 1 .. p
      /\ Live' = 0 .. TopSlot
      /\ Boxes(undo_stack'[TopSlot]) = {p + 1}
      /\ \A i \in 0 .. TopSlot - 1 : undo_stack'[i] = undo_stack[From(i)]
  BY PushFacts, GoneFacts, BoundsAssumption DEF IInv, TypeOK
<1>2. \A i \in 0 .. TopSlot : i = TopSlot \/ i \in 0 .. TopSlot - 1
  BY <1>1
<1>3. \A i \in 0 .. TopSlot - 1 : Boxes(undo_stack'[i]) \subseteq (1 .. p) \ released'
  BY <1>1, StayingFacts
<1>4. \A j \in Live : \/ j \in RedoTail \cup IF Full THEN {0} ELSE {}
                      \/ \E i \in 0 .. TopSlot - 1 : From(i) = j
  <2> SUFFICES ASSUME NEW j \in Live, j \notin RedoTail, Full => j # 0
               PROVE  \E i \in 0 .. TopSlot - 1 : From(i) = j
    OBVIOUS
  <2>1. j \in 0 .. undo_cursor - 1
    BY CapAssumption DEF Live, RedoTail, IInv, TypeOK
  <2>2. CASE Full
    <3>1. j - 1 \in 0 .. TopSlot - 1 /\ From(j - 1) = j
      BY <2>1, <2>2, CapAssumption DEF From, TopSlot, IInv, TypeOK
    <3> QED
      BY <3>1
  <2>3. CASE ~Full
    BY <2>1, <2>3 DEF From, TopSlot
  <2> QED
    BY <2>2, <2>3
<1>5. ASSUME NEW b \in (1 .. p) \ released'
      PROVE  \E i \in 0 .. TopSlot - 1 : b \in Boxes(undo_stack'[i])
  <2>1. b \in BoxesOf(undo_stack, Live) /\ b \notin Gone
    BY <1>1, <1>5 DEF NoLeak
  <2>2. PICK j \in Live : b \in Boxes(undo_stack[j])
    BY <2>1 DEF BoxesOf
  <2>3. j \notin RedoTail \cup IF Full THEN {0} ELSE {}
    BY <2>1, <2>2, GoneFacts DEF BoxesOf
  <2> QED
    BY <1>1, <1>4, <2>2, <2>3
<1>6. ASSUME NEW b
      PROVE  b \in (1 .. p + 1) \ released' <=>
               \E i \in 0 .. TopSlot : b \in Boxes(undo_stack'[i])
  <2>1. CASE b = p + 1
    BY <1>1, <2>1
  <2>2. CASE b # p + 1
    <3>1. b \in 1 .. p + 1 <=> b \in 1 .. p
      BY <1>1, <2>2
    <3>2. 0 .. TopSlot - 1 \subseteq 0 .. TopSlot
      BY <1>1
    <3> QED
      BY <1>1, <1>2, <1>3, <1>5, <2>2, <3>1, <3>2
  <2> QED
    BY <2>1, <2>2
<1>7. (1 .. p + 1) \ released' = UNION {Boxes(undo_stack'[i]) : i \in 0 .. TopSlot}
  BY <1>6
<1> QED
  BY <1>1, <1>7 DEF NoLeak, BoxesOf, Boxes

(* A step that leaves the live slots owning what they owned leaks nothing. *)
LEMMA SameOwnersNoLeak ==
  ASSUME NoLeak, UNCHANGED <<released, undo_push_seq>>, Live' = Live,
         \A i \in Live : Boxes(undo_stack'[i]) = Boxes(undo_stack[i])
  PROVE  NoLeak'
<1>1. UNION {Boxes(undo_stack'[i]) : i \in Live} = UNION {Boxes(undo_stack[i]) : i \in Live}
  OBVIOUS
<1> QED
  BY <1>1 DEF NoLeak, BoxesOf, Boxes

(* Closing a block moves its boxes into the entry and drops none.          *)
LEMMA CloseGroupNoLeak ==
  ASSUME IInv, GroupInv, NoLeak, undo_group_depth > 0, CloseGroup,
         UNCHANGED <<undo_push_seq, released>>
  PROVE  NoLeak'
<1> DEFINE s == undo_group_start
<1>1. /\ undo_stack \in [Slots -> Edit]
      /\ undo_len \in 0 .. CAP
      /\ s \in 0 .. CAP
      /\ CAP \in Nat \ {0}
  BY CapAssumption DEF IInv, TypeOK
<1>2. CASE UNCHANGED <<undo_stack, undo_len, undo_cursor>>
  BY <1>2, SameOwnersNoLeak DEF Live
<1>3. CASE /\ GroupSpan = 1
           /\ undo_stack' = [undo_stack EXCEPT ![s] = Relabelled(@)]
           /\ UNCHANGED undo_len
  <2>1. s \in Slots /\ Live' = Live /\ Live \subseteq Slots
    BY <1>1, <1>3 DEF GroupSpan, Slots, Live
  <2>2. Boxes(Relabelled(undo_stack[s])) = Boxes(undo_stack[s])
    BY DEF Relabelled, Boxes
  <2>3. \A i \in Slots : Boxes(undo_stack'[i]) = Boxes(undo_stack[i])
    BY <1>1, <1>3, <2>1, <2>2
  <2> QED
    BY <2>1, <2>3, SameOwnersNoLeak
<1>4. CASE /\ undo_push_seq # undo_group_seq0 /\ GroupSpan > 1
           /\ undo_stack' = Collapsed
           /\ undo_len' = s + 1
  <2>1. \A i \in s .. undo_len - 1 : undo_stack[i].members = <<>>
    BY <1>4 DEF GroupInv
  <2>2. BoxesOf(undo_stack, s .. undo_len - 1) = Boxes(undo_stack'[s])
    <3>1. Collapsed[s] = GroupEntry
      BY <1>1, <1>4 DEF Collapsed, GroupSpan, Slots
    <3> QED
      BY <1>4, <2>1, <3>1, CollapseLosesNothing
  <2>3. \A i \in 0 .. s - 1 : undo_stack'[i] = undo_stack[i]
    BY <1>4, CollapsedFacts
  <2>4. Live = (0 .. s - 1) \cup (s .. undo_len - 1) /\ Live' = (0 .. s - 1) \cup {s}
    BY <1>1, <1>4 DEF Live, GroupSpan
  <2>5. BoxesOf(undo_stack, Live) =
          BoxesOf(undo_stack, 0 .. s - 1) \cup BoxesOf(undo_stack, s .. undo_len - 1)
    BY <2>4 DEF BoxesOf
  <2>6. UNION {Boxes(undo_stack'[i]) : i \in Live'} =
          BoxesOf(undo_stack, 0 .. s - 1) \cup Boxes(undo_stack'[s])
    BY <2>3, <2>4 DEF BoxesOf
  <2>7. (1 .. undo_push_seq) \ released = UNION {Boxes(undo_stack'[i]) : i \in Live'}
    BY <2>2, <2>5, <2>6 DEF NoLeak
  <2> QED
    BY <2>7 DEF NoLeak, BoxesOf, Boxes
<1> QED
  BY <1>2, <1>3, <1>4 DEF CloseGroup

(* No step loses a closure pair.                                           *)
LEMMA NextNoLeak ==
  ASSUME IInv, GroupInv, NoLeak, [Next]_vars
  PROVE  NoLeak'
<1>1. CASE \E label \in Labels : Undoable(label)
  BY <1>1, UndoableNoLeak
<1>2. CASE UNCHANGED <<undo_stack, undo_len, undo_push_seq, released>>
  BY <1>2, SameOwnersNoLeak DEF Live
<1>3. CASE GroupEnd
  <2>1. CASE UNCHANGED <<undo_stack, undo_len, undo_cursor>>
    BY <1>3, <2>1, SameOwnersNoLeak DEF Live, GroupEnd
  <2>2. CASE CloseGroup
    BY <1>3, <2>2, CloseGroupNoLeak DEF GroupEnd
  <2> QED
    BY <1>3, <2>1, <2>2 DEF GroupEnd
<1> QED
  BY <1>1, <1>2, <1>3
  DEF Next, Undo, Redo, GroupBegin, GroupEndNoMemory, vars, stackVars

(* The stack starts with no edit, no block and nothing to lose.            *)
LEMMA InitGroupInvNoLeak == Init => GroupInv /\ NoLeak
<1> SUFFICES ASSUME Init PROVE GroupInv /\ NoLeak
  OBVIOUS
<1>1. undo_push_seq = 0 /\ Live = {}
  BY DEF Init, Live
<1>2. 1 .. undo_push_seq = {}
  BY <1>1
<1> QED
  BY <1>1, <1>2 DEF Init, GroupInv, NoLeak, BoxesOf

(* The end of a block that fits the array leaves one undo step on top that *)
(* runs the block's edits in their order.                                  *)
LEMMA EndIsOneStep ==
  ASSUME IInv, GroupInv, OutermostEnd, GroupPushes > 0,
         undo_group_start + GroupPushes <= CAP
  PROVE  IsOneStep
<1> DEFINE s == undo_group_start
           n == GroupPushes
<1>1. /\ undo_stack \in [Slots -> Edit]
      /\ s \in 0 .. CAP /\ CAP \in Nat /\ undo_push_seq \in Nat
      /\ opened = undo_group_seq0 /\ opened \in 0 .. undo_push_seq
  BY CapAssumption, BoundsAssumption DEF IInv, TypeOK, GroupInv, OutermostEnd
<1>2. n \in Nat \ {0} /\ undo_push_seq # opened
  BY <1>1 DEF GroupPushes
<1>3. /\ undo_len = s + n /\ GroupSpan = n
      /\ \A i \in s .. undo_len - 1 : undo_stack[i].members = <<>>
      /\ \A k \in 1 .. n : undo_stack[s + k - 1].box = opened + k
  BY <1>1, <1>2 DEF GroupInv, OutermostEnd, GroupSpan
<1>4. s \in Slots /\ s \in s .. undo_len - 1
  BY <1>1, <1>2, <1>3 DEF Slots
<1>5. CloseGroup
  BY DEF OutermostEnd, GroupEnd
<1>6. CASE n = 1
  <2>1. undo_stack' = [undo_stack EXCEPT ![s] = Relabelled(@)] /\ undo_cursor' = s + 1
    BY <1>1, <1>2, <1>3, <1>5, <1>6 DEF CloseGroup
  <2>2. undo_stack'[s] = Relabelled(undo_stack[s])
    BY <1>1, <1>4, <2>1
  <2>3. undo_stack[s].box = opened + 1 /\ undo_stack[s].members = <<>>
    <3>1. s + 1 - 1 = s /\ 1 \in 1 .. n
      BY <1>1, <1>2
    <3> QED
      BY <1>3, <1>4, <3>1
  <2>4. StepOf(undo_stack'[s]) = <<opened + 1>> /\ undo_stack'[s].label = undo_group_label
    BY <2>2, <2>3 DEF Relabelled, StepOf
  <2>5. <<opened + 1>> = [k \in 1 .. n |-> opened + k]
    BY <1>1, <1>6
  <2>6. undo_cursor' - 1 = s /\ undo_cursor' > 0
    BY <1>1, <2>1
  <2> QED
    BY <2>4, <2>5, <2>6 DEF IsOneStep
<1>7. CASE n > 1
  <2>1. undo_stack' = Collapsed /\ undo_cursor' = s + 1
    BY <1>1, <1>2, <1>3, <1>5, <1>7 DEF CloseGroup
  <2>2. undo_stack'[s] = GroupEntry
    BY <1>4, <2>1 DEF Collapsed
  <2>3. GroupEntry.members = [k \in 1 .. n |-> opened + k]
    BY <1>3 DEF GroupEntry
  <2>4. GroupEntry.members # <<>>
    BY <1>2, <2>3
  <2>5. undo_cursor' - 1 = s /\ undo_cursor' > 0
    BY <1>1, <2>1
  <2>6. GroupEntry.label = undo_group_label
    BY DEF GroupEntry
  <2> QED
    BY <2>2, <2>3, <2>4, <2>5, <2>6 DEF IsOneStep, StepOf
<1> QED
  BY <1>2, <1>6, <1>7

(* As long as a group's block does not itself undo or redo, every closure  *)
(* pair an undoable() made is either released or still owned by an edit on *)
(* the stack.                                                              *)
THEOREM NothingLeaks ==
  ASSUME ~StepInGroup
  PROVE  Spec => []NoLeak
<1> DEFINE Inv == IInv /\ GroupInv /\ NoLeak
<1>1. Init => Inv
  BY InitIInv, InitGroupInvNoLeak
<1>2. Inv /\ [Next]_vars => Inv'
  BY NextIInv, NextGroupInv, NextNoLeak
<1>3. Inv => NoLeak
  OBVIOUS
<1> QED
  BY <1>1, <1>2, <1>3, PTL DEF Spec

(* And the end of the outermost block makes its edits one undo step with   *)
(* its label, whenever the block fits above the edits it found.            *)
THEOREM BlockIsOneUndo ==
  ASSUME ~StepInGroup
  PROVE  Spec => GroupIsOneStep
<1> DEFINE Inv == IInv /\ GroupInv
<1>1. Init => Inv
  BY InitIInv, InitGroupInvNoLeak
<1>2. Inv /\ [Next]_vars => Inv'
  BY NextIInv, NextGroupInv
<1>3. Inv /\ [Next]_vars =>
        [OutermostEnd /\ GroupPushes > 0 /\ undo_group_start + GroupPushes <= CAP
           => IsOneStep]_vars
  BY EndIsOneStep
<1> QED
  BY <1>1, <1>2, <1>3, PTL DEF Spec, GroupIsOneStep

(* --- the closures of one step, run one after another ----------------------- *)

(* The document after each of the closures of a list, one at a time.       *)
Run(way, d, m) == IF way = "redo" THEN RunDo(d, m) ELSE RunUndo(d, m)
RunsTo(way, d, s, g) ==
  /\ g[0] = d
  /\ \A k \in 1 .. Len(s) : g[k] = Run(way, g[k - 1], s[k])

(* The library folds over sets of places, the greatest place last.         *)
FoldTurn(way, d, s, f, S) ==
  IF S = {} THEN d ELSE Run(way, f[S \ {Max(S)}], s[Max(S)])
FoldsTo(way, d, s, n, f) ==
  f = [S \in SUBSET (1 .. n) |-> FoldTurn(way, d, s, f, S)]

(* The last place of a list is the greatest.                               *)
LEMMA GreatestPlace ==
  ASSUME NEW n \in Nat, NEW S \in SUBSET (1 .. n), n \in S
  PROVE  Max(S) = n
<1>1. \A y \in S : n >= y
  OBVIOUS
<1>2. \A x \in S : (\A y \in S : x >= y) => x = n
  BY <1>1
<1> QED
  BY <1>1, <1>2 DEF Max

(* One more closure of a step.                                             *)
LEMMA FoldTaken ==
  ASSUME NEW way, NEW d, NEW s, NEW n \in Nat \ {0}, NEW f,
         FoldsTo(way, d, s, n - 1, f)
  PROVE  \E h : FoldsTo(way, d, s, n, h)
<1> DEFINE last(S) == Run(way, f[S \ {n}], s[n])
           h == [S \in SUBSET (1 .. n) |-> IF n \in S THEN last(S) ELSE f[S]]
<1>1. \A S \in SUBSET (1 .. n) :
        S \ {n} \in SUBSET (1 .. n - 1) /\ (n \notin S => S \in SUBSET (1 .. n - 1))
  OBVIOUS
<1>2. \A S \in SUBSET (1 .. n - 1) : S \in SUBSET (1 .. n) /\ n \notin S
  OBVIOUS
<1>3. \A S \in SUBSET (1 .. n - 1) : h[S] = f[S] /\ f[S] = FoldTurn(way, d, s, f, S)
  BY <1>2 DEF FoldsTo
<1>4. \A S \in SUBSET (1 .. n) : h[S] = IF n \in S THEN last(S) ELSE f[S]
  OBVIOUS
<1>5. h = [S \in SUBSET (1 .. n) |-> h[S]]
  OBVIOUS
<1> HIDE DEF h
<1>6. ASSUME NEW S \in SUBSET (1 .. n)
      PROVE  h[S] = FoldTurn(way, d, s, h, S)
  <2>1. CASE n \in S
    <3>1. Max(S) = n /\ S # {}
      BY <2>1, GreatestPlace
    <3>2. h[S \ {n}] = f[S \ {n}]
      BY <1>1, <1>3
    <3> QED
      BY <1>4, <2>1, <3>1, <3>2 DEF FoldTurn
  <2>2. CASE n \notin S
    <3>1. h[S] = FoldTurn(way, d, s, f, S) /\ S \ {Max(S)} \in SUBSET (1 .. n - 1)
      BY <1>1, <1>3, <2>2
    <3>2. h[S \ {Max(S)}] = f[S \ {Max(S)}]
      BY <1>3, <3>1
    <3> QED
      BY <3>1, <3>2 DEF FoldTurn
  <2> QED
    BY <2>1, <2>2
<1>7. [S \in SUBSET (1 .. n) |-> h[S]]
        = [S \in SUBSET (1 .. n) |-> FoldTurn(way, d, s, h, S)]
  BY <1>6
<1> QED
  BY <1>5, <1>7 DEF FoldsTo

(* A step of any length runs to its end.                                   *)
LEMMA FoldExists ==
  ASSUME NEW way, NEW d, NEW s, NEW n \in Nat
  PROVE  \E f : FoldsTo(way, d, s, n, f)
<1> DEFINE Taken == {m \in 0 .. n : \E f : FoldsTo(way, d, s, m, f)}
<1>1. 0 \in Taken
  <2>1. FoldsTo(way, d, s, 0, [S \in SUBSET (1 .. 0) |-> d])
    BY DEF FoldsTo, FoldTurn
  <2> QED
    BY <2>1
<1>2. ASSUME NEW m \in 1 .. n, m - 1 \in Taken
      PROVE  m \in Taken
  BY <1>2, FoldTaken
<1> HIDE DEF Taken
<1>3. \A m \in 0 .. n : m \in Taken
  BY <1>1, <1>2, Climb
<1> QED
  BY <1>3 DEF Taken

(* A fold is the closures one after another.                               *)
LEMMA FoldRuns ==
  ASSUME NEW way, NEW d, NEW s, NEW n \in Nat, n = Len(s), NEW f,
         FoldsTo(way, d, s, n, f)
  PROVE  \E g : RunsTo(way, d, s, g) /\ f[1 .. n] = g[n]
<1> DEFINE g == [k \in 0 .. n |-> f[1 .. k]]
<1>1. \A k \in 0 .. n : 1 .. k \in SUBSET (1 .. n)
  OBVIOUS
<1>2. \A k \in 0 .. n : g[k] = FoldTurn(way, d, s, f, 1 .. k)
  BY <1>1 DEF FoldsTo
<1> HIDE DEF g
<1>3. g[0] = d
  <2>1. 0 \in 0 .. n /\ 1 .. 0 = {}
    OBVIOUS
  <2> QED
    BY <1>2, <2>1 DEF FoldTurn
<1>4. ASSUME NEW k \in 1 .. n
      PROVE  g[k] = Run(way, g[k - 1], s[k])
  <2>0. k \in Nat /\ k >= 1 /\ k \in 0 .. n /\ k - 1 \in 0 .. n
    OBVIOUS
  <2>1. k \in 1 .. k
    BY ONLY <2>0
  <2>2. (1 .. k) \ {k} = 1 .. (k - 1)
    BY ONLY <2>0
  <2>3. Max(1 .. k) = k
    BY <2>0, <2>1, GreatestPlace
  <2>4. f[(1 .. k) \ {k}] = g[k - 1]
    BY <2>0, <2>2 DEF g
  <2>5. g[k] = Run(way, f[(1 .. k) \ {k}], s[k])
    BY ONLY <1>2, <2>0, <2>1, <2>3 DEF FoldTurn
  <2> QED
    BY <2>4, <2>5
<1>5. f[1 .. n] = g[n] /\ 1 .. Len(s) = 1 .. n
  BY DEF g
<1> QED
  BY <1>3, <1>4, <1>5 DEF RunsTo

(* The library's fold is the closures run one after another.               *)
LEMMA FoldLeftRuns ==
  ASSUME NEW d, NEW s \in Seq(Int)
  PROVE  /\ \E g : RunsTo("redo", d, s, g) /\ FoldLeft(RunDo, d, s) = g[Len(s)]
         /\ \E g : RunsTo("undo", d, s, g) /\ FoldLeft(RunUndo, d, s) = g[Len(s)]
<1>1. DOMAIN s = 1 .. Len(s) /\ Len(s) \in Nat
  OBVIOUS
<1>2. \E g : RunsTo("redo", d, s, g) /\ FoldLeft(RunDo, d, s) = g[Len(s)]
  <2> DEFINE Is(f) == f = [S \in SUBSET DOMAIN s |->
                             IF S = {} THEN d ELSE RunDo(f[S \ {Max(S)}], s[Max(S)])]
             fold == CHOOSE f : Is(f)
  <2>1. \A f : Is(f) <=> FoldsTo("redo", d, s, Len(s), f)
    BY <1>1 DEF FoldsTo, FoldTurn, Run
  <2>2. FoldLeft(RunDo, d, s) = fold[DOMAIN s]
    BY DEF FoldLeft, MapThenFoldSet
  <2>3. Is(fold)
    <3>1. \E f : Is(f)
      BY <1>1, <2>1, FoldExists
    <3> HIDE DEF Is
    <3> QED
      BY <3>1
  <2> HIDE DEF Is, fold
  <2>4. FoldsTo("redo", d, s, Len(s), fold)
    BY <2>1, <2>3
  <2>5. PICK n \in Nat : n = Len(s)
    BY <1>1
  <2>6. \E g : RunsTo("redo", d, s, g) /\ fold[1 .. n] = g[n]
    BY ONLY <2>4, <2>5, FoldRuns
  <2> QED
    BY <1>1, <2>2, <2>5, <2>6
<1>3. \E g : RunsTo("undo", d, s, g) /\ FoldLeft(RunUndo, d, s) = g[Len(s)]
  <2> DEFINE Is(f) == f = [S \in SUBSET DOMAIN s |->
                             IF S = {} THEN d ELSE RunUndo(f[S \ {Max(S)}], s[Max(S)])]
             fold == CHOOSE f : Is(f)
  <2>1. \A f : Is(f) <=> FoldsTo("undo", d, s, Len(s), f)
    BY <1>1 DEF FoldsTo, FoldTurn, Run
  <2>2. FoldLeft(RunUndo, d, s) = fold[DOMAIN s]
    BY DEF FoldLeft, MapThenFoldSet
  <2>3. Is(fold)
    <3>1. \E f : Is(f)
      BY <1>1, <2>1, FoldExists
    <3> HIDE DEF Is
    <3> QED
      BY <3>1
  <2> HIDE DEF Is, fold
  <2>4. FoldsTo("undo", d, s, Len(s), fold)
    BY <2>1, <2>3
  <2>5. PICK n \in Nat : n = Len(s)
    BY <1>1
  <2>6. \E g : RunsTo("undo", d, s, g) /\ fold[1 .. n] = g[n]
    BY ONLY <2>4, <2>5, FoldRuns
  <2> QED
    BY <1>1, <2>2, <2>5, <2>6
<1> QED
  BY <1>2, <1>3

(* Concatenation is associative.                                           *)
LEMMA Assoc ==
  ASSUME NEW s \in Seq(Int), NEW t \in Seq(Int), NEW u \in Seq(Int)
  PROVE  s \o (t \o u) = (s \o t) \o u
BY ConcatAssociative, SMTT(30)

(* One closure more of a step.                                             *)
LEMMA OneMore ==
  ASSUME NEW d \in Seq(Int), NEW ms \in Seq(Int), NEW k \in 1 .. Len(ms)
  PROVE  /\ d \o SubSeq(ms, 1, k - 1) \in Seq(Int)
         /\ d \o SubSeq(ms, 1, k) = Append(d \o SubSeq(ms, 1, k - 1), ms[k])
<1>1. PICK t \in Seq(Int) : t = SubSeq(ms, 1, k - 1)
  <2>1. \A i \in 1 .. k - 1 : ms[i] \in Int
    OBVIOUS
  <2>2. SubSeq(ms, 1, k - 1) \in Seq(Int)
    BY <2>1, SubSeqProperties
  <2> QED
    BY <2>2
<1>2. ms[k] \in Int /\ <<ms[k]>> \in Seq(Int) /\ d \o t \in Seq(Int)
  OBVIOUS
<1>3. SubSeq(ms, 1, k) = t \o <<ms[k]>>
  <2>2. \A j \in 1 .. Len(ms) : \A i \in j .. Len(ms) :
          SubSeq(ms, j, i) = SubSeq(ms, j, i - 1) \o <<ms[i]>>
    BY SubSeqRecursiveSecond
  <2> QED
    BY <1>1, <2>2
<1>4. d \o (t \o <<ms[k]>>) = (d \o t) \o <<ms[k]>>
  BY <1>2, Assoc
<1>5. (d \o t) \o <<ms[k]>> = Append(d \o t, ms[k])
  BY <1>2, AppendIsConcat
<1> QED
  BY <1>1, <1>2, <1>3, <1>4, <1>5

(* An undo takes off what its edit did, if that was the last thing done.   *)
LEMMA UndoLast ==
  ASSUME NEW u \in Seq(Int), NEW m \in Int
  PROVE  RunUndo(Append(u, m), m) = u
<1>1. PICK a \in Seq(Int) : a = Append(u, m)
  BY AppendProperties
<1>2. /\ a # <<>> /\ a[Len(a)] = m /\ Len(a) = Len(u) + 1 /\ Len(u) \in Nat
      /\ \A i \in 1 .. Len(u) : a[i] = u[i]
  BY <1>1
<1>3. SubSeq(a, 1, Len(a) - 1) = u
  BY <1>2
<1> QED
  BY <1>1, <1>2, <1>3 DEF RunUndo, Last, Front

(* Redoing the closures ms of one step puts them on the document.          *)
LEMMA RedoAppends ==
  ASSUME NEW d \in Seq(Int), NEW ms \in Seq(Int)
  PROVE  FoldLeft(RunDo, d, ms) = d \o ms
<1>1. PICK g : RunsTo("redo", d, ms, g) /\ FoldLeft(RunDo, d, ms) = g[Len(ms)]
  BY FoldLeftRuns
<1>2. PICK n \in Nat : n = Len(ms)
  OBVIOUS
<1> DEFINE T == {k \in 0 .. n : g[k] = d \o SubSeq(ms, 1, k)}
<1>3. 0 \in T
  <2>1. SubSeq(ms, 1, 0) = <<>> /\ g[0] = d /\ 0 \in 0 .. n
    BY <1>1 DEF RunsTo
  <2> QED
    BY <2>1, ConcatEmptySeq
<1>4. ASSUME NEW k \in 1 .. n, k - 1 \in T
      PROVE  k \in T
  <2>1. g[k] = Append(g[k - 1], ms[k]) /\ g[k - 1] = d \o SubSeq(ms, 1, k - 1)
    BY <1>1, <1>2, <1>4 DEF RunsTo, Run, RunDo
  <2>2. k \in 1 .. Len(ms) /\ k \in 0 .. n
    BY <1>2
  <2>3. d \o SubSeq(ms, 1, k) = Append(d \o SubSeq(ms, 1, k - 1), ms[k])
    BY <2>2, OneMore
  <2>4. g[k] = d \o SubSeq(ms, 1, k)
    BY ONLY <2>1, <2>3
  <2> QED
    BY <2>2, <2>4
<1> HIDE DEF T
<1>5. n \in T
  <2>1. \A k \in 0 .. n : k \in T
    BY <1>3, <1>4, Climb
  <2> QED
    BY <2>1
<1>6. SubSeq(ms, 1, n) = ms
  BY <1>2
<1> QED
  BY <1>1, <1>2, <1>5, <1>6 DEF T

(* Undoing them newest first takes them off again.                         *)
LEMMA UndoTakesOff ==
  ASSUME NEW d \in Seq(Int), NEW ms \in Seq(Int)
  PROVE  FoldLeft(RunUndo, d \o ms, Reverse(ms)) = d
<1>1. PICK n \in Nat : n = Len(ms)
  OBVIOUS
<1>2. PICK r \in Seq(Int) :
        r = Reverse(ms) /\ Len(r) = n /\ \A k \in 1 .. n : r[k] = ms[n - k + 1]
  <2>1. Reverse(ms) = [k \in 1 .. n |-> ms[n - k + 1]]
    BY <1>1 DEF Reverse
  <2>2. \A k \in 1 .. n : ms[n - k + 1] \in Int
    BY <1>1
  <2>3. PICK r : r = [k \in 1 .. n |-> ms[n - k + 1]]
    OBVIOUS
  <2>4. r \in Seq(Int) /\ Len(r) = n /\ \A k \in 1 .. n : r[k] = ms[n - k + 1]
    BY ONLY <2>2, <2>3
  <2> QED
    BY <2>1, <2>3, <2>4
<1>3. PICK g : RunsTo("undo", d \o ms, r, g) /\ FoldLeft(RunUndo, d \o ms, r) = g[n]
  <2>1. \E g : RunsTo("undo", d \o ms, r, g) /\ FoldLeft(RunUndo, d \o ms, r) = g[Len(r)]
    BY FoldLeftRuns
  <2> QED
    BY ONLY <1>2, <2>1
<1> DEFINE T == {k \in 0 .. n : g[k] = d \o SubSeq(ms, 1, n - k)}
<1>4. 0 \in T
  <2>1. SubSeq(ms, 1, n - 0) = ms /\ g[0] = d \o ms /\ 0 \in 0 .. n
    BY <1>1, <1>3 DEF RunsTo
  <2> QED
    BY <2>1
<1>5. ASSUME NEW k \in 1 .. n, k - 1 \in T
      PROVE  k \in T
  <2>1. PICK j \in 1 .. n : j = n - k + 1 /\ j - 1 = n - k /\ n - (k - 1) = j
    OBVIOUS
  <2>2. g[k] = RunUndo(g[k - 1], ms[j]) /\ g[k - 1] = d \o SubSeq(ms, 1, j)
    <3>1. g[k] = Run("undo", g[k - 1], r[k]) /\ r[k] = ms[j]
      BY <1>2, <1>3, <2>1 DEF RunsTo
    <3> QED
      BY <1>5, <2>1, <3>1 DEF Run
  <2>3. PICK u \in Seq(Int) : u = d \o SubSeq(ms, 1, j - 1)
    BY <1>1, OneMore
  <2>4. j \in 1 .. Len(ms) /\ ms[j] \in Int
    BY <1>1
  <2>5. d \o SubSeq(ms, 1, j) = Append(d \o SubSeq(ms, 1, j - 1), ms[j])
    BY <2>4, OneMore
  <2>6. g[k] = RunUndo(Append(u, ms[j]), ms[j])
    BY ONLY <2>2, <2>3, <2>5
  <2>7. g[k] = u
    BY <2>4, <2>6, UndoLast
  <2>8. k \in 0 .. n
    OBVIOUS
  <2>9. g[k] = d \o SubSeq(ms, 1, n - k)
    BY ONLY <2>1, <2>3, <2>7
  <2> QED
    BY <2>8, <2>9
<1> HIDE DEF T
<1>6. n \in T
  <2>1. \A k \in 0 .. n : k \in T
    BY <1>4, <1>5, Climb
  <2> QED
    BY <2>1
<1>7. SubSeq(ms, 1, n - n) = <<>>
  OBVIOUS
<1>8. g[n] = d
  BY <1>6, <1>7, ConcatEmptySeq DEF T
<1> QED
  BY <1>2, <1>3, <1>8

(* --- a list of steps, one after another ------------------------------------ *)

(* The first n steps of ss, one after another, are g[n].                   *)
FlatTo(ss, n, g) == g[0] = <<>> /\ \A i \in 1 .. n : g[i] = g[i - 1] \o ss[i]

(* What concatenating the steps one after another has made so far is a     *)
(* document.                                                               *)
LEMMA FlatTypes ==
  ASSUME NEW ss \in Seq(Seq(Int)), NEW n \in Nat, n <= Len(ss), NEW g, FlatTo(ss, n, g)
  PROVE  \A i \in 0 .. n : g[i] \in Seq(Int)
<1> DEFINE T == {i \in 0 .. n : g[i] \in Seq(Int)}
<1>1. 0 \in T
  <2>1. 0 \in 0 .. n /\ g[0] = <<>> /\ <<>> \in Seq(Int)
    BY DEF FlatTo
  <2> QED
    BY ONLY <2>1
<1>2. ASSUME NEW i \in 1 .. n, i - 1 \in T
      PROVE  i \in T
  <2>1. ss[i] \in Seq(Int) /\ g[i - 1] \in Seq(Int) /\ i \in 0 .. n
    BY <1>2
  <2>2. g[i] = g[i - 1] \o ss[i]
    BY DEF FlatTo
  <2>3. g[i - 1] \o ss[i] \in Seq(Int)
    BY <2>1, ConcatProperties
  <2> QED
    BY ONLY <2>1, <2>2, <2>3
<1> HIDE DEF T
<1>3. \A i \in 0 .. n : i \in T
  BY <1>1, <1>2, Climb
<1> QED
  BY <1>3 DEF T

(* They can be concatenated one after another.                             *)
LEMMA FlatExists ==
  ASSUME NEW ss \in Seq(Seq(Int))
  PROVE  \E g : FlatTo(ss, Len(ss), g)
<1>1. PICK n \in Nat : n = Len(ss)
  OBVIOUS
<1> DEFINE T == {m \in 0 .. n : \E g : FlatTo(ss, m, g)}
<1>2. 0 \in T
  <2>1. FlatTo(ss, 0, [i \in {0} |-> <<>>])
    BY DEF FlatTo
  <2> QED
    BY <2>1
<1>3. ASSUME NEW m \in 1 .. n, m - 1 \in T
      PROVE  m \in T
  <2>1. PICK g : FlatTo(ss, m - 1, g)
    BY <1>3
  <2> DEFINE h == [i \in 0 .. m |-> IF i = m THEN g[m - 1] \o ss[m] ELSE g[i]]
  <2>2. h[m] = g[m - 1] \o ss[m] /\ \A i \in 0 .. m - 1 : h[i] = g[i]
    <3>1. m \in 0 .. m /\ \A i \in 0 .. m - 1 : i \in 0 .. m /\ i # m
      OBVIOUS
    <3> QED
      BY ONLY <3>1
  <2> HIDE DEF h
  <2>3. \A i \in 1 .. m : i = m \/ i \in 1 .. m - 1
    OBVIOUS
  <2>4. /\ 0 \in 0 .. m - 1 /\ m - 1 \in 0 .. m - 1
        /\ \A i \in 1 .. m - 1 : i \in 0 .. m - 1 /\ i - 1 \in 0 .. m - 1
    OBVIOUS
  <2>5. FlatTo(ss, m, h)
    BY ONLY <2>1, <2>2, <2>3, <2>4 DEF FlatTo
  <2> QED
    BY <2>5
<1> HIDE DEF T
<1>4. \A m \in 0 .. n : m \in T
  BY <1>2, <1>3, Climb
<1> QED
  BY <1>1, <1>4 DEF T

(* And that is the library's FlattenSeq.                                   *)
LEMMA FlatIs ==
  ASSUME NEW ss \in Seq(Seq(Int)), NEW g, FlatTo(ss, Len(ss), g)
  PROVE  FlattenSeq(ss) = g[Len(ss)]
<1>1. PICK n \in Nat : n = Len(ss)
  OBVIOUS
<1>2. FlatTo(ss, n, g) /\ \A i \in 0 .. n : g[i] \in Seq(Int)
  BY <1>1, FlatTypes
<1>3. CASE n = 0
  <2>1. g[n] = <<>>
    BY <1>2, <1>3 DEF FlatTo
  <2>2. ss = <<>>
    BY <1>1, <1>3, EmptySeq
  <2> QED
    BY <1>1, <1>3, <2>1, <2>2 DEF FlattenSeq
<1>4. CASE n # 0
  <2> DEFINE Is(f) == f = [i \in 1 .. Len(ss) |-> IF i = 1 THEN ss[i] ELSE f[i - 1] \o ss[i]]
             flat == CHOOSE f : Is(f)
  <2>1. FlattenSeq(ss) = flat[n]
    BY <1>1, <1>4 DEF FlattenSeq
  <2>2. g[1] = ss[1]
    <3>1. 1 \in 1 .. n /\ ss[1] \in Seq(Int)
      BY <1>1, <1>4
    <3>2. g[1] = <<>> \o ss[1]
      <4>1. g[1] = g[1 - 1] \o ss[1] /\ g[0] = <<>>
        BY <1>2, <3>1 DEF FlatTo
      <4>2. 1 - 1 = 0
        OBVIOUS
      <4> QED
        BY ONLY <4>1, <4>2
    <3> QED
      BY <3>1, <3>2
  <2>3. \E f : Is(f)
    <3> DEFINE h == [i \in 1 .. Len(ss) |-> g[i]]
    <3>1. ASSUME NEW i \in 1 .. Len(ss)
          PROVE  h[i] = IF i = 1 THEN ss[i] ELSE h[i - 1] \o ss[i]
      <4>1. CASE i = 1
        BY <2>2, <4>1
      <4>2. CASE i # 1
        <5>1. i - 1 \in 1 .. Len(ss) /\ i \in 1 .. n
          BY <1>1, <4>2
        <5>2. g[i] = g[i - 1] \o ss[i]
          BY <1>2, <5>1 DEF FlatTo
        <5> QED
          BY <4>2, <5>1, <5>2
      <4> QED
        BY <4>1, <4>2
    <3>2. h = [i \in 1 .. Len(ss) |-> h[i]]
      OBVIOUS
    <3> HIDE DEF h
    <3>3. [i \in 1 .. Len(ss) |-> h[i]]
            = [i \in 1 .. Len(ss) |-> IF i = 1 THEN ss[i] ELSE h[i - 1] \o ss[i]]
      BY <3>1
    <3>4. Is(h)
      BY <3>2, <3>3
    <3> QED
      BY <3>4
  <2>4. Is(flat)
    <3> HIDE DEF Is
    <3> QED
      BY <2>3
  <2> HIDE DEF flat
  <2>5. \A i \in 1 .. n : flat[i] = IF i = 1 THEN ss[i] ELSE flat[i - 1] \o ss[i]
    BY <1>1, <2>4
  <2> HIDE DEF Is
  <2> DEFINE T == {i \in 0 .. n : i = 0 \/ flat[i] = g[i]}
  <2>6. 0 \in T
    OBVIOUS
  <2>7. ASSUME NEW i \in 1 .. n, i - 1 \in T
        PROVE  i \in T
    <3>1. CASE i = 1
      BY <2>2, <2>5, <3>1
    <3>2. CASE i # 1
      <4>1. flat[i - 1] = g[i - 1] /\ i \in 0 .. n
        BY <2>7, <3>2
      <4>2. flat[i] = flat[i - 1] \o ss[i] /\ g[i] = g[i - 1] \o ss[i]
        BY <1>2, <2>5, <3>2 DEF FlatTo
      <4> QED
        BY <4>1, <4>2
    <3> QED
      BY <3>1, <3>2
  <2> HIDE DEF T
  <2>8. \A i \in 0 .. n : i \in T
    BY <2>6, <2>7, Climb
  <2>9. flat[n] = g[n]
    BY <1>4, <2>8 DEF T
  <2> QED
    BY <1>1, <2>1, <2>9
<1> QED
  BY <1>3, <1>4

(* One step more at the end.                                               *)
LEMMA FlatAppend ==
  ASSUME NEW ss \in Seq(Seq(Int)), NEW tt \in Seq(Seq(Int)), Len(tt) = Len(ss) + 1,
         \A i \in 1 .. Len(ss) : tt[i] = ss[i]
  PROVE  /\ FlattenSeq(ss) \in Seq(Int)
         /\ FlattenSeq(tt) = FlattenSeq(ss) \o tt[Len(tt)]
<1>1. PICK n \in Nat : n = Len(ss) /\ n + 1 = Len(tt)
  OBVIOUS
<1>2. PICK g : FlatTo(tt, n + 1, g)
  BY <1>1, FlatExists
<1>3. FlattenSeq(tt) = g[n + 1]
  BY <1>1, <1>2, FlatIs
<1>4. n + 1 \in 1 .. n + 1 /\ (n + 1) - 1 = n /\ \A i \in 1 .. n : i \in 1 .. n + 1
  OBVIOUS
<1>5. g[n + 1] = g[n] \o tt[n + 1]
  BY ONLY <1>2, <1>4 DEF FlatTo
<1>6. FlatTo(ss, n, g)
  BY <1>1, <1>2, <1>4 DEF FlatTo
<1>7. FlattenSeq(ss) = g[n]
  BY <1>1, <1>6, FlatIs
<1>8. g[n] \in Seq(Int)
  <2>1. n <= Len(ss) /\ n \in 0 .. n
    BY <1>1
  <2>2. \A i \in 0 .. n : g[i] \in Seq(Int)
    BY <1>6, <2>1, FlatTypes
  <2> QED
    BY ONLY <2>1, <2>2
<1> QED
  BY <1>1, <1>3, <1>5, <1>7, <1>8

(* One step more at the beginning.                                         *)
LEMMA FlatCons ==
  ASSUME NEW ss \in Seq(Seq(Int)), NEW tt \in Seq(Seq(Int)), Len(ss) = Len(tt) + 1,
         \A i \in 1 .. Len(tt) : tt[i] = ss[i + 1]
  PROVE  FlattenSeq(ss) = ss[1] \o FlattenSeq(tt)
<1>1. PICK n \in Nat : n = Len(tt) /\ n + 1 = Len(ss)
  <2>1. Len(tt) \in Nat
    BY LenProperties
  <2> QED
    BY <2>1
<1>2. PICK g : FlatTo(tt, n, g)
  BY <1>1, FlatExists
<1>3. /\ FlattenSeq(tt) = g[n] /\ g[0] = <<>>
      /\ \A i \in 0 .. n : g[i] \in Seq(Int)
      /\ \A i \in 1 .. n : g[i] = g[i - 1] \o ss[i + 1]
  <2>1. FlattenSeq(tt) = g[n]
    BY <1>1, <1>2, FlatIs
  <2>2. \A i \in 0 .. n : g[i] \in Seq(Int)
    <3>1. n <= Len(tt)
      BY <1>1
    <3> QED
      BY <1>2, <3>1, FlatTypes
  <2>3. g[0] = <<>> /\ \A i \in 1 .. n : g[i] = g[i - 1] \o tt[i]
    BY <1>2 DEF FlatTo
  <2>4. \A i \in 1 .. n : tt[i] = ss[i + 1]
    BY <1>1
  <2> QED
    BY ONLY <2>1, <2>2, <2>3, <2>4
<1>4. PICK first \in Seq(Int) : first = ss[1]
  BY <1>1
<1> DEFINE h == [i \in 0 .. n + 1 |-> IF i = 0 THEN <<>> ELSE first \o g[i - 1]]
<1>5. /\ h[0] = <<>> /\ \A i \in 1 .. n + 1 : h[i] = first \o g[i - 1]
  <2>1. 0 \in 0 .. n + 1 /\ \A i \in 1 .. n + 1 : i \in 0 .. n + 1 /\ i # 0
    OBVIOUS
  <2> QED
    BY ONLY <2>1
<1> HIDE DEF h
<1>6. ASSUME NEW i \in 1 .. n + 1
      PROVE  h[i] = h[i - 1] \o ss[i]
  <2>1. CASE i = 1
    <3>1. h[1] = first \o g[0] /\ h[i - 1] = <<>> /\ 1 \in 1 .. n + 1
      <4>1. 1 \in 1 .. n + 1 /\ 1 - 1 = 0 /\ i - 1 = 0
        BY <2>1
      <4> QED
        BY ONLY <1>5, <4>1
    <3>2. first \o <<>> = first /\ <<>> \o first = first
      OBVIOUS
    <3> QED
      BY ONLY <1>3, <1>4, <2>1, <3>1, <3>2
  <2>2. CASE i # 1
    <3>1. PICK j \in 1 .. n : j = i - 1
      BY <2>2
    <3>2. /\ i = j + 1 /\ i - 1 = j /\ j \in 1 .. n + 1 /\ j \in 0 .. n /\ j - 1 \in 0 .. n
      BY <3>1
    <3>3. h[i] = first \o g[j] /\ h[j] = first \o g[j - 1] /\ g[j] = g[j - 1] \o ss[i]
      BY ONLY <1>3, <1>5, <3>1, <3>2
    <3>4. g[j - 1] \in Seq(Int) /\ ss[i] \in Seq(Int)
      BY <1>1, <1>3, <3>2
    <3>5. first \o (g[j - 1] \o ss[i]) = (first \o g[j - 1]) \o ss[i]
      BY ONLY <3>4, Assoc, first \in Seq(Int)
    <3> QED
      BY ONLY <3>2, <3>3, <3>5
  <2> QED
    BY <2>1, <2>2
<1>7. FlatTo(ss, n + 1, h)
  BY ONLY <1>5, <1>6 DEF FlatTo
<1>8. FlattenSeq(ss) = h[n + 1]
  BY <1>1, <1>7, FlatIs
<1>9. n + 1 \in 1 .. n + 1 /\ (n + 1) - 1 = n
  OBVIOUS
<1>10. h[n + 1] = first \o g[n]
  BY ONLY <1>5, <1>9
<1> QED
  BY ONLY <1>3, <1>4, <1>8, <1>10

(* The last steps, of one closure each, become a step of those closures.   *)
LEMMA FlatCollapse ==
  ASSUME NEW ss \in Seq(Seq(Int)), NEW tt \in Seq(Seq(Int)),
         NEW ms \in Seq(Int), NEW m \in Nat,
         Len(ss) = m + Len(ms), Len(tt) = m + 1, tt[m + 1] = ms,
         \A i \in 1 .. m : tt[i] = ss[i],
         \A k \in 1 .. Len(ms) : ss[m + k] = <<ms[k]>>
  PROVE  FlattenSeq(tt) = FlattenSeq(ss)
<1>1. PICK n \in Nat : n = Len(ms) /\ Len(ss) = m + n
  OBVIOUS
<1>2. PICK g : FlatTo(ss, m + n, g)
  BY <1>1, FlatExists
<1>3. /\ FlattenSeq(ss) = g[m + n] /\ g[0] = <<>>
      /\ \A i \in 0 .. m + n : g[i] \in Seq(Int)
      /\ \A i \in 1 .. m + n : g[i] = g[i - 1] \o ss[i]
  <2>1. m + n \in Nat /\ m + n <= Len(ss)
    BY <1>1
  <2>2. FlattenSeq(ss) = g[m + n]
    BY <1>1, <1>2, FlatIs
  <2>3. \A i \in 0 .. m + n : g[i] \in Seq(Int)
    BY <1>2, <2>1, FlatTypes
  <2> QED
    BY <1>2, <2>2, <2>3 DEF FlatTo
<1>4. PICK base \in Seq(Int) : base = g[m]
  BY <1>3
<1> DEFINE T == {k \in 0 .. n : g[m + k] = base \o SubSeq(ms, 1, k)}
<1>5. 0 \in T
  <2>1. SubSeq(ms, 1, 0) = <<>> /\ m + 0 = m /\ 0 \in 0 .. n /\ base \o <<>> = base
    OBVIOUS
  <2> QED
    BY ONLY <1>4, <2>1
<1>6. ASSUME NEW k \in 1 .. n, k - 1 \in T
      PROVE  k \in T
  <2>1. /\ k \in 1 .. Len(ms) /\ k \in 0 .. n
        /\ m + k \in 1 .. m + n /\ (m + k) - 1 = m + (k - 1)
    BY <1>1
  <2>2. g[m + k] = g[m + (k - 1)] \o <<ms[k]>> /\ g[m + (k - 1)] = base \o SubSeq(ms, 1, k - 1)
    <3>1. ss[m + k] = <<ms[k]>>
      BY <2>1
    <3> QED
      BY ONLY <1>3, <1>6, <2>1, <3>1
  <2>3. PICK u \in Seq(Int) : u = base \o SubSeq(ms, 1, k - 1)
    BY <2>1, OneMore
  <2>4. base \o SubSeq(ms, 1, k) = Append(u, ms[k]) /\ ms[k] \in Int
    <3>1. base \o SubSeq(ms, 1, k) = Append(base \o SubSeq(ms, 1, k - 1), ms[k])
      BY <2>1, OneMore
    <3>2. ms[k] \in Int
      BY <2>1
    <3> QED
      BY ONLY <2>3, <3>1, <3>2
  <2>5. Append(u, ms[k]) = u \o <<ms[k]>>
    BY <2>4, AppendIsConcat
  <2>6. g[m + k] = base \o SubSeq(ms, 1, k)
    BY ONLY <2>2, <2>3, <2>4, <2>5
  <2> QED
    BY <2>1, <2>6
<1> HIDE DEF T
<1>7. g[m + n] = base \o ms
  <2>1. \A k \in 0 .. n : k \in T
    BY <1>5, <1>6, Climb
  <2>2. n \in 0 .. n /\ SubSeq(ms, 1, n) = ms
    BY <1>1
  <2> QED
    BY <2>1, <2>2 DEF T
<1> DEFINE h == [i \in 0 .. m + 1 |-> IF i = m + 1 THEN base \o ms ELSE g[i]]
<1>8. h[m + 1] = base \o ms /\ \A i \in 0 .. m : h[i] = g[i]
  <2>1. m + 1 \in 0 .. m + 1 /\ \A i \in 0 .. m : i \in 0 .. m + 1 /\ i # m + 1
    OBVIOUS
  <2> QED
    BY ONLY <2>1
<1> HIDE DEF h
<1>9. FlatTo(tt, m + 1, h)
  <2>1. h[0] = <<>>
    <3>1. 0 \in 0 .. m
      OBVIOUS
    <3> QED
      BY ONLY <1>3, <1>8, <3>1
  <2>2. ASSUME NEW i \in 1 .. m + 1
        PROVE  h[i] = h[i - 1] \o tt[i]
    <3>1. CASE i = m + 1
      <4>1. m \in 0 .. m /\ i - 1 = m
        BY <3>1
      <4>2. tt[m + 1] = ms
        OBVIOUS
      <4> QED
        BY ONLY <1>4, <1>8, <3>1, <4>1, <4>2
    <3>2. CASE i # m + 1
      <4>1. i \in 1 .. m /\ i \in 0 .. m /\ i - 1 \in 0 .. m /\ i \in 1 .. m + n
        BY <3>2
      <4>2. tt[i] = ss[i]
        BY <4>1
      <4> QED
        BY ONLY <1>3, <1>8, <4>1, <4>2
    <3> QED
      BY <3>1, <3>2
  <2> QED
    BY <2>1, <2>2 DEF FlatTo
<1>10. FlattenSeq(tt) = h[m + 1]
  BY <1>9, FlatIs
<1> QED
  BY ONLY <1>3, <1>7, <1>8, <1>10

(* --- the document is what the edits behind the cursor say ------------------- *)

HistoryInv == forgotten \in Seq(Int) /\ HistoryInOrder

(* The first n edits of a stack, as the closures of each.                  *)
Steps(stk, n) == [i \in 1 .. n |-> StepOf(stk[i - 1])]

(* The closures of one edit or group.                                      *)
LEMMA StepType ==
  ASSUME NEW e \in Edit
  PROVE  StepOf(e) \in Seq(Int)
<1>1. e.members \in Seq(Nat) /\ e.box \in Nat
  BY DEF Edit
<1>2. e.members \in Seq(Int) /\ <<e.box>> \in Seq(Int)
  BY <1>1
<1> QED
  BY <1>2 DEF StepOf

(* The closures of the first n.                                            *)
LEMMA StepsType ==
  ASSUME NEW stk \in [Slots -> Edit], NEW n \in 0 .. CAP
  PROVE  /\ Steps(stk, n) \in Seq(Seq(Int)) /\ Len(Steps(stk, n)) = n
         /\ \A i \in 1 .. n : Steps(stk, n)[i] = StepOf(stk[i - 1])
         /\ FlattenSeq(Steps(stk, n)) \in Seq(Int)
<1>1. \A i \in 1 .. n : StepOf(stk[i - 1]) \in Seq(Int)
  <2> SUFFICES ASSUME NEW i \in 1 .. n PROVE StepOf(stk[i - 1]) \in Seq(Int)
    OBVIOUS
  <2>1. i - 1 \in Slots
    BY CapAssumption DEF Slots
  <2> QED
    BY <2>1, StepType
<1>2. PICK s : s = Steps(stk, n)
  OBVIOUS
<1>3. s = [i \in 1 .. n |-> StepOf(stk[i - 1])] /\ n \in Nat
  BY <1>2, CapAssumption DEF Steps
<1>4. s \in Seq(Seq(Int)) /\ Len(s) = n
  BY ONLY <1>1, <1>3
<1>5. \A i \in 1 .. n : s[i] = StepOf(stk[i - 1])
  BY ONLY <1>3
<1>6. FlattenSeq(s) \in Seq(Int)
  <2>1. PICK g : FlatTo(s, Len(s), g)
    BY <1>4, FlatExists
  <2>2. FlattenSeq(s) = g[n] /\ n \in 0 .. n /\ n <= Len(s)
    BY <1>3, <1>4, <2>1, FlatIs
  <2> QED
    BY <1>3, <1>4, <2>1, <2>2, FlatTypes
<1> QED
  BY <1>2, <1>4, <1>5, <1>6

(* The steps up to a place, and the one after it.                          *)
LEMMA StepsNext ==
  ASSUME NEW stk \in [Slots -> Edit], NEW n \in 0 .. CAP - 1,
         NEW new \in [Slots -> Edit], \A i \in 0 .. n - 1 : new[i] = stk[i]
  PROVE  FlattenSeq(Steps(new, n + 1)) = FlattenSeq(Steps(stk, n)) \o StepOf(new[n])
<1>1. n \in 0 .. CAP /\ n + 1 \in 0 .. CAP /\ n + 1 \in 1 .. n + 1 /\ (n + 1) - 1 = n
  BY CapAssumption
<1>2. PICK ss \in Seq(Seq(Int)) :
        ss = Steps(stk, n) /\ Len(ss) = n /\ \A i \in 1 .. n : ss[i] = StepOf(stk[i - 1])
  BY <1>1, StepsType
<1>3. PICK tt \in Seq(Seq(Int)) :
        /\ tt = Steps(new, n + 1) /\ Len(tt) = n + 1
        /\ \A i \in 1 .. n + 1 : tt[i] = StepOf(new[i - 1])
  BY <1>1, StepsType
<1>4. \A i \in 1 .. n : i \in 1 .. n + 1 /\ i - 1 \in 0 .. n - 1
  OBVIOUS
<1>5. \A i \in 1 .. n : tt[i] = ss[i]
  BY ONLY <1>2, <1>3, <1>4, \A i \in 0 .. n - 1 : new[i] = stk[i]
<1>6. FlattenSeq(tt) = FlattenSeq(ss) \o tt[Len(tt)]
  BY <1>2, <1>3, <1>5, FlatAppend
<1>7. tt[n + 1] = StepOf(new[n])
  BY ONLY <1>1, <1>3
<1> QED
  BY ONLY <1>2, <1>3, <1>6, <1>7

(* When the oldest edit is dropped, its step is the first of the history.  *)
LEMMA StepsShift ==
  ASSUME NEW stk \in [Slots -> Edit], NEW new \in [Slots -> Edit],
         \A i \in 0 .. CAP - 2 : new[i] = stk[i + 1]
  PROVE  FlattenSeq(Steps(stk, CAP)) = StepOf(stk[0]) \o FlattenSeq(Steps(new, CAP - 1))
<1>1. CAP \in 0 .. CAP /\ CAP - 1 \in 0 .. CAP /\ 1 \in 1 .. CAP /\ 1 - 1 = 0
  BY CapAssumption
<1>2. PICK ss \in Seq(Seq(Int)) :
        /\ ss = Steps(stk, CAP) /\ Len(ss) = CAP
        /\ \A i \in 1 .. CAP : ss[i] = StepOf(stk[i - 1])
  BY <1>1, StepsType
<1>3. PICK tt \in Seq(Seq(Int)) :
        /\ tt = Steps(new, CAP - 1) /\ Len(tt) = CAP - 1
        /\ \A i \in 1 .. CAP - 1 : tt[i] = StepOf(new[i - 1])
  BY <1>1, StepsType
<1>4. \A i \in 1 .. CAP - 1 : /\ i + 1 \in 1 .. CAP /\ (i + 1) - 1 = i
                              /\ i - 1 \in 0 .. CAP - 2 /\ (i - 1) + 1 = i
  BY CapAssumption
<1>5. \A i \in 1 .. Len(tt) : tt[i] = ss[i + 1]
  BY ONLY <1>2, <1>3, <1>4, \A i \in 0 .. CAP - 2 : new[i] = stk[i + 1]
<1>6. Len(ss) = Len(tt) + 1
  BY <1>2, <1>3, CapAssumption
<1>7. FlattenSeq(ss) = ss[1] \o FlattenSeq(tt)
  BY <1>5, <1>6, FlatCons
<1>8. ss[1] = StepOf(stk[0])
  BY ONLY <1>1, <1>2
<1> QED
  BY ONLY <1>2, <1>3, <1>7, <1>8

(* The document, for the history there is.                                 *)
LEMMA HistoryFacts ==
  ASSUME IInv, HistoryInv
  PROVE  /\ undo_stack \in [Slots -> Edit] /\ undo_cursor \in 0 .. CAP
         /\ History = FlattenSeq(Steps(undo_stack, undo_cursor))
         /\ History \in Seq(Int) /\ forgotten \in Seq(Int)
         /\ doc = forgotten \o History
<1>1. undo_stack \in [Slots -> Edit] /\ undo_cursor \in 0 .. CAP
  BY CapAssumption DEF IInv, TypeOK
<1>2. History = FlattenSeq(Steps(undo_stack, undo_cursor))
  BY DEF History, Steps
<1>3. History \in Seq(Int)
  BY <1>1, <1>2, StepsType
<1> QED
  BY <1>1, <1>2, <1>3 DEF HistoryInv, HistoryInOrder

(* A push adds its closure; what it drops moves to what is forgotten.      *)
LEMMA UndoableHistory ==
  ASSUME IInv, HistoryInv, NEW label \in Labels, Undoable(label)
  PROVE  HistoryInv'
<1> DEFINE id == undo_push_seq + 1
<1>1. /\ undo_stack' \in [Slots -> Edit] /\ undo_cursor' = TopSlot + 1
      /\ TopSlot \in 0 .. CAP - 1
      /\ undo_stack'[TopSlot] = NewEdit(label)
      /\ \A i \in 0 .. TopSlot - 1 : undo_stack'[i] = undo_stack[From(i)]
  BY PushFacts DEF Slots
<1>2. id \in Int /\ <<id>> \in Seq(Int) /\ StepOf(NewEdit(label)) = <<id>>
  BY BoundsAssumption DEF IInv, TypeOK, NewEdit, StepOf
<1>3. doc' = Append(doc, id)
  BY DEF Undoable, RunDo
<1>4. History' = FlattenSeq(Steps(undo_stack', TopSlot + 1))
  BY <1>1 DEF History, Steps
<1>5. /\ undo_stack \in [Slots -> Edit] /\ undo_cursor \in 0 .. CAP
      /\ History = FlattenSeq(Steps(undo_stack, undo_cursor))
      /\ History \in Seq(Int) /\ forgotten \in Seq(Int)
      /\ doc = forgotten \o History
  BY HistoryFacts
<1>6. doc' = forgotten \o (History \o <<id>>)
  <2>1. PICK h \in Seq(Int) : h = forgotten \o History
    BY <1>5, ConcatProperties
  <2>2. Append(h, id) = h \o <<id>>
    BY <1>2, AppendIsConcat
  <2>3. (forgotten \o History) \o <<id>> = forgotten \o (History \o <<id>>)
    BY <1>2, <1>5, Assoc
  <2> QED
    BY ONLY <1>3, <1>5, <2>1, <2>2, <2>3
<1>7. CASE ~Full
  <2>1. TopSlot = undo_cursor /\ forgotten' = forgotten
    BY <1>7 DEF TopSlot, Full, Undoable
  <2>2. \A i \in 0 .. TopSlot - 1 : undo_stack'[i] = undo_stack[i]
    BY <1>1, <1>7 DEF From
  <2>3. History' = History \o <<id>>
    <3>1. FlattenSeq(Steps(undo_stack', TopSlot + 1)) =
            FlattenSeq(Steps(undo_stack, TopSlot)) \o StepOf(undo_stack'[TopSlot])
      BY <1>1, <1>5, <2>2, StepsNext
    <3> QED
      BY ONLY <1>1, <1>2, <1>4, <1>5, <2>1, <3>1
  <2> QED
    BY <1>5, <1>6, <2>1, <2>3 DEF HistoryInv, HistoryInOrder
<1>8. CASE Full
  <2>1. undo_cursor = CAP /\ TopSlot = CAP - 1 /\ undo_len = CAP
    BY <1>5, <1>8, CapAssumption DEF TopSlot, Full, IInv, TypeOK
  <2>2. forgotten' = forgotten \o StepOf(undo_stack[0])
    <3>1. 0 \in Slots /\ 0 \notin RedoTail
      BY <2>1, CapAssumption DEF Slots, RedoTail
    <3>2. KeptEdits[0] = undo_stack[0]
      BY <3>1 DEF KeptEdits, Release
    <3> QED
      BY <1>8, <3>2 DEF Undoable, Full, KeptEdits
  <2>3. \A i \in 0 .. CAP - 2 : undo_stack'[i] = undo_stack[i + 1]
    <3>1. \A i \in 0 .. CAP - 2 : i \in 0 .. TopSlot - 1
      BY <2>1, CapAssumption
    <3> QED
      BY <1>1, <1>8, <3>1 DEF From
  <2>4. History = StepOf(undo_stack[0]) \o FlattenSeq(Steps(undo_stack', CAP - 1))
    BY <1>1, <1>5, <2>1, <2>3, StepsShift
  <2>5. CAP - 1 \in 0 .. CAP - 1 /\ CAP - 1 \in 0 .. CAP /\ 0 \in Slots
    BY CapAssumption DEF Slots
  <2>6. PICK middle \in Seq(Int) : middle = FlattenSeq(Steps(undo_stack', CAP - 1))
    BY <1>1, <2>5, StepsType
  <2>7. PICK first \in Seq(Int) : first = StepOf(undo_stack[0])
    BY <1>5, <2>5, StepType
  <2>8. History' = middle \o <<id>>
    <3>1. \A i \in 0 .. (CAP - 1) - 1 : undo_stack'[i] = undo_stack'[i]
      OBVIOUS
    <3>2. FlattenSeq(Steps(undo_stack', (CAP - 1) + 1)) =
            FlattenSeq(Steps(undo_stack', CAP - 1)) \o StepOf(undo_stack'[CAP - 1])
      BY <1>1, <2>5, <3>1, StepsNext
    <3> QED
      BY ONLY <1>1, <1>2, <1>4, <2>1, <2>6, <3>2
  <2>9. forgotten \o (History \o <<id>>) = (forgotten \o first) \o (middle \o <<id>>)
    <3>1. middle \o <<id>> \in Seq(Int)
      BY <1>2, ConcatProperties
    <3>2. History \o <<id>> = first \o (middle \o <<id>>)
      BY <1>2, <2>4, <2>6, <2>7, Assoc
    <3>3. forgotten \o (first \o (middle \o <<id>>))
            = (forgotten \o first) \o (middle \o <<id>>)
      <4>1. forgotten \in Seq(Int) /\ first \in Seq(Int)
        BY <1>5
      <4> QED
        BY ONLY <3>1, <4>1, Assoc
    <3> QED
      BY ONLY <3>2, <3>3
  <2>10. doc' = forgotten' \o History'
    BY ONLY <1>6, <2>2, <2>7, <2>8, <2>9
  <2>11. forgotten' \in Seq(Int)
    BY <1>5, <2>2, <2>7, ConcatProperties
  <2> QED
    BY <2>10, <2>11 DEF HistoryInv, HistoryInOrder
<1> QED
  BY <1>7, <1>8

(* Undo takes the last step of the history off the document.               *)
LEMMA UndoHistory ==
  ASSUME IInv, HistoryInv, Undo
  PROVE  HistoryInv'
<1>1. /\ undo_stack \in [Slots -> Edit] /\ undo_cursor \in 0 .. CAP
      /\ History = FlattenSeq(Steps(undo_stack, undo_cursor))
      /\ History \in Seq(Int) /\ forgotten \in Seq(Int)
      /\ doc = forgotten \o History
  BY HistoryFacts
<1>2. PICK n \in 0 .. CAP - 1 : n = undo_cursor - 1 /\ n + 1 = undo_cursor /\ undo_cursor' = n
  BY <1>1, CapAssumption DEF Undo
<1>3. PICK e \in Edit : e = undo_stack[n]
  BY <1>1, CapAssumption DEF Slots
<1>4. PICK ms \in Seq(Int) : ms = StepOf(e)
  BY StepType
<1>5. PICK h \in Seq(Int) : h = FlattenSeq(Steps(undo_stack, n))
  <2>1. n \in 0 .. CAP
    BY CapAssumption
  <2> QED
    BY <1>1, <2>1, StepsType
<1>6. History = h \o ms
  BY <1>1, <1>2, <1>3, <1>4, <1>5, StepsNext
<1>7. PICK d \in Seq(Int) : d = forgotten \o h
  BY <1>1, ConcatProperties
<1>8. doc = d \o ms
  <2>1. forgotten \in Seq(Int) /\ h \in Seq(Int) /\ ms \in Seq(Int)
    BY <1>1
  <2>2. forgotten \o (h \o ms) = (forgotten \o h) \o ms
    BY ONLY <2>1, Assoc
  <2> QED
    BY ONLY <1>1, <1>6, <1>7, <2>2
<1>9. doc' = FoldLeft(RunUndo, doc, Reverse(ms))
  BY <1>2, <1>3, <1>4 DEF Undo, NewestFirst
<1>10. doc' = d
  BY <1>8, <1>9, UndoTakesOff
<1>11. forgotten' = forgotten /\ undo_stack' = undo_stack
  BY DEF Undo
<1>12. History' = h
  BY <1>2, <1>5, <1>11 DEF History, Steps
<1> QED
  BY <1>1, <1>7, <1>10, <1>11, <1>12 DEF HistoryInv, HistoryInOrder

(* Redo puts the next step on.                                             *)
LEMMA RedoHistory ==
  ASSUME IInv, HistoryInv, Redo
  PROVE  HistoryInv'
<1>1. /\ undo_stack \in [Slots -> Edit] /\ undo_cursor \in 0 .. CAP
      /\ History = FlattenSeq(Steps(undo_stack, undo_cursor))
      /\ History \in Seq(Int) /\ forgotten \in Seq(Int)
      /\ doc = forgotten \o History
  BY HistoryFacts
<1>2. PICK n \in 0 .. CAP - 1 : n = undo_cursor /\ undo_cursor' = n + 1
  BY <1>1, CapAssumption DEF Redo, CanRedo, IInv, TypeOK
<1>3. PICK e \in Edit : e = undo_stack[n]
  BY <1>1, CapAssumption DEF Slots
<1>4. PICK ms \in Seq(Int) : ms = StepOf(e)
  BY StepType
<1>5. PICK d \in Seq(Int) : d = doc
  BY <1>1, ConcatProperties
<1>6. doc' = d \o ms
  <2>1. doc' = FoldLeft(RunDo, d, ms)
    BY <1>2, <1>3, <1>4, <1>5 DEF Redo
  <2> QED
    BY <2>1, RedoAppends
<1>7. forgotten' = forgotten /\ undo_stack' = undo_stack
  BY DEF Redo
<1>8. History' = FlattenSeq(Steps(undo_stack, n + 1))
  BY <1>2, <1>7 DEF History, Steps
<1>9. FlattenSeq(Steps(undo_stack, n + 1)) = History \o ms
  BY <1>1, <1>2, <1>3, <1>4, StepsNext
<1>10. doc' = forgotten \o History'
  <2>1. forgotten \o (History \o ms) = (forgotten \o History) \o ms
    BY <1>1, Assoc
  <2> QED
    BY ONLY <1>1, <1>5, <1>6, <1>8, <1>9, <2>1
<1> QED
  BY <1>1, <1>7, <1>10 DEF HistoryInv, HistoryInOrder

(* Closing a block changes no step but the one it makes of its own, which  *)
(* runs what they ran in their order.                                      *)
LEMMA CloseGroupHistory ==
  ASSUME IInv, GroupInv, HistoryInv, undo_group_depth > 0, CloseGroup,
         UNCHANGED <<doc, forgotten>>
  PROVE  HistoryInv'
<1> DEFINE s == undo_group_start
<1>1. /\ undo_stack \in [Slots -> Edit] /\ undo_cursor \in 0 .. CAP
      /\ History = FlattenSeq(Steps(undo_stack, undo_cursor))
      /\ History \in Seq(Int) /\ forgotten \in Seq(Int)
      /\ doc = forgotten \o History
  BY HistoryFacts
<1> SUFFICES History' = History
  BY <1>1 DEF HistoryInv, HistoryInOrder
<1>2. /\ undo_len \in 0 .. CAP /\ s \in 0 .. CAP /\ CAP \in Nat \ {0}
  BY CapAssumption DEF IInv, TypeOK
<1>3. CASE UNCHANGED <<undo_stack, undo_len, undo_cursor>>
  BY <1>3 DEF History
<1>4. CASE /\ undo_push_seq # undo_group_seq0 /\ GroupSpan = 1
           /\ undo_stack' = [undo_stack EXCEPT ![s] = Relabelled(@)]
           /\ undo_cursor' = undo_len
  <2>1. undo_cursor' = undo_cursor
    BY <1>4 DEF GroupInv
  <2>2. \A i \in Slots : StepOf(undo_stack'[i]) = StepOf(undo_stack[i])
    BY <1>1, <1>4 DEF Relabelled, StepOf
  <2>3. \A i \in 1 .. undo_cursor : i - 1 \in Slots
    BY <1>1, <1>2 DEF Slots
  <2> QED
    BY <2>1, <2>2, <2>3 DEF History
<1>5. CASE /\ undo_push_seq # undo_group_seq0 /\ GroupSpan > 1
           /\ undo_stack' = Collapsed
           /\ undo_cursor' = s + 1
  <2>1. /\ undo_cursor = undo_len
        /\ \A i \in s .. undo_len - 1 : undo_stack[i].members = <<>>
    BY <1>5 DEF GroupInv
  <2>2. PICK n \in Nat : n = GroupSpan /\ n > 1 /\ undo_len = s + n
    BY <1>2, <1>5 DEF GroupSpan
  <2>3. PICK ms \in Seq(Int) : /\ ms = GroupEntry.members /\ Len(ms) = n
                               /\ \A k \in 1 .. n : ms[k] = undo_stack[s + k - 1].box
    <3>1. PICK b : b = [k \in 1 .. n |-> undo_stack[s + k - 1].box]
      OBVIOUS
    <3>2. \A k \in 1 .. n : undo_stack[s + k - 1].box \in Int
      <4>1. \A k \in 1 .. n : s + k - 1 \in Slots
        BY <1>2, <2>2 DEF Slots
      <4>2. \A i \in Slots : undo_stack[i].box \in Int
        BY <1>1 DEF Edit
      <4> QED
        BY ONLY <4>1, <4>2
    <3>3. b \in Seq(Int) /\ Len(b) = n /\ \A k \in 1 .. n : b[k] = undo_stack[s + k - 1].box
      BY ONLY <3>1, <3>2
    <3>4. GroupEntry.members = b
      BY <2>2, <3>1 DEF GroupEntry
    <3> QED
      BY <3>3, <3>4
  <2>4. /\ undo_stack' \in [Slots -> Edit]
        /\ \A i \in 0 .. s - 1 : undo_stack'[i] = undo_stack[i]
    BY <1>5, CollapsedFacts
  <2>5. StepOf(undo_stack'[s]) = ms
    <3>1. s \in Slots
      BY <1>2, <2>2 DEF Slots
    <3>2. undo_stack'[s] = GroupEntry
      BY <1>5, <3>1 DEF Collapsed
    <3>3. ms # <<>>
      BY <2>2, <2>3
    <3> QED
      BY <2>3, <3>2, <3>3 DEF StepOf
  <2>6. s \in Nat /\ s + n \in 0 .. CAP /\ s + 1 \in 0 .. CAP
    BY <1>2, <2>2
  <2>7. PICK ss \in Seq(Seq(Int)) :
          /\ ss = Steps(undo_stack, s + n) /\ Len(ss) = s + n
          /\ \A i \in 1 .. s + n : ss[i] = StepOf(undo_stack[i - 1])
    BY <1>1, <2>6, StepsType
  <2>8. PICK tt \in Seq(Seq(Int)) :
          /\ tt = Steps(undo_stack', s + 1) /\ Len(tt) = s + 1
          /\ \A i \in 1 .. s + 1 : tt[i] = StepOf(undo_stack'[i - 1])
    BY <2>4, <2>6, StepsType
  <2>9. tt[s + 1] = ms
    <3>1. s + 1 \in 1 .. s + 1 /\ (s + 1) - 1 = s
      BY <2>6
    <3> QED
      BY ONLY <2>5, <2>8, <3>1
  <2>10. \A i \in 1 .. s : tt[i] = ss[i]
    <3>1. \A i \in 1 .. s : i \in 1 .. s + 1 /\ i \in 1 .. s + n /\ i - 1 \in 0 .. s - 1
      BY <2>6
    <3> QED
      BY ONLY <2>4, <2>7, <2>8, <3>1
  <2>11. \A k \in 1 .. n : ss[s + k] = <<ms[k]>>
    <3> SUFFICES ASSUME NEW k \in 1 .. n PROVE ss[s + k] = <<ms[k]>>
      OBVIOUS
    <3>1. PICK i \in 0 .. CAP : i = s + k - 1 /\ (s + k) - 1 = i
      <4>1. s + k - 1 \in 0 .. CAP /\ (s + k) - 1 = s + k - 1
        BY <1>2, <2>2
      <4> QED
        BY <4>1
    <3>2. s + k \in 1 .. s + n /\ i \in s .. undo_len - 1
      BY <2>2, <2>6, <3>1
    <3>3. ss[s + k] = StepOf(undo_stack[i])
      BY ONLY <2>7, <3>1, <3>2
    <3>4. undo_stack[i].members = <<>> /\ ms[k] = undo_stack[i].box
      BY <2>1, <2>3, <3>1, <3>2
    <3> QED
      BY <3>3, <3>4 DEF StepOf
  <2>12. FlattenSeq(tt) = FlattenSeq(ss)
    <3>1. Len(ss) = s + Len(ms) /\ Len(tt) = s + 1
      BY <2>3, <2>7, <2>8
    <3>2. \A k \in 1 .. Len(ms) : ss[s + k] = <<ms[k]>>
      BY <2>3, <2>11
    <3> QED
      BY <2>6, <2>9, <2>10, <3>1, <3>2, FlatCollapse
  <2>13. History = FlattenSeq(ss)
    BY <1>1, <2>1, <2>2, <2>7
  <2>14. History' = FlattenSeq(tt)
    BY <1>5, <2>8 DEF History, Steps
  <2> QED
    BY ONLY <2>12, <2>13, <2>14
<1> QED
  BY <1>3, <1>4, <1>5 DEF CloseGroup

(* Every entry point keeps the document what the edits say.                *)
LEMMA NextHistory ==
  ASSUME IInv, GroupInv, HistoryInv, [Next]_vars
  PROVE  HistoryInv'
<1>1. CASE \E label \in Labels : Undoable(label)
  BY <1>1, UndoableHistory
<1>2. CASE Undo
  BY <1>2, UndoHistory
<1>3. CASE Redo
  BY <1>3, RedoHistory
<1>4. CASE UNCHANGED <<undo_stack, undo_cursor, doc, forgotten>>
  BY <1>4 DEF HistoryInv, HistoryInOrder, History
<1>5. CASE GroupEnd
  <2>1. CASE CloseGroup
    BY <1>5, <2>1, CloseGroupHistory DEF GroupEnd
  <2>2. CASE UNCHANGED <<undo_stack, undo_len, undo_cursor>>
    BY <1>4, <1>5, <2>2 DEF GroupEnd
  <2> QED
    BY <1>5, <2>1, <2>2 DEF GroupEnd
<1> QED
  BY <1>1, <1>2, <1>3, <1>4, <1>5
  DEF Next, GroupBegin, GroupEndNoMemory, vars, stackVars

(* An empty stack has done nothing.                                        *)
LEMMA InitHistory == Init => HistoryInv
<1> SUFFICES ASSUME Init PROVE HistoryInv
  OBVIOUS
<1>1. [i \in 1 .. undo_cursor |-> StepOf(undo_stack[i - 1])] = <<>>
  BY DEF Init
<1>2. History = <<>>
  BY <1>1 DEF History, FlattenSeq
<1> QED
  BY <1>2 DEF Init, HistoryInv, HistoryInOrder

(* In every execution the application's document is what the edits behind  *)
(* the cursor did, in their order, after those the full stack forgot: an   *)
(* undo meets the very state its edit left.                                *)
THEOREM HistoryInOrderAlways ==
  ASSUME ~StepInGroup
  PROVE  Spec => []HistoryInOrder
<1> DEFINE Inv == IInv /\ GroupInv /\ HistoryInv
<1>1. Init => Inv
  BY InitIInv, InitGroupInvNoLeak, InitHistory
<1>2. Inv /\ [Next]_vars => Inv'
  BY NextIInv, NextGroupInv, NextHistory
<1>3. Inv => HistoryInOrder
  BY DEF HistoryInv
<1> QED
  BY <1>1, <1>2, <1>3, PTL DEF Spec
=============================================================================
