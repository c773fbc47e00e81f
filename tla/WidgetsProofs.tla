---------------------------- MODULE WidgetsProofs ----------------------------
(***************************************************************************)
(* Of the listbox, the table and the tree, for every set of items, cells,  *)
(* nodes, and lists of any length: every index a listbox keeps is a row it *)
(* shows, it is one tab stop, the focus is on the selected row, no row     *)
(* looks selected that is not, and an update carries selection and anchor  *)
(* by item; a table shows its model, filtered and in order, and frees the  *)
(* views it minted and no other list; a tree has selected what it says.    *)
(*                                                                         *)
(* That the focus follows the selection is not inductive: a key's handler, *)
(* after the callback, focuses whatever row has come to its index, and Tab *)
(* whatever row is the stop.  Both rest on the stop of a single-select     *)
(* listbox being on the selected row and nowhere else.                     *)
(*                                                                         *)
(* That the view is freed once is not inductive either: it rests on the    *)
(* view being the table's own or the list it was last given, which arming  *)
(* the sorter over another list undoes.  The order of what is shown is     *)
(* that of an insertion sort: each turn is shown to keep it, and Climb     *)
(* (SweepingProofs) takes it to the last.                                  *)
(*                                                                         *)
(* Of a canvas: its surface shows its command list, and so does its pixel  *)
(* cache.  A surface that waits for a draw may show anything; what is      *)
(* inductive is that it is right outside the cells of the pending clip,    *)
(* and that the cache's key belongs to what it was painted from.           *)
(***************************************************************************)
EXTENDS Lists, Canvas, SweepingProofs, FiniteSetTheorems, SequenceTheorems

Row == [marked : BOOLEAN, stop : BOOLEAN]

(* OneTabStop without the cardinality.                                     *)
StopIsOne ==
  kind # "reorder" /\ rows # <<>> =>
    \E s \in DOMAIN rows : \A i \in DOMAIN rows : rows[i].stop <=> i = s

(* In a single-select listbox no row but StopRow is a stop.                *)
StopIsStopRow ==
  ~Multi => \A i \in DOMAIN rows : rows[i].stop => i = StopRow(selected)

(* What a listbox may be over: the application's items, or a tree's rows.  *)
TreeRows == [node : Nodes, turn : {0, 1}]
Listed == Items \cup TreeRows

(* TypeOK, of whatever is listed.                                          *)
TypeOfAny ==
  /\ kind \in {"single", "multi", "reorder"}
  /\ sel_mode \in {"toggle", "standard"}
  /\ items \in Seq(Listed)
  /\ rows \in Seq(Row) /\ Len(rows) = Len(items)
  /\ {selected, anchor, focus} \subseteq 0 .. Len(rows)
  /\ next \in Nat
  /\ sel_flags \in Seq(BOOLEAN) /\ Len(sel_flags) = IF Multi THEN Len(rows) ELSE 0

(* What holds of a tree's listbox too, and what the others keep besides.   *)
Base == TypeOfAny /\ StopIsOne
IInv == Base /\ StopIsStopRow /\ FocusFollowsSelection

(* A listbox of the application's items.                                   *)
ListInv == IInv /\ items \in Seq(Items)

-----------------------------------------------------------------------------
(* _listbox_index_of finds the item's row in the list, or that it has none. *)
LEMMA IndexInList ==
  ASSUME NEW S, NEW list \in Seq(S), NEW it
  PROVE  /\ IndexOf(list, it) \in 0 .. Len(list)
         /\ IndexOf(list, it) # 0 => list[IndexOf(list, it)] = it
         /\ IndexOf(list, it) = 0 => it \notin ToSet(list)
<1> DEFINE I == {i \in 1 .. Len(list) : list[i] = it}
           R == {ss \in Nat \X Nat : ss[1] < ss[2]}
<1>1. IndexOf(list, it) = IF I # {} THEN Min(I) ELSE 0
  BY DEF IndexOf, SelectInSeq
<1>2. CASE I = {}
  <2>1. it \notin ToSet(list)
    BY <1>2 DEF ToSet
  <2> QED
    BY <1>1, <1>2, <2>1
<1>3. CASE I # {}
  <2>1. IsWellFoundedOn(R, Nat)
    BY NatLessThanWellFounded DEF OpToRel
  <2>2. \A x, y \in Nat : y < x => <<y, x>> \in R
    OBVIOUS
  <2>3. I \subseteq Nat
    OBVIOUS
  <2> HIDE DEF R
  <2>4. PICK x \in I : \A y \in I : ~ (<<y, x>> \in R)
    BY <1>3, <2>1, <2>3, WFMin
  <2>5. \A y \in I : ~ (y < x)
    BY <2>2, <2>3, <2>4, Zenon
  <2>6. \A y \in I : x <= y
    BY <2>3, <2>5
  <2>7. Min(I) \in I
    BY <2>6 DEF Min
  <2> QED
    BY <1>1, <1>3, <2>7
<1> QED
  BY <1>2, <1>3

(* Rows that keep their stops and stay as many keep what is said of stops. *)
LEMMA SameStops ==
  ASSUME StopIsOne, StopIsStopRow, rows \in Seq(Row),
         kind' = kind, Len(rows') = Len(rows), rows' \in Seq(Row),
         \A i \in DOMAIN rows : rows'[i].stop = rows[i].stop,
         ~Multi => selected' = selected
  PROVE  StopIsOne' /\ StopIsStopRow'
<1>1. DOMAIN rows' = DOMAIN rows /\ (rows' # <<>> => rows # <<>>)
  OBVIOUS
<1>2. StopIsOne'
  BY <1>1 DEF StopIsOne
<1>3. StopIsStopRow'
  BY <1>1 DEF StopIsStopRow, StopRow, Multi
<1> QED
  BY <1>2, <1>3

(* A function on places is a list.                                         *)
LEMMA IsSeq ==
  ASSUME NEW S, NEW n \in Nat, NEW f \in [1 .. n -> S]
  PROVE  f \in Seq(S) /\ Len(f) = n /\ DOMAIN f = 1 .. n
  OBVIOUS

(* A row with its flag, and one with its class, written.                   *)
LEMMA Written ==
  ASSUME NEW r \in Row, NEW b \in BOOLEAN
  PROVE  /\ [r EXCEPT !.stop = b] \in Row /\ [r EXCEPT !.stop = b].stop = b
         /\ [r EXCEPT !.marked = b] \in Row /\ [r EXCEPT !.marked = b].stop = r.stop
  BY DEF Row

(* _listbox_rove_tabstop makes one row the stop.                           *)
LEMMA RovedIsOne ==
  ASSUME NEW rs \in Seq(Row), NEW s \in DOMAIN rs
  PROVE  /\ Roved(rs, s) \in Seq(Row)
         /\ Len(Roved(rs, s)) = Len(rs)
         /\ \A i \in DOMAIN rs : Roved(rs, s)[i].stop <=> i = s
<1>1. \A i \in DOMAIN rs : rs[i] \in Row /\ (i = s) \in BOOLEAN
  OBVIOUS
<1>2. \A i \in DOMAIN rs : /\ [rs[i] EXCEPT !.stop = (i = s)] \in Row
                           /\ [rs[i] EXCEPT !.stop = (i = s)].stop = (i = s)
  <2> TAKE i \in DOMAIN rs
  <2> DEFINE b == i = s
  <2>1. rs[i] \in Row /\ b \in BOOLEAN
    BY <1>1
  <2> HIDE DEF b
  <2>2. [rs[i] EXCEPT !.stop = b] \in Row /\ [rs[i] EXCEPT !.stop = b].stop = b
    BY <2>1, Written, Zenon
  <2> QED
    BY <2>2, Zenon DEF b
<1>3. \A i \in DOMAIN rs : Roved(rs, s)[i] = [rs[i] EXCEPT !.stop = (i = s)]
  BY Zenon DEF Roved
<1>4. DOMAIN rs = 1 .. Len(rs) /\ Len(rs) \in Nat
  OBVIOUS
<1>5. Roved(rs, s) \in [1 .. Len(rs) -> Row]
  BY <1>2, <1>4, Zenon DEF Roved
<1>6. \A i \in DOMAIN rs : Roved(rs, s)[i].stop <=> i = s
  BY <1>2, <1>3, Zenon
<1> QED
  BY <1>4, <1>5, <1>6, IsSeq, Zenon

(* Marking rows changes their class, not their tab stop.                   *)
LEMMA MarkedKeeps ==
  ASSUME rows \in Seq(Row), NEW flags \in Seq(BOOLEAN), Len(flags) = Len(rows),
         NEW written \in SUBSET DOMAIN rows
  PROVE  /\ Marked(written, flags) \in Seq(Row)
         /\ Len(Marked(written, flags)) = Len(rows)
         /\ \A i \in DOMAIN rows : Marked(written, flags)[i].stop = rows[i].stop
<1>1. \A i \in DOMAIN rows : rows[i] \in Row /\ flags[i] \in BOOLEAN /\ rows[i].marked \in BOOLEAN
  <2>1. \A i \in DOMAIN rows : rows[i] \in Row
    OBVIOUS
  <2>2. flags \in [1 .. Len(rows) -> BOOLEAN] /\ DOMAIN rows = 1 .. Len(rows)
    OBVIOUS
  <2>3. \A i \in DOMAIN rows : flags[i] \in BOOLEAN
    BY <2>2, Zenon
  <2>4. \A r \in Row : r.marked \in BOOLEAN
    BY DEF Row
  <2> QED
    BY <2>1, <2>3, <2>4, Zenon
<1> DEFINE m(i) == IF i \in written THEN flags[i] ELSE rows[i].marked
<1>2. \A i \in DOMAIN rows : m(i) \in BOOLEAN
  BY <1>1, Zenon
<1>3. \A i \in DOMAIN rows : Marked(written, flags)[i] = [rows[i] EXCEPT !.marked = m(i)]
  BY Zenon DEF Marked
<1>4. \A i \in DOMAIN rows : /\ Marked(written, flags)[i] \in Row
                             /\ Marked(written, flags)[i].stop = rows[i].stop
  <2> TAKE i \in DOMAIN rows
  <2>1. rows[i] \in Row /\ m(i) \in BOOLEAN
    BY <1>1, <1>2, Zenon
  <2>2. Marked(written, flags)[i] = [rows[i] EXCEPT !.marked = m(i)]
    BY <1>3, Zenon
  <2> DEFINE b == m(i)
  <2>3. rows[i] \in Row /\ b \in BOOLEAN /\ Marked(written, flags)[i] = [rows[i] EXCEPT !.marked = b]
    BY <2>1, <2>2, Zenon
  <2> HIDE DEF b
  <2>4. [rows[i] EXCEPT !.marked = b] \in Row /\ [rows[i] EXCEPT !.marked = b].stop = rows[i].stop
    BY <2>3, Written, Zenon
  <2> QED
    BY <2>3, <2>4, Zenon
<1>5. DOMAIN rows = 1 .. Len(rows) /\ Len(rows) \in Nat
  OBVIOUS
<1>6. Marked(written, flags) \in [1 .. Len(rows) -> Row]
  <2>1. Marked(written, flags) = [i \in DOMAIN rows |-> Marked(written, flags)[i]]
    BY Zenon DEF Marked
  <2> QED BY <1>4, <1>5, <2>1, Zenon
<1> QED
  BY <1>4, <1>5, <1>6, IsSeq, Zenon

(* The flags a selection leaves are one a row.                             *)
LEMMA FlagsAre ==
  ASSUME NEW n \in Nat, NEW flags \in Seq(BOOLEAN), Len(flags) = n, NEW i \in 1 .. n
  PROVE  [flags EXCEPT ![i] = ~@] \in Seq(BOOLEAN) /\ Len([flags EXCEPT ![i] = ~@]) = n
<1>1. flags \in [1 .. n -> BOOLEAN]
  OBVIOUS
<1>2. [flags EXCEPT ![i] = ~@] \in [1 .. n -> BOOLEAN]
  BY <1>1, Zenon
<1> QED
  BY <1>2, IsSeq, Zenon

(* The rows that are rendered: one of them is a stop.                      *)
LEMMA RenderedFacts ==
  ASSUME NEW list \in Seq(Listed), NEW sel
  PROVE  /\ Rendered(list, sel) \in Seq(Row) /\ Len(Rendered(list, sel)) = Len(list)
         /\ \A i \in DOMAIN Rendered(list, sel) :
              Rendered(list, sel)[i].stop <=> kind # "reorder" /\ i = StopRow(sel)
<1> DEFINE rs == Rendered(list, sel)
<1>1. DOMAIN list = 1 .. Len(list) /\ Len(list) \in Nat
  OBVIOUS
<1>2. \A b \in BOOLEAN : [marked |-> FALSE, stop |-> b] \in Row /\ [marked |-> FALSE, stop |-> b].stop = b
  BY DEF Row
<1>3. \A i \in DOMAIN list :
        rs[i] \in Row /\ rs[i].stop = (kind # "reorder" /\ i = StopRow(sel))
  <2> TAKE i \in DOMAIN list
  <2> DEFINE b == kind # "reorder" /\ i = StopRow(sel)
  <2>1. rs[i] = [marked |-> FALSE, stop |-> b] /\ b \in BOOLEAN
    BY Zenon DEF Rendered
  <2> HIDE DEF b, rs
  <2>2. rs[i] \in Row /\ rs[i].stop = b
    BY <1>2, <2>1, Zenon
  <2> QED
    BY <2>2, Zenon DEF b
<1>4. rs = [i \in DOMAIN list |-> rs[i]]
  BY Zenon DEF Rendered
<1> HIDE DEF rs
<1>5. rs \in [1 .. Len(list) -> Row]
  BY <1>1, <1>3, <1>4, Zenon
<1> QED
  BY <1>1, <1>3, <1>5, IsSeq, Zenon DEF rs

(* What a listbox_update of any list does to the rows, whatever the old    *)
(* list has become and wherever the selection is put afterwards.           *)
LEMMA ShowsKeeps ==
  ASSUME Base, NEW prev, NEW new \in Seq(Listed), NEW stray, Shows(prev, new, stray),
         selected' \in 0 .. Len(new), anchor' \in 0 .. Len(new)
  PROVE  /\ Base' /\ items' = new /\ focus' = 0 /\ kind' = kind /\ next' = next
         /\ selected' = SelectedNow(prev, new, stray) => IInv'
<1> DEFINE sel == SelectedNow(prev, new, stray)
<1>1. sel \in 0 .. Len(new)
  <2>1. \A i : NowAt(prev, new, i) \in 0 .. Len(new)
    BY IndexInList DEF NowAt
  <2> QED
    BY <2>1 DEF SelectedNow
<1>2. /\ rows' = Rendered(new, sel) /\ items' = new /\ focus' = 0
      /\ kind' = kind /\ sel_mode' = sel_mode /\ next' = next
  BY DEF Shows
<1> HIDE DEF sel
<1>3. DOMAIN new = 1 .. Len(new) /\ Len(new) \in Nat
  OBVIOUS
<1>4. /\ rows' \in Seq(Row) /\ Len(rows') = Len(new)
      /\ \A i \in DOMAIN rows' : rows'[i].stop <=> kind # "reorder" /\ i = StopRow(sel)
  BY <1>2, RenderedFacts
<1>5. sel_flags' \in Seq(BOOLEAN) /\ Len(sel_flags') = IF Multi THEN Len(new) ELSE 0
  <2>1. CASE Multi
    <3> DEFINE now == {NowAt(prev, new, k) : k \in Carried(prev, new, stray)}
    <3>1. sel_flags' = [j \in DOMAIN new |-> j \in now]
      BY <2>1, Zenon DEF Shows
    <3> HIDE DEF now
    <3>2. \A j \in DOMAIN new : (j \in now) \in BOOLEAN
      OBVIOUS
    <3>3. sel_flags' \in [1 .. Len(new) -> BOOLEAN]
      BY <1>3, <3>1, <3>2
    <3> QED
      BY <1>3, <2>1, <3>3, IsSeq, Zenon
  <2>2. CASE ~Multi
    BY <2>2 DEF Shows
  <2> QED
    BY <2>1, <2>2
<1>6. TypeOfAny'
  BY <1>2, <1>4, <1>5 DEF Base, TypeOfAny, Row, Multi
<1>7. rows' # <<>> => StopRow(sel) \in DOMAIN rows'
  BY <1>1, <1>3, <1>4 DEF StopRow
<1>8. StopIsOne'
  BY <1>2, <1>4, <1>7 DEF StopIsOne
<1>9. selected' = sel => StopIsStopRow'
  BY <1>2, <1>4 DEF StopIsStopRow, Multi, StopRow
<1> QED
  BY <1>2, <1>6, <1>8, <1>9 DEF IInv, Base, FocusFollowsSelection, sel

(* A listbox_update of any list.                                           *)
LEMMA UpdateKeeps ==
  ASSUME Base, NEW prev, NEW new \in Seq(Listed), ListboxUpdate(prev, new)
  PROVE  IInv' /\ items' = new
<1>1. PICK stray \in SUBSET Stray(prev) :
        /\ Shows(prev, new, stray)
        /\ selected' = SelectedNow(prev, new, stray)
        /\ anchor' = NowAt(prev, new, anchor)
  BY DEF ListboxUpdate
<1>2. \A i : NowAt(prev, new, i) \in 0 .. Len(new)
  BY IndexInList DEF NowAt
<1>3. selected' \in 0 .. Len(new) /\ anchor' \in 0 .. Len(new)
  BY <1>1, <1>2 DEF SelectedNow
<1> QED
  BY <1>1, <1>3, ShowsKeeps

(* _listbox_row_clicked of a row, or of none in a single-select listbox.   *)
LEMMA ClickKeeps ==
  ASSUME Base, NEW i \in 0 .. Len(rows), NEW m, i = 0 => ~Multi /\ rows # <<>>,
         RowClicked(i, m), next' \in Nat
  PROVE  IInv'
<1>1. /\ kind' = kind /\ sel_mode' = sel_mode /\ items' = items /\ selected' = i
      /\ focus' = IF i # 0 /\ rows'[i].stop THEN i ELSE focus
  BY DEF RowClicked, ApplySelection, FocusRow
<1>2. /\ rows \in Seq(Row) /\ Len(rows) = Len(items)
      /\ kind \in {"single", "multi", "reorder"} /\ sel_mode \in {"toggle", "standard"}
      /\ items \in Seq(Listed) /\ anchor \in 0 .. Len(rows) /\ focus \in 0 .. Len(rows)
      /\ sel_flags \in Seq(BOOLEAN) /\ Len(sel_flags) = IF Multi THEN Len(rows) ELSE 0
      /\ StopIsOne
  BY DEF Base, TypeOfAny, Row
<1>3. CASE ~Multi
  <2>1. rows' = Roved(Highlight(i), StopRow(i)) /\ sel_flags' = sel_flags /\ anchor' = anchor
    BY <1>3 DEF RowClicked, ApplySelection
  <2>2. Highlight(i) \in Seq(Row) /\ Len(Highlight(i)) = Len(rows)
    <3>1. DOMAIN rows = 1 .. Len(rows) /\ Len(rows) \in Nat /\ \A j \in DOMAIN rows : rows[j] \in Row
      BY <1>2
    <3>2. \A j \in DOMAIN rows :
            [rows[j] EXCEPT !.marked = j = i \/ (@ /\ j # selected)] \in Row
      BY <3>1, Written, Zenon
    <3>3. Highlight(i) \in [1 .. Len(rows) -> Row]
      BY <3>1, <3>2, Zenon DEF Highlight
    <3> QED
      BY <3>1, <3>3, IsSeq, Zenon
  <2>3. StopRow(i) \in DOMAIN Highlight(i)
    BY <1>2, <1>3, <2>2 DEF StopRow
  <2>4. /\ rows' \in Seq(Row) /\ Len(rows') = Len(rows)
        /\ \A j \in DOMAIN rows' : rows'[j].stop <=> j = StopRow(i)
    BY <2>1, <2>2, <2>3, RovedIsOne
  <2>5. TypeOfAny'
    BY <1>1, <1>2, <2>1, <2>4 DEF TypeOfAny, Row, Multi
  <2>6. StopRow(i) \in DOMAIN rows'
    BY <2>2, <2>3, <2>4
  <2>7. StopIsOne' /\ StopIsStopRow'
    BY <1>1, <2>4, <2>6 DEF StopIsOne, StopIsStopRow, Multi, StopRow
  <2>8. i # 0 => rows'[i].stop
    BY <1>2, <2>4 DEF StopRow
  <2> QED
    BY <1>1, <2>5, <2>7, <2>8 DEF IInv, Base, FocusFollowsSelection
<1>4. CASE Multi
  <2>1. i \in DOMAIN rows
    BY <1>2, <1>4
  <2>2. \/ Extend(i) \/ ToggleOne(i) \/ Only(i) \/ ToggleMode(i)
    BY <1>4 DEF RowClicked, ApplySelection, ApplyStandard
  <2>3. sel_flags' \in Seq(BOOLEAN) /\ Len(sel_flags') = Len(rows) /\ anchor' \in 0 .. Len(rows)
    <3>1. DOMAIN rows = 1 .. Len(rows) /\ Len(rows) \in Nat /\ i \in 0 .. Len(rows)
      BY <1>2
    <3>2. CASE Extend(i)
      <4>1. sel_flags' \in [1 .. Len(rows) -> BOOLEAN] /\ anchor' = anchor
        BY <3>1, <3>2, Zenon DEF Extend
      <4> QED
        BY <1>2, <3>1, <4>1, IsSeq, Zenon
    <3>3. CASE ToggleOne(i) \/ ToggleMode(i)
      <4>1. sel_flags' = [sel_flags EXCEPT ![i] = ~@] /\ anchor' = i
        BY <3>3, Zenon DEF ToggleOne, ToggleMode
      <4>2. sel_flags \in Seq(BOOLEAN) /\ Len(sel_flags) = Len(rows)
        BY <1>2, <1>4
      <4> QED
        BY <2>1, <3>1, <4>1, <4>2, FlagsAre, Zenon
    <3>4. CASE Only(i)
      <4>1. sel_flags' \in [1 .. Len(rows) -> BOOLEAN] /\ anchor' = i
        BY <3>1, <3>4, Zenon DEF Only
      <4> QED
        BY <3>1, <4>1, IsSeq, Zenon
    <3> QED
      BY <2>2, <3>2, <3>3, <3>4
  <2>4. PICK written \in SUBSET DOMAIN rows :
          rows' = Marked(written, sel_flags') \/ rows' = Roved(Marked(written, sel_flags'), i)
    BY <2>1, <2>2 DEF Extend, ToggleOne, Only, ToggleMode
  <2> DEFINE rs == Marked(written, sel_flags')
  <2>5. /\ rs \in Seq(Row) /\ Len(rs) = Len(rows)
        /\ \A j \in DOMAIN rows : rs[j].stop = rows[j].stop
    BY <1>2, <2>3, MarkedKeeps
  <2> HIDE DEF rs
  <2>6. /\ rows' \in Seq(Row) /\ Len(rows') = Len(rows) /\ StopIsOne' /\ StopIsStopRow'
    <3>1. CASE rows' = rs
      <4>1. StopIsStopRow
        BY <1>4 DEF StopIsStopRow
      <4> QED
        BY <1>1, <1>2, <1>4, <2>5, <3>1, <4>1, SameStops
    <3>2. CASE rows' = Roved(rs, i)
      <4>1. i \in DOMAIN rs
        BY <1>2, <2>1, <2>5
      <4>2. /\ rows' \in Seq(Row) /\ Len(rows') = Len(rows)
            /\ \A j \in DOMAIN rows' : rows'[j].stop <=> j = i
        BY <2>5, <3>2, <4>1, RovedIsOne
      <4>3. i \in DOMAIN rows'
        BY <1>2, <2>1, <4>2
      <4> QED
        BY <1>1, <1>4, <4>2, <4>3 DEF StopIsOne, StopIsStopRow, Multi
    <3> QED
      BY <2>4, <3>1, <3>2 DEF rs
  <2>7. TypeOfAny'
    BY <1>1, <1>2, <1>4, <2>3, <2>6 DEF TypeOfAny, Row, Multi
  <2> QED
    BY <1>1, <1>4, <2>6, <2>7 DEF IInv, Base, FocusFollowsSelection, Multi
<1> QED
  BY <1>3, <1>4

(* listbox_move leaves a list of items.                                    *)
LEMMA RotatedIsList ==
  ASSUME NEW list \in Seq(Items), NEW from \in DOMAIN list, NEW to \in DOMAIN list
  PROVE  Rotated(list, from, to) \in Seq(Items)
<1> DEFINE rest == RemoveAt(list, from)
<1>0. from \in 1 .. Len(list) /\ Len(list) \in Nat
  OBVIOUS
<1>1. rest \in Seq(Items) /\ Len(rest) = Len(list) - 1
  <2>1. SubSeq(list, 1, from - 1) \in Seq(Items) /\ Len(SubSeq(list, 1, from - 1)) = from - 1
    BY <1>0
  <2>2. /\ SubSeq(list, from + 1, Len(list)) \in Seq(Items)
        /\ Len(SubSeq(list, from + 1, Len(list))) = Len(list) - from
    BY <1>0
  <2> DEFINE a == SubSeq(list, 1, from - 1)
             b == SubSeq(list, from + 1, Len(list))
  <2>3. rest = a \o b
    BY DEF RemoveAt
  <2> HIDE DEF rest, a, b
  <2>4. a \in Seq(Items) /\ b \in Seq(Items)
    BY <2>1, <2>2 DEF a, b
  <2>5. a \o b \in Seq(Items) /\ Len(a \o b) = Len(a) + Len(b)
    BY ONLY <2>4
  <2>6. Len(a) + Len(b) = Len(list) - 1
    <3>1. Len(a) = from - 1 /\ Len(b) = Len(list) - from
      BY <2>1, <2>2 DEF a, b
    <3> QED
      BY ONLY <1>0, <3>1
  <2> QED
    BY <2>3, <2>5, <2>6
<1>2. to \in 1 .. Len(list) /\ list[from] \in Items
  OBVIOUS
<1> HIDE DEF rest
<1>3. SubSeq(rest, 1, to - 1) \in Seq(Items) /\ SubSeq(rest, to, Len(rest)) \in Seq(Items)
  BY <1>1, <1>2
<1>4. <<list[from]>> \in Seq(Items)
  BY <1>2
<1>5. InsertAt(rest, to, list[from]) \in Seq(Items)
  BY <1>3, <1>4 DEF InsertAt
<1> QED
  BY <1>5 DEF Rotated, rest

(* A new listbox has nothing selected and its stop on the first row.       *)
LEMMA InitKeeps == Init => ListInv
<1> SUFFICES ASSUME Init PROVE ListInv
  OBVIOUS
<1>1. rows = <<>> /\ items = <<>> /\ selected = 0 /\ anchor = 0 /\ focus = 0 /\ next = 0
  BY DEF Init
<1>2. TypeOfAny
  BY DEF Init, TypeOfAny, Multi
<1> QED
  BY <1>1, <1>2 DEF ListInv, IInv, Base, StopIsOne, StopIsStopRow, FocusFollowsSelection

(* A write of the rows' classes and flags, in a multi listbox.             *)
LEMMA MarkingKeeps ==
  ASSUME Base, Multi, NEW written \in SUBSET DOMAIN rows,
         sel_flags' \in Seq(BOOLEAN), Len(sel_flags') = Len(rows),
         rows' = Marked(written, sel_flags'),
         selected' \in 0 .. Len(rows), anchor' \in 0 .. Len(rows),
         UNCHANGED <<kind, sel_mode, items, focus, next>>
  PROVE  IInv'
<1>1. rows \in Seq(Row) /\ StopIsOne /\ StopIsStopRow
  BY DEF Base, TypeOfAny, StopIsStopRow
<1>2. /\ rows' \in Seq(Row) /\ Len(rows') = Len(rows)
      /\ \A i \in DOMAIN rows : rows'[i].stop = rows[i].stop
  BY <1>1, MarkedKeeps
<1>3. StopIsOne' /\ StopIsStopRow'
  BY <1>1, <1>2, SameStops
<1>4. TypeOfAny'
  BY <1>2 DEF Base, TypeOfAny, Multi
<1> QED
  BY <1>3, <1>4 DEF IInv, Base, FocusFollowsSelection, Multi

(* What a step that lets the variables of the listbox alone keeps.         *)
LEMMA IdleKeeps == UNCHANGED vars => (Base => Base') /\ (IInv => IInv')
BY DEF vars, IInv, Base, TypeOfAny, StopIsOne, StopIsStopRow, FocusFollowsSelection, Multi, StopRow

(* A person's steps, over whatever is listed.                              *)
LEMMA UsedKeeps ==
  ASSUME Base, Used
  PROVE  Base' /\ (IInv => IInv') /\ items' = items /\ kind' = kind
<1>1. /\ rows \in Seq(Row) /\ Len(rows) = Len(items) /\ items \in Seq(Listed)
      /\ DOMAIN rows = 1 .. Len(rows) /\ DOMAIN items = DOMAIN rows /\ Len(rows) \in Nat
      /\ selected \in 0 .. Len(rows) /\ anchor \in 0 .. Len(rows) /\ focus \in 0 .. Len(rows)
      /\ next \in Nat /\ StopIsOne
  BY DEF Base, TypeOfAny
<1>2. ASSUME NEW i \in DOMAIN rows, NEW m, Click(i, m)
      PROVE  IInv' /\ items' = items /\ kind' = kind
  <2>1. i \in 0 .. Len(rows) /\ i # 0 /\ next' \in Nat
    BY <1>1, <1>2 DEF Click
  <2> QED
    BY <1>2, <2>1, ClickKeeps DEF Click, RowClicked
<1>3. ASSUME NEW k \in Keys, NEW m, Key(k, m)
      PROVE  IInv' /\ items' = items /\ kind' = kind
  <2>1. KeyTarget(k) \in 1 .. Len(rows)
    BY <1>1, <1>3 DEF Key, KeyTarget, Keys
  <2>2. next' \in Nat
    BY <1>3, <2>1 DEF Key
  <2> QED
    BY <1>3, <2>1, <2>2, ClickKeeps DEF Key, RowClicked
<1>4. CASE KeyReturns \/ TabInto \/ FocusLeaves
  <2>1. /\ UNCHANGED <<kind, sel_mode, items, rows, selected, anchor, sel_flags>>
        /\ focus' \in {focus, 0} \cup {i \in DOMAIN rows : rows[i].stop} /\ next' \in Nat
    BY <1>1, <1>4 DEF KeyReturns, TabInto, FocusLeaves
  <2>2. Base'
    BY <1>1, <2>1 DEF Base, TypeOfAny, StopIsOne, Multi
  <2>3. IInv => StopIsStopRow' /\ FocusFollowsSelection'
    BY <2>1 DEF IInv, StopIsStopRow, FocusFollowsSelection, Multi, StopRow
  <2> QED
    BY <2>1, <2>2, <2>3 DEF IInv
<1> QED
  BY <1>2, <1>3, <1>4 DEF Used, IInv

(* listbox_select(lb, -1), over whatever is listed.                        *)
LEMMA DeselectKeeps ==
  ASSUME Base, Deselect
  PROVE  IInv' /\ items' = items
<1>1. 0 \in 0 .. Len(rows) /\ next' \in Nat
  BY DEF Base, TypeOfAny, Deselect, Click
<1> QED
  BY <1>1, ClickKeeps DEF Deselect, Click, RowClicked

(* Every entry of the listbox.                                             *)
LEMMA NextKeeps == ListInv /\ [Next]_vars => ListInv'
<1> SUFFICES ASSUME ListInv, [Next]_vars PROVE ListInv'
  OBVIOUS
<1> USE DEF ListInv
<1>1. /\ rows \in Seq(Row) /\ Len(rows) = Len(items) /\ items \in Seq(Items) /\ Base
      /\ DOMAIN rows = 1 .. Len(rows) /\ DOMAIN items = DOMAIN rows /\ Len(rows) \in Nat
      /\ selected \in 0 .. Len(rows) /\ anchor \in 0 .. Len(rows)
      /\ sel_flags \in Seq(BOOLEAN) /\ (Multi => Len(sel_flags) = Len(rows))
  BY DEF IInv, Base, TypeOfAny
<1>2. CASE Used
  BY <1>1, <1>2, UsedKeeps
<1>3. CASE Deselect
  BY <1>1, <1>3, DeselectKeeps
<1>4. ASSUME NEW i \in DOMAIN rows, NEW on \in BOOLEAN, SetSelected(i, on) PROVE ListInv'
  <2>1. sel_flags' \in Seq(BOOLEAN) /\ Len(sel_flags') = Len(rows)
    <3>1. sel_flags \in [1 .. Len(rows) -> BOOLEAN]
      BY <1>1, <1>4 DEF SetSelected
    <3>2. sel_flags' \in [1 .. Len(rows) -> BOOLEAN]
      BY <1>1, <1>4, <3>1, Zenon DEF SetSelected
    <3> QED
      BY <1>1, <3>2, IsSeq, Zenon
  <2>2. selected' \in 0 .. Len(rows) /\ anchor' \in 0 .. Len(rows)
    BY <1>1, <1>4 DEF SetSelected
  <2>3. /\ Multi /\ {i} \in SUBSET DOMAIN rows /\ rows' = Marked({i}, sel_flags')
        /\ UNCHANGED <<kind, sel_mode, items, focus, next>>
    BY <1>4, Zenon DEF SetSelected
  <2> QED
    BY <1>1, <2>1, <2>2, <2>3, MarkingKeeps
<1>5. CASE ClearSelection
  <2>1. sel_flags' \in Seq(BOOLEAN) /\ Len(sel_flags') = Len(rows)
    <3>1. sel_flags' \in [1 .. Len(rows) -> BOOLEAN]
      BY <1>1, <1>5, Zenon DEF ClearSelection
    <3> QED
      BY <1>1, <3>1, IsSeq, Zenon
  <2>2. selected' \in 0 .. Len(rows) /\ anchor' \in 0 .. Len(rows)
    BY <1>1, <1>5 DEF ClearSelection
  <2>3. /\ Multi /\ rows' = Marked(DOMAIN rows, sel_flags')
        /\ UNCHANGED <<kind, sel_mode, items, focus, next>>
    BY <1>5, Zenon DEF ClearSelection
  <2> QED
    BY <1>1, <2>1, <2>2, <2>3, MarkingKeeps
<1>6. ASSUME NEW mode \in {"toggle", "standard"}, SelectionMode(mode) PROVE ListInv'
  BY <1>6 DEF SelectionMode, IInv, Base, TypeOfAny, StopIsOne, StopIsStopRow, FocusFollowsSelection, Multi, StopRow
<1>7. ASSUME NEW prev, NEW new \in Seq(Items), ListboxUpdate(prev, new) PROVE ListInv'
  <2>1. new \in Seq(Listed)
    BY DEF Listed
  <2> QED
    BY <1>1, <1>7, <2>1, UpdateKeeps
<1>8. ASSUME NEW new \in Lists, Update(new) \/ UpdateInPlace(new) PROVE ListInv'
  <2>1. new \in Seq(Items)
    BY DEF Lists, BoundedSeq, SeqOf
  <2> QED
    BY <1>7, <1>8, <2>1 DEF Update, UpdateInPlace
<1>9. ASSUME NEW from \in DOMAIN items, NEW to \in DOMAIN items, Move(from, to) PROVE ListInv'
  BY <1>1, <1>7, <1>9, RotatedIsList DEF Move
<1>10. CASE UNCHANGED vars
  BY <1>10, IdleKeeps DEF vars
<1> QED
  BY <1>2, <1>3, <1>4, <1>5, <1>6, <1>8, <1>9, <1>10 DEF Next, Programmed

(* Rows' classes: what writing one of the two fields does to it.           *)
LEMMA WrittenClass ==
  ASSUME NEW r \in Row, NEW b \in BOOLEAN
  PROVE  [r EXCEPT !.stop = b].marked = r.marked /\ [r EXCEPT !.marked = b].marked = b
  BY DEF Row

(* A moved tab stop leaves the classes.                                    *)
LEMMA RovedWears ==
  ASSUME NEW rs \in Seq(Row), NEW s
  PROVE  /\ DOMAIN Roved(rs, s) = DOMAIN rs
         /\ \A i \in DOMAIN rs : Roved(rs, s)[i].marked = rs[i].marked
<1>1. DOMAIN Roved(rs, s) = DOMAIN rs
  BY Zenon DEF Roved
<1>2. ASSUME NEW i \in DOMAIN rs
      PROVE  Roved(rs, s)[i].marked = rs[i].marked
  <2> DEFINE b == i = s
  <2>1. Roved(rs, s)[i] = [rs[i] EXCEPT !.stop = b] /\ b \in BOOLEAN
    BY Zenon DEF Roved
  <2>2. rs[i] \in Row
    OBVIOUS
  <2> HIDE DEF b
  <2>3. [rs[i] EXCEPT !.stop = b].marked = rs[i].marked
    BY <2>1, <2>2, WrittenClass, Zenon
  <2> QED
    BY <2>1, <2>3, Zenon
<1> QED
  BY <1>1, <1>2

(* A row written wears its flag, another what it wore.                     *)
LEMMA MarkedWears ==
  ASSUME rows \in Seq(Row), NEW flags \in Seq(BOOLEAN), Len(flags) = Len(rows),
         NEW written \in SUBSET DOMAIN rows, NEW i \in DOMAIN rows
  PROVE  /\ i \in written => Marked(written, flags)[i].marked = flags[i]
         /\ i \notin written => Marked(written, flags)[i].marked = rows[i].marked
<1> DEFINE b == IF i \in written THEN flags[i] ELSE rows[i].marked
<1>1. rows[i] \in Row /\ flags[i] \in BOOLEAN
  OBVIOUS
<1>2. rows[i].marked \in BOOLEAN
  BY <1>1 DEF Row
<1>3. b \in BOOLEAN
  BY <1>1, <1>2, Zenon
<1>4. Marked(written, flags)[i] = [rows[i] EXCEPT !.marked = b]
  BY Zenon DEF Marked
<1>5. (i \in written => b = flags[i]) /\ (i \notin written => b = rows[i].marked)
  OBVIOUS
<1> HIDE DEF b
<1>6. [rows[i] EXCEPT !.marked = b].marked = b
  BY <1>1, <1>3, WrittenClass, Zenon
<1>7. Marked(written, flags)[i].marked = b
  BY <1>4, <1>6, Zenon
<1> QED
  BY <1>5, <1>7, Zenon

(* So where the flags of the rows that are not written stay, nothing comes *)
(* to look selected that is not.                                           *)
LEMMA LookFollowsFlags ==
  ASSUME IInv, LookOnlyIfSelected, Multi, kind' = kind, NEW written \in SUBSET DOMAIN rows,
         sel_flags' \in Seq(BOOLEAN), Len(sel_flags') = Len(rows),
         \A i \in DOMAIN rows \ written : sel_flags'[i] = sel_flags[i],
         \/ rows' = Marked(written, sel_flags')
         \/ \E s : rows' = Roved(Marked(written, sel_flags'), s)
  PROVE  LookOnlyIfSelected'
<1> DEFINE rs == Marked(written, sel_flags')
<1>1. rows \in Seq(Row) /\ DOMAIN rows = 1 .. Len(rows)
  BY DEF IInv, Base, TypeOfAny, Row
<1>2. rs \in Seq(Row) /\ Len(rs) = Len(rows)
  BY <1>1, MarkedKeeps
<1>3. \A i \in DOMAIN rows : rs[i].marked => sel_flags'[i]
  <2> SUFFICES ASSUME NEW i \in DOMAIN rows, rs[i].marked
               PROVE  sel_flags'[i]
    OBVIOUS
  <2>1. CASE i \in written
    BY <1>1, <2>1, MarkedWears
  <2>2. CASE i \notin written
    <3>1. rows[i].marked
      BY <1>1, <2>2, MarkedWears
    <3> QED
      BY <2>2, <3>1 DEF LookOnlyIfSelected, Selection
  <2> QED
    BY <2>1, <2>2
<1> HIDE DEF rs
<1>4. DOMAIN rows' = DOMAIN rows /\ \A i \in DOMAIN rows : rows'[i].marked = rs[i].marked
  BY <1>1, <1>2, RovedWears DEF rs
<1> QED
  BY <1>3, <1>4 DEF LookOnlyIfSelected, Selection, Multi

(* A click, in each of the modes.                                          *)
LEMMA ClickLook ==
  ASSUME IInv, LookOnlyIfSelected, NEW i \in 0 .. Len(rows), NEW m,
         i = 0 => ~Multi /\ rows # <<>>, RowClicked(i, m), IInv'
  PROVE  LookOnlyIfSelected'
<1>1. kind' = kind /\ selected' = i
  BY DEF RowClicked, ApplySelection
<1>2. rows \in Seq(Row) /\ DOMAIN rows = 1 .. Len(rows)
  BY DEF IInv, Base, TypeOfAny, Row
<1>3. CASE ~Multi
  <2>1. rows' = Roved(Highlight(i), StopRow(i))
    BY <1>3 DEF RowClicked, ApplySelection
  <2>2. ASSUME NEW j \in DOMAIN rows
        PROVE  /\ Highlight(i)[j] \in Row
               /\ Highlight(i)[j].marked => j = i
    <3> DEFINE b == j = i \/ (rows[j].marked /\ j # selected)
    <3>1. b => j = i
      BY <1>3 DEF LookOnlyIfSelected, Selection
    <3>2. Highlight(i)[j] = [rows[j] EXCEPT !.marked = b] /\ b \in BOOLEAN
      BY Zenon DEF Highlight
    <3>3. rows[j] \in Row
      BY <1>2
    <3> HIDE DEF b
    <3>4. [rows[j] EXCEPT !.marked = b].marked = b /\ [rows[j] EXCEPT !.marked = b] \in Row
      BY <3>2, <3>3, Written, WrittenClass, Zenon
    <3> QED
      BY <3>1, <3>2, <3>4, Zenon
  <2>3. Highlight(i) \in [1 .. Len(rows) -> Row]
    <3>1. Highlight(i) = [j \in DOMAIN rows |-> Highlight(i)[j]]
      BY Zenon DEF Highlight
    <3> QED
      BY <1>2, <2>2, <3>1, Zenon
  <2>4. Highlight(i) \in Seq(Row) /\ DOMAIN Highlight(i) = DOMAIN rows
    BY <1>2, <2>3, IsSeq
  <2>5. DOMAIN rows' = DOMAIN rows /\ \A j \in DOMAIN rows : rows'[j].marked => j = i
    BY <2>1, <2>2, <2>4, RovedWears
  <2>6. \A j \in DOMAIN rows : j # 0
    BY <1>2
  <2> QED
    BY <1>1, <1>3, <2>5, <2>6 DEF LookOnlyIfSelected, Selection, Multi
<1>4. CASE Multi
  <2>1. Extend(i) \/ ToggleOne(i) \/ Only(i) \/ ToggleMode(i)
    BY <1>4 DEF RowClicked, ApplySelection, ApplyStandard
  <2>2. i \in DOMAIN rows /\ sel_flags \in [1 .. Len(rows) -> BOOLEAN]
    BY <1>2, <1>4 DEF IInv, Base, TypeOfAny
  <2>3. sel_flags' \in Seq(BOOLEAN) /\ Len(sel_flags') = Len(rows)
    <3>1. sel_flags' \in Seq(BOOLEAN) /\ Len(sel_flags') = Len(rows')
      BY <1>1, <1>4 DEF IInv, Base, TypeOfAny, Multi
    <3>2. sel_flags' \in [1 .. Len(rows) -> BOOLEAN]
      BY <1>2, <2>1, <2>2, Zenon DEF Extend, ToggleOne, Only, ToggleMode
    <3> QED
      BY <1>2, <3>1, <3>2
  <2>4. CASE Extend(i) \/ Only(i)
    <3>1. \/ rows' = Marked(DOMAIN rows, sel_flags')
          \/ rows' = Roved(Marked(DOMAIN rows, sel_flags'), i)
      BY <2>4 DEF Extend, Only
    <3>2. \A j \in DOMAIN rows \ DOMAIN rows : sel_flags'[j] = sel_flags[j]
      OBVIOUS
    <3> QED
      BY <1>1, <1>4, <2>3, <3>1, <3>2, LookFollowsFlags
  <2>5. CASE ToggleOne(i) \/ ToggleMode(i)
    <3>1. \/ rows' = Marked({i}, sel_flags')
          \/ rows' = Roved(Marked({i}, sel_flags'), i)
      BY <2>5 DEF ToggleOne, ToggleMode
    <3>2. \A j \in DOMAIN rows \ {i} : sel_flags'[j] = sel_flags[j]
      BY <1>2, <2>2, <2>5, Zenon DEF ToggleOne, ToggleMode
    <3> QED
      BY <1>1, <1>4, <2>2, <2>3, <3>1, <3>2, LookFollowsFlags
  <2> QED
    BY <2>1, <2>4, <2>5
<1> QED
  BY <1>3, <1>4

(* Every entry: an update marks no row, and the program's writes are       *)
(* those of a click.                                                       *)
LEMMA NextLook ==
  ASSUME IInv, LookOnlyIfSelected, [Next]_vars, IInv'
  PROVE  LookOnlyIfSelected'
<1>1. /\ DOMAIN rows = 1 .. Len(rows) /\ Len(rows) \in Nat /\ selected \in 0 .. Len(rows)
      /\ focus \in 0 .. Len(rows)
      /\ Multi => sel_flags \in [1 .. Len(rows) -> BOOLEAN]
  BY DEF IInv, Base, TypeOfAny, Row
<1>2. ASSUME NEW i \in DOMAIN rows, NEW m, Click(i, m) PROVE LookOnlyIfSelected'
  BY <1>1, <1>2, ClickLook DEF Click
<1>3. ASSUME NEW k \in Keys, NEW m, Key(k, m) PROVE LookOnlyIfSelected'
  <2>1. KeyTarget(k) \in 1 .. Len(rows)
    BY <1>1, <1>3 DEF Key, KeyTarget, Keys
  <2> QED
    BY <1>3, <2>1, ClickLook DEF Key
<1>4. CASE \/ KeyReturns \/ TabInto \/ FocusLeaves \/ UNCHANGED vars
           \/ \E mode \in {"toggle", "standard"} : SelectionMode(mode)
  <2>1. UNCHANGED <<kind, rows, selected, sel_flags>>
    BY <1>4 DEF KeyReturns, TabInto, FocusLeaves, SelectionMode, vars
  <2> QED
    BY <2>1 DEF LookOnlyIfSelected, Selection, Multi
<1>5. CASE Deselect
  BY <1>1, <1>5, ClickLook DEF Deselect, Click
<1>6. ASSUME NEW i \in DOMAIN rows, NEW on \in BOOLEAN, SetSelected(i, on)
      PROVE  LookOnlyIfSelected'
  <2>1. /\ Multi /\ kind' = kind /\ rows' = Marked({i}, sel_flags')
        /\ sel_flags' = [sel_flags EXCEPT ![i] = on]
    BY <1>6 DEF SetSelected
  <2>2. /\ sel_flags' \in [1 .. Len(rows) -> BOOLEAN]
        /\ \A j \in DOMAIN rows \ {i} : sel_flags'[j] = sel_flags[j]
    BY <1>1, <2>1, Zenon
  <2>3. sel_flags' \in Seq(BOOLEAN) /\ Len(sel_flags') = Len(rows)
    BY <1>1, <2>2, IsSeq
  <2> QED
    BY <2>1, <2>2, <2>3, {i} \in SUBSET DOMAIN rows, LookFollowsFlags
<1>7. CASE ClearSelection
  <2>1. /\ Multi /\ kind' = kind /\ rows' = Marked(DOMAIN rows, sel_flags')
        /\ sel_flags' \in [1 .. Len(rows) -> BOOLEAN]
    BY <1>1, <1>7, Zenon DEF ClearSelection
  <2>2. \A j \in DOMAIN rows \ DOMAIN rows : sel_flags'[j] = sel_flags[j]
    OBVIOUS
  <2> QED
    BY <1>1, <2>1, <2>2, IsSeq, LookFollowsFlags
<1>8. ASSUME NEW prev, NEW new, ListboxUpdate(prev, new) PROVE LookOnlyIfSelected'
  <2>1. PICK sel : rows' = Rendered(new, sel)
    BY <1>8 DEF ListboxUpdate, Shows
  <2>2. DOMAIN rows' = DOMAIN new /\ \A i \in DOMAIN new : ~ rows'[i].marked
    BY <2>1 DEF Rendered
  <2> QED
    BY <2>2 DEF LookOnlyIfSelected
<1> QED
  BY <1>2, <1>3, <1>4, <1>5, <1>6, <1>7, <1>8
     DEF Next, Used, Programmed, Update, UpdateInPlace, Move

(* Every index kept is a row: the arrays are never read beyond their end   *)
(* but by the key handler of KeyReturns.                                   *)
THEOREM IndicesAreRows == Spec => []TypeOK
<1>1. ListInv => TypeOK
  BY DEF ListInv, IInv, Base, TypeOfAny, TypeOK, Row
<1> QED
  BY <1>1, InitKeeps, NextKeeps, PTL DEF Spec

(* What is said of stops is what OneTabStop says.                          *)
LEMMA OneStop == Base => OneTabStop
<1> SUFFICES ASSUME Base, kind # "reorder", rows # <<>>
             PROVE  Cardinality({i \in DOMAIN rows : rows[i].stop}) = 1
  BY DEF OneTabStop
<1>1. PICK s \in DOMAIN rows : \A i \in DOMAIN rows : rows[i].stop <=> i = s
  BY DEF Base, StopIsOne
<1>2. {i \in DOMAIN rows : rows[i].stop} = {s}
  BY <1>1
<1> QED
  BY <1>2, FS_Singleton

(* The list is one tab stop, and the focus is on the selected row.         *)
THEOREM KeysHaveTheirPlace == Spec => []OnePlaceForKeys
<1>1. ListInv => OnePlaceForKeys
  BY OneStop DEF ListInv, IInv, OnePlaceForKeys
<1> QED
  BY <1>1, InitKeeps, NextKeeps, PTL DEF Spec

(* LookOnlyIfSelected: no row looks selected that is not, whichever of the *)
(* two modes and of the entry points wrote the rows.                       *)
THEOREM LookIsOfTheSelected == Spec => []LookOnlyIfSelected
<1>1. Init => LookOnlyIfSelected
  BY DEF Init, LookOnlyIfSelected
<1>2. ListInv /\ LookOnlyIfSelected /\ [Next]_vars => LookOnlyIfSelected'
  BY NextKeeps, NextLook DEF ListInv
<1> QED
  BY <1>1, <1>2, InitKeeps, NextKeeps, PTL DEF Spec

(* --- what an update carries ---------------------------------------------- *)

(* A set of rows that is not empty has a last one.                         *)
LEMMA LastRow ==
  ASSUME NEW n \in Nat, NEW S \in SUBSET (1 .. n), S # {}
  PROVE  \E k \in S : \A j \in S : j <= k
<1> DEFINE R == OpToRel(<, Nat)
           T == {n - k : k \in S}
<1>1. IsWellFoundedOn(R, Nat)
  BY NatLessThanWellFounded
<1>2. T \subseteq Nat /\ T # {}
  <2>1. \A k \in S : n - k \in Nat
    OBVIOUS
  <2> QED
    BY <2>1
<1> HIDE DEF R
<1>3. PICK t \in T : \A u \in T : <<u, t>> \notin R
  BY <1>1, <1>2, WFMin
<1>4. PICK k \in S : t = n - k
  BY <1>3
<1>5. \A u \in T : ~(u < t)
  BY <1>2, <1>3 DEF R, OpToRel
<1>6. \A j \in S : ~(n - j < n - k)
  BY <1>4, <1>5
<1> QED
  BY <1>6

(* Update: what was picked and is still listed stays picked, and nothing   *)
(* else is; the last row of those is the selected one; the anchor stays on *)
(* its item.                                                               *)
LEMMA ShowsCarries ==
  ASSUME ListInv, Base', NEW new \in Seq(Items), NEW stray \in SUBSET Stray(items),
         Shows(items, new, stray), selected' = SelectedNow(items, new, stray)
  PROVE  SelectionCarried
<1>1. /\ Len(rows) = Len(items) /\ items \in Seq(Items) /\ DOMAIN rows = DOMAIN items
      /\ selected \in 0 .. Len(items)
      /\ Multi => sel_flags \in Seq(BOOLEAN) /\ Len(sel_flags) = Len(items)
  BY DEF ListInv, IInv, Base, TypeOfAny
<1>2. Shows(items, new, stray) /\ selected' = SelectedNow(items, new, stray)
  OBVIOUS
<1>3. /\ items' = new /\ kind' = kind /\ Len(rows') = Len(new)
      /\ DOMAIN rows' = DOMAIN new /\ (Multi' <=> Multi)
  BY <1>2 DEF Shows, IInv, Base, TypeOfAny, Multi
<1>4. \A i : /\ NowAt(items, new, i) \in 0 .. Len(new)
             /\ NowAt(items, new, i) # 0 => new[NowAt(items, new, i)] = ItemAt(items, i)
             /\ NowAt(items, new, i) = 0 => ItemAt(items, i) \notin ToSet(new)
  BY IndexInList DEF NowAt
<1>5. \A i \in DOMAIN items : ItemAt(items, i) = items[i]
  BY DEF ItemAt
<1>7. ToSet(items') = ToSet(new)
  BY <1>3
<1>8. CASE ~Multi
  <2>1. selected' = NowAt(items, new, selected)
    BY <1>2, <1>8 DEF SelectedNow
  <2>2. Selection = {selected} \ {0} /\ Selection' = {selected'} \ {0}
    BY <1>3, <1>8 DEF Selection
  <2>3. CASE selected = 0
    <3>1. ItemAt(items, selected) \notin ToSet(new)
      <4>1. 0 \notin DOMAIN items
        BY <1>1
      <4>2. ToSet(new) \subseteq Items
        BY DEF ToSet
      <4> QED
        BY <2>3, <4>1, <4>2, ItemsAssumption DEF ItemAt
    <3>2. selected' = 0
      <4>1. \A j \in DOMAIN new : new[j] \in ToSet(new)
        BY DEF ToSet
      <4> QED
        BY <1>4, <2>1, <3>1, <4>1
    <3>3. PickedItems = {} /\ PickedItems' = {}
      BY <2>2, <2>3, <3>2 DEF PickedItems
    <3> QED
      BY <3>2, <3>3 DEF SelectionCarried
  <2>4. CASE selected # 0
    <3>1. PickedItems = {items[selected]} /\ ItemAt(items, selected) = items[selected]
      BY <1>1, <1>5, <2>2, <2>4 DEF PickedItems
    <3>2. CASE selected' = 0
      <4>1. PickedItems' = {} /\ items[selected] \notin ToSet(new)
        BY <1>4, <2>1, <2>2, <3>1, <3>2 DEF PickedItems
      <4> QED
        BY <1>7, <3>1, <3>2, <4>1 DEF SelectionCarried
    <3>3. CASE selected' # 0
      <4>1. selected' \in DOMAIN new /\ new[selected'] = items[selected]
        BY <1>4, <2>1, <3>1, <3>3
      <4>2. PickedItems' = {items[selected]} /\ items[selected] \in ToSet(new)
        BY <1>3, <2>2, <3>3, <4>1 DEF PickedItems, ToSet
      <4> QED
        BY <1>7, <2>2, <3>1, <3>3, <4>2 DEF SelectionCarried
    <3> QED
      BY <3>2, <3>3
  <2> QED
    BY <2>3, <2>4
<1>9. CASE Multi
  <2> DEFINE kept == Carried(items, new, stray)
             now == {NowAt(items, new, k) : k \in kept}
  <2>1. stray = {}
    BY <1>1, <1>9 DEF Stray
  <2>2. kept = {k \in DOMAIN items : sel_flags[k] /\ NowAt(items, new, k) # 0}
    BY <1>1, <1>9, <2>1 DEF Carried
  <2>3. now \subseteq DOMAIN new
    BY <1>4, <2>2
  <2>4. sel_flags' = [j \in DOMAIN new |-> j \in now]
    BY <1>2, <1>9 DEF Shows
  <2>5. Selection' = now
    <3> HIDE DEF now
    <3> QED
      BY <1>3, <1>9, <2>3, <2>4 DEF Selection
  <2>6. Selection = {k \in DOMAIN items : sel_flags[k]}
    BY <1>1, <1>9 DEF Selection
  <2>7. PickedItems' = {new[j] : j \in now}
    BY <1>3, <2>5 DEF PickedItems
  <2>8. PickedItems = {items[k] : k \in {i \in DOMAIN items : sel_flags[i]}}
    BY <2>6 DEF PickedItems
  <2>9. \A k \in kept : new[NowAt(items, new, k)] = items[k] /\ sel_flags[k] /\ k \in DOMAIN items
    BY <1>4, <1>5, <2>2
  <2>10. \A k \in DOMAIN items : sel_flags[k] /\ items[k] \in ToSet(new) => k \in kept
    BY <1>4, <1>5, <2>2
  <2>11. \A j \in DOMAIN new : new[j] \in ToSet(new)
    BY DEF ToSet
  <2>12. PickedItems' = PickedItems \cap ToSet(new)
    <3>1. ASSUME NEW x \in PickedItems' PROVE x \in PickedItems \cap ToSet(new)
      <4>1. PICK k \in kept : x = new[NowAt(items, new, k)]
        BY <2>7, <3>1
      <4> QED
        BY <2>3, <2>8, <2>9, <2>11, <4>1
    <3>2. ASSUME NEW x \in PickedItems \cap ToSet(new) PROVE x \in PickedItems'
      <4>1. PICK k \in DOMAIN items : sel_flags[k] /\ x = items[k]
        BY <2>8, <3>2
      <4>2. k \in kept
        BY <2>10, <3>2, <4>1
      <4> QED
        BY <2>7, <2>9, <4>1, <4>2
    <3> QED
      BY <3>1, <3>2
  <2>13. selected' # 0 => selected' \in Selection'
    <3> SUFFICES ASSUME selected' # 0 PROVE selected' \in now
      BY <2>5
    <3>1. kept # {}
      BY <1>2, <1>9 DEF SelectedNow
    <3>2. kept \in SUBSET (1 .. Len(items)) /\ Len(items) \in Nat
      BY <1>1, <2>2
    <3>3. \E k \in kept : \A j \in kept : j <= k
      BY <3>1, <3>2, LastRow
    <3> DEFINE last == CHOOSE k \in kept : \A j \in kept : j <= k
    <3>4. selected' = NowAt(items, new, last)
      BY <1>2, <1>9, <3>1 DEF SelectedNow
    <3>5. last \in kept
      BY <3>3
    <3> QED
      BY <3>4, <3>5
  <2> QED
    BY <1>7, <2>12, <2>13 DEF SelectionCarried
<1> QED
  BY <1>8, <1>9

(* The whole of an update, of the list the listbox holds as it is.         *)
LEMMA UpdateCarries ==
  ASSUME ListInv, NEW new \in Seq(Items), Update(new)
  PROVE  SelectionCarried /\ AnchorCarried
<1>1. PICK stray \in SUBSET Stray(items) :
        /\ Shows(items, new, stray)
        /\ selected' = SelectedNow(items, new, stray)
        /\ anchor' = NowAt(items, new, anchor)
  BY DEF Update, ListboxUpdate
<1>2. Base /\ new \in Seq(Listed)
  BY DEF ListInv, IInv, Listed
<1>3. Base' /\ items' = new
  BY <1>2, UpdateKeeps DEF Update, IInv
<1>4. NowAt(items, new, anchor) # 0 => new[NowAt(items, new, anchor)] = ItemAt(items, anchor)
  BY IndexInList DEF NowAt
<1> QED
  BY <1>1, <1>3, <1>4, ShowsCarries DEF AnchorCarried

(* The listbox's part of ItemsCarried: an update with another list carries *)
(* the selection and the anchor by item and not by row, whatever list it   *)
(* is and in whatever order.                                               *)
THEOREM UpdatesCarryItems ==
  Spec => [][\A new \in Lists : Update(new) => SelectionCarried /\ AnchorCarried]_vars
<1>1. ListInv /\ [Next]_vars
        => [\A new \in Lists : Update(new) => SelectionCarried /\ AnchorCarried]_vars
  <2>1. \A new \in Lists : new \in Seq(Items)
    BY DEF Lists, BoundedSeq, SeqOf
  <2> QED
    BY <2>1, UpdateCarries
<1> QED
  BY <1>1, InitKeeps, NextKeeps, PTL DEF Spec

(* --- the order of a table ------------------------------------------------ *)

(* What InsertAt is.                                                       *)
LEMMA InsertIs ==
  ASSUME NEW s, NEW i, NEW it
  PROVE  InsertAt(s, i, it) = SubSeq(s, 1, i - 1) \o <<it>> \o SubSeq(s, i, Len(s))
BY DEF InsertAt

(* An item put into a list, after k others.                                *)
PutAfter(S, s, k, it, w) ==
  /\ w \in Seq(S) /\ Len(w) = Len(s) + 1
  /\ \A j \in 1 .. Len(s) + 1 :
       w[j] = IF j <= k THEN s[j] ELSE IF j = k + 1 THEN it ELSE s[j - 1]
(* InsertAt puts it there.                                                 *)
LEMMA Insertion ==
  ASSUME NEW S, NEW s \in Seq(S), NEW it \in S, NEW k \in 0 .. Len(s)
  PROVE  PutAfter(S, s, k, it, InsertAt(s, k + 1, it))
<1> DEFINE a == SubSeq(s, 1, k)
           b == SubSeq(s, k + 1, Len(s))
           c == a \o <<it>>
           n == Len(s)
<1>1. n \in Nat /\ k \in 0 .. n
  OBVIOUS
<1>2. a \in Seq(S) /\ Len(a) = k /\ \A j \in 1 .. k : a[j] = s[j]
  BY <1>1
<1>3. b \in Seq(S) /\ Len(b) = n - k /\ \A j \in 1 .. n - k : b[j] = s[j + k]
  BY <1>1
<1>4. InsertAt(s, k + 1, it) = c \o b
  <2>1. PICK i : i = k + 1
    OBVIOUS
  <2>2. InsertAt(s, i, it) = SubSeq(s, 1, i - 1) \o <<it>> \o SubSeq(s, i, Len(s))
    BY ONLY InsertIs
  <2>3. i - 1 = k
    BY ONLY <1>1, <2>1
  <2> QED
    BY ONLY <2>1, <2>2, <2>3
<1> HIDE DEF a, b
<1> DEFINE e == <<it>>
<1>5. e \in Seq(S) /\ Len(e) = 1 /\ e[1] = it
  OBVIOUS
<1> HIDE DEF e
<1>6. /\ c \in Seq(S) /\ Len(c) = Len(a) + Len(e)
      /\ \A j \in 1 .. Len(a) + Len(e) : c[j] = IF j <= Len(a) THEN a[j] ELSE e[j - Len(a)]
  <2>1. c = a \o e
    BY Zenon DEF e
  <2>2. a \in Seq(S) /\ e \in Seq(S)
    BY <1>2, <1>5
  <2> HIDE DEF c
  <2> QED
    BY <2>1, <2>2, ConcatProperties
<1> HIDE DEF c
<1>7. Len(c) = k + 1 /\ c[k + 1] = it /\ \A j \in 1 .. k : c[j] = s[j]
  BY <1>1, <1>2, <1>5, <1>6
<1> DEFINE w == c \o b
<1>8. /\ w \in Seq(S) /\ Len(w) = Len(c) + Len(b)
      /\ \A j \in 1 .. Len(c) + Len(b) : w[j] = IF j <= Len(c) THEN c[j] ELSE b[j - Len(c)]
  <2>1. b \in Seq(S) /\ c \in Seq(S)
    BY <1>3, <1>6
  <2> QED
    BY ONLY <2>1, ConcatProperties
<1> HIDE DEF w, n
<1>9. Len(w) = n + 1
  BY ONLY <1>1, <1>3, <1>7, <1>8
<1>10. ASSUME NEW j \in 1 .. n + 1
       PROVE  w[j] = IF j <= k THEN s[j] ELSE IF j = k + 1 THEN it ELSE s[j - 1]
  <2>1. CASE j <= k + 1
    BY ONLY <1>1, <1>3, <1>7, <1>8, <1>10, <2>1
  <2>2. CASE ~ (j <= k + 1)
    <3>1. /\ j - Len(c) \in 1 .. n - k /\ j - Len(c) + k = j - 1 /\ j \in 1 .. Len(c) + Len(b)
          /\ ~ (j <= k) /\ j # k + 1 /\ ~ (j <= Len(c))
      <4>1. Len(c) = k + 1 /\ Len(b) = n - k
        BY ONLY <1>3, <1>7
      <4> QED
        BY ONLY <1>1, <1>10, <2>2, <4>1
    <3>2. w[j] = b[j - Len(c)]
      BY <1>8, <3>1, Zenon
    <3>3. b[j - Len(c)] = s[j - 1]
      BY <1>3, <3>1, Zenon
    <3> QED
      BY <3>1, <3>2, <3>3, Zenon
  <2> QED
    BY <2>1, <2>2, Zenon
<1> QED
  BY <1>4, <1>8, <1>9, <1>10, Zenon DEF w, n, PutAfter

(* A table that is sorted by a column it has.                              *)
Sorting(t) == t.sort_dir \in {-1, 1} /\ t.sort_col \in Cols

(* The comparison of two items goes one way only, and where all read as    *)
(* numbers, or none does, what is not above what is not above a third is   *)
(* not above the third.                                                    *)
LEMMA AboveFacts ==
  ASSUME NEW t, Sorting(t), NEW x \in Items, NEW y \in Items
  PROVE  /\ Above(t, x, y) => ~Above(t, y, x)
         /\ \A z \in Items :
              /\ ~Above(t, x, y) /\ ~Above(t, y, z)
              /\ Cell[x][t.sort_col].numeric = Cell[y][t.sort_col].numeric
              /\ Cell[y][t.sort_col].numeric = Cell[z][t.sort_col].numeric
              => ~Above(t, x, z)
<1> DEFINE cell(i) == Cell[i][t.sort_col]
<1>1. \A i \in Items : /\ cell(i).num \in Int /\ cell(i).text \in Int
                       /\ cell(i).numeric \in BOOLEAN
  <2> SUFFICES ASSUME NEW i \in Items
               PROVE  cell(i).num \in Int /\ cell(i).text \in Int /\ cell(i).numeric \in BOOLEAN
    OBVIOUS
  <2>1. Cell \in [Items -> [Cols -> [text : Int, num : Int, numeric : BOOLEAN]]]
    BY TableAssumption, Zenon
  <2>2. t.sort_col \in Cols
    BY Zenon DEF Sorting
  <2>3. Cell[i] \in [Cols -> [text : Int, num : Int, numeric : BOOLEAN]]
    BY <2>1, Zenon
  <2>4. cell(i) \in [text : Int, num : Int, numeric : BOOLEAN]
    BY <2>2, <2>3, Zenon
  <2> QED
    BY <2>4
<1> DEFINE minus(i, j) == Compared(cell(i), cell(j))
<1>2. \A i, j \in Items :
        minus(i, j) = IF cell(i).numeric /\ cell(j).numeric THEN cell(i).num - cell(j).num
                      ELSE cell(i).text - cell(j).text
  BY DEF Compared
<1>3. \A i, j \in Items : Above(t, i, j) <=> minus(i, j) * t.sort_dir > 0
  BY DEF Above
<1> HIDE DEF cell, minus
<1>4. \A i, j \in Items : minus(i, j) \in Int /\ minus(j, i) = 0 - minus(i, j)
  BY <1>1, <1>2
<1>5. \A i, j \in Items :
        Above(t, i, j) <=> (t.sort_dir = 1 /\ minus(i, j) > 0) \/ (t.sort_dir = -1 /\ minus(i, j) < 0)
  BY <1>3, <1>4 DEF Sorting
<1>6. Above(t, x, y) => ~Above(t, y, x)
  BY <1>4, <1>5
<1>7. ASSUME NEW z \in Items, ~Above(t, x, y), ~Above(t, y, z),
             cell(x).numeric = cell(y).numeric, cell(y).numeric = cell(z).numeric
      PROVE  ~Above(t, x, z)
  <2>1. minus(x, z) = minus(x, y) + minus(y, z)
    BY <1>1, <1>2, <1>7
  <2> QED
    BY <1>4, <1>5, <1>7, <2>1 DEF Sorting
<1> QED
  BY <1>6, <1>7 DEF cell

(* The place an item is put in: past the last that is not above it.        *)
LEMMA InsertedAfter ==
  ASSUME NEW t, NEW s \in Seq(Items), NEW x \in Items
  PROVE  \E top \in 0 .. Len(s) :
           /\ Inserted(t, s, x) = InsertAt(s, top + 1, x)
           /\ top # 0 => ~Above(t, s[top], x)
           /\ \A j \in top + 1 .. Len(s) : Above(t, s[j], x)
<1> DEFINE stays == {i \in DOMAIN s : ~Above(t, s[i], x)}
           S == stays \cup {0}
           top == Max(S)
<1>1. Len(s) \in Nat /\ DOMAIN s = 1 .. Len(s)
  OBVIOUS
<1>2. \E m \in S : \A y \in S : m >= y
  <2>1. stays \in SUBSET (1 .. Len(s))
    BY <1>1
  <2> HIDE DEF stays
  <2>2. CASE stays = {}
    BY <2>2
  <2>3. CASE stays # {}
    <3>1. PICK k \in stays : \A j \in stays : j <= k
      BY <1>1, <2>1, <2>3, LastRow
    <3> QED
      BY <1>1, <2>1, <3>1
  <2> QED
    BY <2>2, <2>3
<1>3. top \in S /\ \A y \in S : top >= y
  <2> HIDE DEF S
  <2> QED
    BY <1>2 DEF Max
<1>4. Inserted(t, s, x) = InsertAt(s, top + 1, x)
  BY Zenon DEF Inserted
<1> HIDE DEF top
<1>5. top \in 0 .. Len(s) /\ (top # 0 => ~Above(t, s[top], x))
  BY <1>1, <1>3
<1>6. \A j \in top + 1 .. Len(s) : Above(t, s[j], x)
  <2> TAKE j \in top + 1 .. Len(s)
  <2>1. j \in 1 .. Len(s) /\ ~ (top >= j)
    BY <1>1, <1>5
  <2>2. j \notin S
    BY <1>3, <2>1
  <2> QED
    BY <1>1, <2>1, <2>2
<1> QED
  BY <1>4, <1>5, <1>6

(* s has the first n of list, next to each other in order, and all in      *)
(* order if they are of a kind; f says where each of them was.             *)
Ordered(t, list, n, s, f) ==
  /\ s \in Seq(Items) /\ Len(s) = n
  /\ f \in [1 .. n -> 1 .. n]
  /\ \A j \in 1 .. n : s[j] = list[f[j]]
  /\ \A i \in 1 .. n : \E j \in 1 .. n : f[j] = i
  /\ \A i, j \in 1 .. n : i < j /\ (j = i + 1 \/ OfAKind(t, list)) =>
       /\ ~Above(t, s[i], s[j])
       /\ ~Above(t, s[j], s[i]) => f[i] < f[j]

(* One turn of the insertion sort.                                         *)
LEMMA OrderedNext ==
  ASSUME NEW t, Sorting(t), NEW list \in Seq(Items), NEW m \in 1 .. Len(list),
         NEW s, NEW f, Ordered(t, list, m - 1, s, f)
  PROVE  \E h : Ordered(t, list, m, Inserted(t, s, list[m]), h)
<1> DEFINE x == list[m]
           n == m - 1
           d == Inserted(t, s, x)
<1>1. m \in Nat /\ n \in Nat /\ n + 1 = m /\ x \in Items /\ 1 .. n \subseteq 1 .. m
      /\ m \in DOMAIN list /\ \A j \in 1 .. m : j \in DOMAIN list
  OBVIOUS
<1>2. /\ s \in Seq(Items) /\ Len(s) = n /\ f \in [1 .. n -> 1 .. n]
      /\ \A j \in 1 .. n : s[j] = list[f[j]] /\ s[j] \in Items
      /\ \A i \in 1 .. n : \E j \in 1 .. n : f[j] = i
      /\ \A i, j \in 1 .. n : i < j /\ (j = i + 1 \/ OfAKind(t, list)) =>
           /\ ~Above(t, s[i], s[j])
           /\ ~Above(t, s[j], s[i]) => f[i] < f[j]
  <2>1. s \in Seq(Items) /\ Len(s) = n
    BY Zenon DEF Ordered
  <2>2. \A j \in 1 .. n : s[j] \in Items
    BY <2>1
  <2> QED
    BY <2>1, <2>2, Zenon DEF Ordered
<1>3. PICK top \in 0 .. n :
        /\ d = InsertAt(s, top + 1, x)
        /\ top # 0 => ~Above(t, s[top], x)
        /\ \A j \in top + 1 .. n : Above(t, s[j], x)
  <2>1. s \in Seq(Items) /\ x \in Items /\ Len(s) = n
    BY <1>1, <1>2
  <2> QED
    BY <2>1, InsertedAfter
<1> HIDE DEF d, x
<1>4. /\ d \in Seq(Items) /\ Len(d) = m
      /\ \A j \in 1 .. m : d[j] = IF j <= top THEN s[j] ELSE IF j = top + 1 THEN x ELSE s[j - 1]
  <2>1. s \in Seq(Items) /\ x \in Items /\ top \in 0 .. Len(s) /\ Len(s) + 1 = m
    BY <1>1, <1>2, <1>3
  <2> DEFINE w == InsertAt(s, top + 1, x)
  <2>2. PutAfter(Items, s, top, x, w)
    BY <2>1, Insertion
  <2>3. d = w
    BY <1>3
  <2> HIDE DEF w
  <2> QED
    BY <2>1, <2>2, <2>3 DEF PutAfter
<1> DEFINE h == [j \in 1 .. m |-> IF j <= top THEN f[j] ELSE IF j = top + 1 THEN m ELSE f[j - 1]]
           old(j) == IF j <= top THEN j ELSE j - 1
<1>5. \A j \in 1 .. m : j # top + 1 =>
        old(j) \in 1 .. n /\ d[j] = s[old(j)] /\ h[j] = f[old(j)] /\ f[old(j)] \in 1 .. n
  <2> TAKE j \in 1 .. m
  <2> HAVE j # top + 1
  <2>1. old(j) \in 1 .. n
    BY <1>1, <1>3
  <2>2. d[j] = s[old(j)] /\ h[j] = f[old(j)]
    BY <1>4
  <2> QED
    BY <1>2, <2>1, <2>2
<1>6. top + 1 \in 1 .. m /\ d[top + 1] = x /\ h[top + 1] = m /\ ~ (top + 1 <= top)
  <2>1. top + 1 \in 1 .. m /\ ~ (top + 1 <= top)
    BY ONLY <1>1, <1>3
  <2>2. h[top + 1] = m
    BY <2>1, Zenon
  <2>3. d[top + 1] = x
    BY <1>4, <2>1, Zenon
  <2> QED
    BY ONLY <2>1, <2>2, <2>3
<1>7. DOMAIN h = 1 .. m
  OBVIOUS
<1>8. h \in [1 .. m -> 1 .. m]
  <2>1. \A j \in 1 .. m : h[j] \in 1 .. m
    <3> TAKE j \in 1 .. m
    <3>1. m \in 1 .. m
      BY <1>1
    <3>2. CASE j = top + 1
      BY <1>6, <3>1, <3>2, Zenon
    <3>3. CASE j # top + 1
      BY <1>1, <1>5, <3>3, Zenon
    <3> QED
      BY <3>2, <3>3
  <2> QED
    BY <2>1
<1>9. \A i \in 1 .. n : IF i <= top THEN i \in 1 .. m /\ h[i] = f[i]
                        ELSE i + 1 \in 1 .. m /\ h[i + 1] = f[i]
  BY <1>1, <1>3
<1> HIDE DEF h
<1>10. \A j \in 1 .. m : d[j] = list[h[j]]
  <2> TAKE j \in 1 .. m
  <2>1. CASE j = top + 1
    BY <1>6, <2>1 DEF x
  <2>2. CASE j # top + 1
    <3> DEFINE o == old(j)
    <3>1. o \in 1 .. n /\ d[j] = s[o] /\ h[j] = f[o]
      BY <1>5, <2>2
    <3> HIDE DEF o
    <3>2. s[o] = list[f[o]]
      BY <1>2, <3>1
    <3> QED
      BY <3>1, <3>2
  <2> QED
    BY <2>1, <2>2
<1>11. \A i \in 1 .. m : \E j \in 1 .. m : h[j] = i
  <2> TAKE i \in 1 .. m
  <2>1. CASE i = m
    BY <1>6, <2>1
  <2>2. CASE i # m
    <3>1. i \in 1 .. n
      BY <1>1, <2>2
    <3>2. PICK j \in 1 .. n : f[j] = i
      BY <1>2, <3>1
    <3> QED
      BY <1>9, <3>2
  <2> QED
    BY <2>1, <2>2
<1>12. ASSUME NEW i \in 1 .. m, NEW j \in 1 .. m, i < j, j = i + 1 \/ OfAKind(t, list)
       PROVE  ~Above(t, d[i], d[j]) /\ (~Above(t, d[j], d[i]) => h[i] < h[j])
  <2>1. CASE j = top + 1
    <3>1. i \in 1 .. n /\ i <= top /\ top # 0 /\ top \in 1 .. n
      BY <1>1, <1>3, <1>12, <2>1
    <3>2. d[i] = s[i] /\ d[j] = x /\ h[i] = f[i] /\ h[j] = m /\ f[i] \in 1 .. n
      BY <1>5, <1>6, <2>1, <3>1, i # top + 1
    <3>3. h[i] < h[j]
      BY <1>1, <3>2
    <3>4. ~Above(t, s[i], x)
      <4>1. CASE i = top
        BY <1>3, <3>1, <4>1
      <4>2. CASE i # top
        <5>1. i < top /\ OfAKind(t, list)
          BY <1>1, <1>3, <1>12, <2>1, <3>1, <4>2
        <5>2. ~Above(t, s[i], s[top]) /\ ~Above(t, s[top], x)
          BY <1>2, <1>3, <3>1, <5>1
        <5>3. s[i] = list[f[i]] /\ s[top] = list[f[top]] /\ x = list[m]
              /\ f[i] \in DOMAIN list /\ f[top] \in DOMAIN list /\ m \in DOMAIN list
          BY <1>1, <1>2, <3>1 DEF x
        <5>4. /\ Cell[s[i]][t.sort_col].numeric = Cell[s[top]][t.sort_col].numeric
              /\ Cell[s[top]][t.sort_col].numeric = Cell[x][t.sort_col].numeric
          BY <5>1, <5>3 DEF OfAKind
        <5>5. s[i] \in Items /\ s[top] \in Items /\ x \in Items
          BY <1>1, <1>2, <3>1 DEF x
        <5> QED
          BY <5>2, <5>4, <5>5, AboveFacts
      <4> QED
        BY <4>1, <4>2
    <3> QED
      BY <3>2, <3>3, <3>4
  <2>2. CASE i = top + 1
    <3>1. j # top + 1 /\ old(j) \in top + 1 .. n /\ old(j) \in 1 .. n
      BY <1>1, <1>3, <1>12, <2>2
    <3>2. d[i] = x /\ d[j] = s[old(j)] /\ Above(t, s[old(j)], x)
      BY <1>3, <1>5, <1>6, <2>2, <3>1
    <3>3. s[old(j)] \in Items /\ x \in Items
      BY <1>1, <1>2, <3>1 DEF x
    <3> QED
      BY <3>2, <3>3, AboveFacts
  <2>3. CASE i # top + 1 /\ j # top + 1
    <3>1. old(i) \in 1 .. n /\ old(j) \in 1 .. n /\ d[i] = s[old(i)] /\ d[j] = s[old(j)]
          /\ h[i] = f[old(i)] /\ h[j] = f[old(j)]
      BY <1>5, <2>3
    <3>2. old(i) < old(j) /\ (j = i + 1 => old(j) = old(i) + 1)
      BY <1>1, <1>3, <1>12, <2>3
    <3> HIDE DEF old
    <3> QED
      BY <1>2, <1>12, <3>1, <3>2
  <2> QED
    BY <2>1, <2>2, <2>3
<1>13. Ordered(t, list, m, d, h)
  BY <1>4, <1>8, <1>10, <1>11, <1>12 DEF Ordered
<1> QED
  BY <1>13 DEF d, x

(* The insertion sort, all of it.                                          *)
LEMMA SortListFacts ==
  ASSUME NEW t, Sorting(t), NEW list \in Seq(Items)
  PROVE  \E f : Ordered(t, list, Len(list), SortList(t, list), f)
<1> DEFINE n == Len(list)
           A == Seq(Items)
           F == [i \in 1 .. n |-> [s \in A |-> Inserted(t, s, list[i])]]
           Turned(h) == h = [i \in 0 .. n |-> IF i = 0 THEN <<>> ELSE Inserted(t, h[i - 1], list[i])]
           sorted == CHOOSE h : Turned(h)
<1>1. n \in Nat /\ \A i \in 1 .. n : list[i] \in Items /\ i - 1 \in 0 .. n /\ i \in 0 .. n /\ i # 0
  OBVIOUS
<1>2. \A s \in A, x \in Items : Inserted(t, s, x) \in A
  <2> TAKE s \in A, x \in Items
  <2>1. PICK top \in 0 .. Len(s) : Inserted(t, s, x) = InsertAt(s, top + 1, x)
    BY InsertedAfter
  <2> QED
    BY <2>1, Insertion DEF PutAfter
<1> HIDE DEF A, n
<1>3. F \in [1 .. n -> [A -> A]]
  <2>1. ASSUME NEW i \in 1 .. n PROVE [s \in A |-> Inserted(t, s, list[i])] \in [A -> A]
    BY <1>1, <1>2
  <2> QED
    BY <2>1, Zenon
<1>4. <<>> \in A
  BY DEF A
<1>5. PICK g : LoopRun(n, A, <<>>, F, g)
  <2> HIDE DEF F
  <2> QED
    BY <1>1, <1>3, <1>4, LoopRuns
<1>6. \A i \in 1 .. n : g[i] = Inserted(t, g[i - 1], list[i])
  <2> TAKE i \in 1 .. n
  <2>1. g[i - 1] \in A
    BY <1>1, <1>5, Zenon DEF LoopRun
  <2>2. g[i] = F[i][g[i - 1]]
    BY <1>5, Zenon DEF LoopRun
  <2> QED
    BY <2>1, <2>2, Zenon
<1>7. Turned(g)
  <2>1. \A i \in 0 .. n : g[i] = IF i = 0 THEN <<>> ELSE Inserted(t, g[i - 1], list[i])
    <3> TAKE i \in 0 .. n
    <3>1. i = 0 \/ i \in 1 .. n
      BY <1>1
    <3> QED
      BY <1>1, <1>5, <1>6, <3>1, Zenon DEF LoopRun
  <2> QED
    BY <1>5, <2>1, Zenon DEF LoopRun
<1>8. Turned(sorted)
  <2> HIDE DEF Turned
  <2> QED
    BY <1>7
<1>9. SortList(t, list) = sorted[n]
  <2>1. t.sort_dir # 0
    BY DEF Sorting
  <2> QED
    BY <2>1 DEF SortList, n
<1> HIDE DEF sorted, Turned, F
<1>10. sorted[0] = <<>> /\ \A i \in 1 .. n : sorted[i] = Inserted(t, sorted[i - 1], list[i])
  <2>1. \A i \in 0 .. n : sorted[i] = IF i = 0 THEN <<>> ELSE Inserted(t, sorted[i - 1], list[i])
    BY <1>8, Zenon DEF Turned
  <2>2. 0 \in 0 .. n
    BY <1>1
  <2> QED
    BY <1>1, <2>1, <2>2, Zenon
<1> DEFINE Done == {i \in 0 .. n : \E f : Ordered(t, list, i, sorted[i], f)}
<1>11. 0 \in Done
  <2>1. Ordered(t, list, 0, <<>>, <<>>)
    BY DEF Ordered
  <2> QED
    BY <1>1, <1>10, <2>1
<1>12. ASSUME NEW m \in 1 .. n, m - 1 \in Done PROVE m \in Done
  <2>1. PICK f : Ordered(t, list, m - 1, sorted[m - 1], f)
    BY <1>12
  <2>2. \E h : Ordered(t, list, m, Inserted(t, sorted[m - 1], list[m]), h)
    BY <2>1, OrderedNext DEF n
  <2> QED
    BY <1>1, <1>10, <2>2
<1> HIDE DEF Done
<1>13. \A i \in 0 .. n : i \in Done
  BY <1>1, <1>11, <1>12, Climb
<1>14. n \in Done
  BY <1>1, <1>13
<1> QED
  BY <1>9, <1>14 DEF Done, n

(* The row an item of a list without duplicates has in it.                 *)
LEMMA IndexOfPlace ==
  ASSUME NEW S, NEW list \in Seq(S), IsInjective(list), NEW k \in 1 .. Len(list)
  PROVE  IndexOf(list, list[k]) = k
<1>1. /\ IndexOf(list, list[k]) \in 0 .. Len(list)
      /\ IndexOf(list, list[k]) # 0 => list[IndexOf(list, list[k])] = list[k]
      /\ IndexOf(list, list[k]) = 0 => list[k] \notin ToSet(list)
  BY IndexInList
<1>2. list[k] \in ToSet(list) /\ DOMAIN list = 1 .. Len(list)
  BY DEF ToSet
<1> QED
  BY <1>1, <1>2 DEF IsInjective

(* What a list shows, derived from a model: what InOrder says.             *)
InOrderOf(t, model, list) ==
  /\ ToSet(list) = {it \in ToSet(model) : Passes(t, it)}
  /\ t.sort_dir # 0 =>
       \A i, j \in DOMAIN list : i < j /\ (j = i + 1 \/ OfAKind(t, list)) =>
         /\ ~Above(t, list[i], list[j])
         /\ ~Above(t, list[j], list[i]) => IndexOf(model, list[i]) < IndexOf(model, list[j])

(* The view of a model holds what passes the filter, in order.             *)
LEMMA DerivedFacts ==
  ASSUME NEW t, t.sort_dir = 0 \/ Sorting(t), NEW model \in Seq(Items), IsInjective(model)
  PROVE  Derived(t, model) \in Seq(Items) /\ InOrderOf(t, model, Derived(t, model))
<1> DEFINE K == {i \in DOMAIN model : Passes(t, model[i])}
           kept == Kept(model, K)
           d == Derived(t, model)
<1>1. kept \in Seq(Items) /\ \E f : Picked(model, K, Len(model), kept, f)
  BY KeptFacts
<1>2. d = SortList(t, kept)
  BY Zenon DEF Derived
<1> HIDE DEF d, kept
<1>3. PICK f : Picked(model, K, Len(model), kept, f)
  BY <1>1
<1>4. DOMAIN model = 1 .. Len(model) /\ K \cap (1 .. Len(model)) = K
  OBVIOUS
<1> HIDE DEF K
<1>5. /\ f \in [1 .. Len(kept) -> K]
      /\ \A j \in 1 .. Len(kept) : kept[j] = model[f[j]] /\ f[j] \in K
      /\ \A j, k \in 1 .. Len(kept) : j < k => f[j] < f[k]
      /\ \A i \in K : \E j \in 1 .. Len(kept) : f[j] = i
  BY <1>3, <1>4 DEF Picked
<1>6. \A i : i \in K <=> i \in 1 .. Len(model) /\ Passes(t, model[i])
  BY <1>4 DEF K
<1>7. ToSet(kept) = {it \in ToSet(model) : Passes(t, it)}
  <2>1. DOMAIN kept = 1 .. Len(kept)
    BY <1>1
  <2>2. ASSUME NEW it, it \in ToSet(kept) PROVE it \in ToSet(model) /\ Passes(t, it)
    <3>1. PICK j \in 1 .. Len(kept) : it = kept[j]
      BY <2>1, <2>2 DEF ToSet
    <3>2. f[j] \in DOMAIN model /\ it = model[f[j]] /\ Passes(t, model[f[j]])
      BY <1>4, <1>5, <1>6, <3>1
    <3> QED
      BY <3>2 DEF ToSet
  <2>3. ASSUME NEW it \in ToSet(model), Passes(t, it) PROVE it \in ToSet(kept)
    <3>1. PICK i \in DOMAIN model : it = model[i]
      BY DEF ToSet
    <3>2. i \in K
      BY <1>4, <1>6, <2>3, <3>1
    <3>3. PICK j \in 1 .. Len(kept) : f[j] = i
      BY <1>5, <3>2
    <3> QED
      BY <1>5, <2>1, <3>1, <3>3 DEF ToSet
  <2> QED
    BY <2>2, <2>3
<1>8. CASE t.sort_dir = 0
  BY <1>1, <1>2, <1>7, <1>8 DEF SortList, InOrderOf, d
<1>9. CASE Sorting(t)
  <2> DEFINE n == Len(kept)
  <2>1. PICK h : Ordered(t, kept, n, d, h)
    BY <1>1, <1>2, <1>9, SortListFacts
  <2>2. n \in Nat /\ DOMAIN kept = 1 .. n
    BY <1>1
  <2> HIDE DEF n
  <2>3. /\ d \in Seq(Items) /\ Len(d) = n
        /\ \A j \in 1 .. n : h[j] \in 1 .. n /\ d[j] = kept[h[j]]
        /\ \A i \in 1 .. n : \E j \in 1 .. n : h[j] = i
        /\ \A i, j \in 1 .. n : i < j /\ (j = i + 1 \/ OfAKind(t, kept)) =>
             /\ ~Above(t, d[i], d[j])
             /\ ~Above(t, d[j], d[i]) => h[i] < h[j]
    BY <2>1 DEF Ordered
  <2>4. DOMAIN d = 1 .. n
    BY <2>3
  <2>5. \A i \in 1 .. n : \E j \in 1 .. n : d[j] = kept[i]
    <3> TAKE i \in 1 .. n
    <3>1. PICK j \in 1 .. n : h[j] = i
      BY <2>3
    <3>2. d[j] = kept[h[j]]
      BY <2>3
    <3> QED
      BY <3>1, <3>2
  <2>6. ToSet(d) = ToSet(kept)
    <3>1. \A j \in DOMAIN d : d[j] \in ToSet(kept)
      BY <2>2, <2>3, <2>4 DEF ToSet
    <3>2. \A i \in DOMAIN kept : kept[i] \in ToSet(d)
      BY <2>2, <2>4, <2>5, Zenon DEF ToSet
    <3> QED
      BY <3>1, <3>2 DEF ToSet
  <2>7. OfAKind(t, d) => OfAKind(t, kept)
    <3> SUFFICES ASSUME OfAKind(t, d), NEW i \in 1 .. n, NEW j \in 1 .. n
                 PROVE  Cell[kept[i]][t.sort_col].numeric = Cell[kept[j]][t.sort_col].numeric
      BY <2>2 DEF OfAKind
    <3>1. PICK k \in 1 .. n : d[k] = kept[i]
      BY <2>5
    <3>2. PICK l \in 1 .. n : d[l] = kept[j]
      BY <2>5
    <3>3. Cell[d[k]][t.sort_col].numeric = Cell[d[l]][t.sort_col].numeric
      BY <2>4, Zenon DEF OfAKind
    <3> QED
      BY <3>1, <3>2, <3>3
  <2>8. \A j \in 1 .. n : f[h[j]] \in 1 .. Len(model) /\ d[j] = model[f[h[j]]]
                          /\ IndexOf(model, d[j]) = f[h[j]]
    <3> TAKE j \in 1 .. n
    <3>1. h[j] \in 1 .. Len(kept) /\ d[j] = kept[h[j]]
      BY <2>3 DEF n
    <3>2. f[h[j]] \in K /\ kept[h[j]] = model[f[h[j]]]
      BY <1>5, <3>1
    <3>3. f[h[j]] \in 1 .. Len(model)
      BY <1>6, <3>2
    <3> QED
      BY <3>1, <3>2, <3>3, IndexOfPlace
  <2>9. ASSUME NEW i \in 1 .. n, NEW j \in 1 .. n, i < j, j = i + 1 \/ OfAKind(t, d)
        PROVE  /\ ~Above(t, d[i], d[j])
               /\ ~Above(t, d[j], d[i]) => IndexOf(model, d[i]) < IndexOf(model, d[j])
    <3>1. ~Above(t, d[i], d[j]) /\ (~Above(t, d[j], d[i]) => h[i] < h[j])
      BY <2>3, <2>7, <2>9
    <3>2. h[i] < h[j] => f[h[i]] < f[h[j]]
      BY <1>5, <2>3 DEF n
    <3> QED
      BY <2>8, <3>1, <3>2
  <2>10. InOrderOf(t, model, d)
    BY <1>7, <2>4, <2>6, <2>9 DEF InOrderOf
  <2> QED
    BY <2>3, <2>10 DEF d
<1> QED
  BY <1>8, <1>9

(* --- a table's lists ------------------------------------------------------ *)

Stores == UNION {[D -> Seq(Items)] : D \in SUBSET Int}
TableRecords ==
  [items : AppLists \cup {0}, view : AppLists \cup {0, -1, -2}, lists : Stores,
   sorter : BOOLEAN, sort_col : Cols \cup {0}, sort_dir : {-1, 0, 1},
   filter : BOOLEAN, passing : SUBSET Items]

(* What is there of the application's lists has no item twice; a table     *)
(* that sorts has a column to sort by; and what the listbox holds is there.*)
Typed(t) ==
  /\ t \in TableRecords
  /\ t.sort_dir # 0 => t.sort_col \in Cols
  /\ t.view # 0 => t.view \in DOMAIN t.lists
  /\ \A l \in AppLists \cap DOMAIN t.lists : IsInjective(t.lists[l])

(* The view is the table's own, the only one it has, or the list of the    *)
(* application that it was given last.                                     *)
Owned(t) ==
  /\ DOMAIN t.lists = AppLists \cup ({t.view} \ {0})
  /\ t.view \in AppLists => t.view = t.items

(* The listbox shows the view, which is the model filtered and sorted.     *)
Showing(t, list) ==
  t.view # 0 =>
    t.items \in AppLists /\ list = t.lists[t.view] /\ InOrderOf(t, t.lists[t.items], list)

(* A function on numbers to lists of items.                                *)
LEMMA StoreFacts ==
  ASSUME NEW f
  PROVE  f \in Stores <=> /\ f = [k \in DOMAIN f |-> f[k]]
                          /\ DOMAIN f \in SUBSET Int
                          /\ \A k \in DOMAIN f : f[k] \in Seq(Items)
<1> DEFINE A == Seq(Items)
<1>1. ASSUME f \in Stores
      PROVE  f = [k \in DOMAIN f |-> f[k]] /\ DOMAIN f \in SUBSET Int /\ \A k \in DOMAIN f : f[k] \in A
  <2> HIDE DEF A
  <2>1. PICK D \in SUBSET Int : f \in [D -> A]
    BY <1>1, Zenon DEF Stores, A
  <2> QED
    BY <2>1
<1>2. ASSUME f = [k \in DOMAIN f |-> f[k]], DOMAIN f \in SUBSET Int, \A k \in DOMAIN f : f[k] \in A
      PROVE  f \in Stores
  <2> HIDE DEF A
  <2>1. f \in [DOMAIN f -> A]
    BY <1>2
  <2> QED
    BY <1>2, <2>1, Zenon DEF Stores, A
<1> QED
  BY <1>1, <1>2, Zenon DEF A

(* The fields of a table's record.                                         *)
LEMMA FieldsAre ==
  ASSUME NEW t \in TableRecords
  PROVE  /\ t.items \in AppLists \cup {0} /\ t.view \in AppLists \cup {0, -1, -2}
         /\ t.lists \in Stores /\ t.sort_dir \in {-1, 0, 1} /\ t.sort_col \in Cols \cup {0}
         /\ t.filter \in BOOLEAN /\ t.sorter \in BOOLEAN /\ t.passing \in SUBSET Items
         /\ DOMAIN t.lists \in SUBSET Int /\ \A k \in DOMAIN t.lists : t.lists[k] \in Seq(Items)
<1>1. /\ t.items \in AppLists \cup {0} /\ t.view \in AppLists \cup {0, -1, -2}
      /\ t.lists \in Stores /\ t.sort_dir \in {-1, 0, 1} /\ t.sort_col \in Cols \cup {0}
      /\ t.filter \in BOOLEAN /\ t.sorter \in BOOLEAN /\ t.passing \in SUBSET Items
  BY DEF TableRecords
<1> QED
  BY <1>1, StoreFacts, Zenon

(* table_update: the view it mints is not the one it had; the one it had   *)
(* is freed if it was the table's own; and the model's list is not.        *)
LEMMA RefreshedFacts ==
  ASSUME NEW t, Typed(t), NEW l \in AppLists, AppLists \subseteq DOMAIN t.lists
  PROVE  LET r == Refreshed(t, l)
         IN  /\ Typed(r) /\ r.view \in DOMAIN r.lists /\ r.view # 0 /\ r.items = l
             /\ r.lists[r.view] \in Seq(Items)
             /\ Owned(t) => /\ Owned(r) /\ r.lists[l] = t.lists[l]
                            /\ \A list : list = r.lists[r.view] => Showing(r, list)
<1> DEFINE r == Refreshed(t, l)
           aliased == ~t.filter /\ t.sort_dir = 0
           minted == IF t.view = -1 THEN -2 ELSE -1
           view == IF aliased THEN l ELSE minted
           freed == IF MayFree(t.view, t.items, view) THEN {t.view} ELSE {}
           D == (DOMAIN t.lists \cup {view}) \ freed
           at(k) == IF k = minted THEN Derived(t, t.lists[l]) ELSE IF k = l THEN t.lists[l] ELSE <<>>
           lists == [k \in D |-> at(k)]
<1>1. r = [t EXCEPT !.items = l, !.view = view, !.lists = lists]
  BY Zenon DEF Refreshed
<1>2. t \in TableRecords /\ (t.sort_dir = 0 \/ Sorting(t))
  BY FieldsAre DEF Typed, Sorting
<1>3. /\ t.view \in AppLists \cup {0, -1, -2} /\ DOMAIN t.lists \in SUBSET Int
      /\ t.lists[l] \in Seq(Items) /\ IsInjective(t.lists[l]) /\ l \in Int /\ l > 0
      /\ AppLists \subseteq Int /\ \A k \in AppLists : k > 0
  BY <1>2, FieldsAre, TableAssumption DEF Typed
<1>4. Derived(t, t.lists[l]) \in Seq(Items) /\ InOrderOf(t, t.lists[l], Derived(t, t.lists[l]))
  BY <1>2, <1>3, DerivedFacts
<1>5. <<>> \in Seq(Items) /\ IsInjective(<<>>)
  BY DEF IsInjective
<1>6. \A k : at(k) \in Seq(Items)
  BY <1>3, <1>4, <1>5, Zenon
<1>7. /\ minted \in {-1, -2} /\ minted # t.view /\ minted \notin AppLists
      /\ view \in AppLists \cup {-1, -2} /\ view # 0 /\ view \in {l, minted}
      /\ freed \subseteq {t.view} /\ (freed # {} => t.view \notin {0, view, t.items})
      /\ (freed = {} => t.view \in {0, view, t.items})
  <2>1. minted \in {-1, -2} /\ minted # t.view /\ minted \notin AppLists
    BY <1>3
  <2>2. view \in {l, minted}
    OBVIOUS
  <2>3. /\ freed \subseteq {t.view} /\ (freed # {} => t.view \notin {0, view, t.items})
        /\ (freed = {} => t.view \in {0, view, t.items})
    <3> HIDE DEF view
    <3> QED
      BY DEF MayFree
  <2> HIDE DEF minted, view, freed
  <2> QED
    BY <1>3, <2>1, <2>2, <2>3
<1>8. at(l) = t.lists[l] /\ at(minted) = Derived(t, t.lists[l]) /\ l \in D \cup freed
  BY <1>7
<1>9. \A k \in AppLists : IsInjective(at(k))
  BY <1>3, <1>5, <1>7, Zenon
<1>10. view \in D /\ D \in SUBSET Int
  BY <1>3, <1>7
<1>11. /\ DOMAIN lists = D /\ \A k \in D : lists[k] = at(k)
  BY Zenon
<1>12. lists \in Stores
  <2> HIDE DEF D, at
  <2>1. lists = [k \in DOMAIN lists |-> lists[k]]
    BY <1>11, Zenon
  <2>2. DOMAIN lists \in SUBSET Int /\ \A k \in DOMAIN lists : lists[k] \in Seq(Items)
    BY <1>6, <1>10, <1>11, Zenon
  <2> HIDE DEF lists
  <2> QED
    BY <2>1, <2>2, StoreFacts, Zenon
<1>13. /\ (view = l => at(view) = t.lists[l]) /\ (view = minted => at(view) = Derived(t, t.lists[l]))
       /\ (view = l <=> aliased)
  BY <1>7, <1>8
<1> HIDE DEF lists, at, view, D, freed, minted
<1>14. /\ r \in TableRecords
       /\ r.items = l /\ r.view = view /\ r.lists = lists /\ r.sort_dir = t.sort_dir
       /\ r.sort_col = t.sort_col /\ r.filter = t.filter /\ r.passing = t.passing
  <2> HIDE DEF r
  <2>1. /\ l \in AppLists \cup {0} /\ view \in AppLists \cup {0, -1, -2}
    BY <1>7
  <2> QED
    BY <1>1, <1>2, <1>12, <2>1 DEF TableRecords
<1> HIDE DEF r
<1>15. Typed(r) /\ r.view \in DOMAIN r.lists /\ r.view # 0 /\ r.items = l /\ r.lists[r.view] \in Seq(Items)
  <2>1. \A k \in AppLists \cap DOMAIN r.lists : IsInjective(r.lists[k])
    BY <1>9, <1>11, <1>14, Zenon
  <2>2. r.sort_dir # 0 => r.sort_col \in Cols
    <3>1. t.sort_dir # 0 => t.sort_col \in Cols
      BY Zenon DEF Typed
    <3> QED
      BY <1>14, <3>1, Zenon
  <2>3. r.view \in DOMAIN r.lists /\ r.view # 0 /\ r.items = l /\ r.lists[r.view] \in Seq(Items)
    <3>1. view \in DOMAIN lists /\ lists[view] = at(view) /\ view # 0
      BY <1>7, <1>10, <1>11, Zenon
    <3>2. at(view) \in Seq(Items)
      BY <1>6, Zenon
    <3> QED
      BY <1>14, <3>1, <3>2
  <2> QED
    BY <1>14, <2>1, <2>2, <2>3, Zenon DEF Typed
<1>16. ASSUME Owned(t), NEW list, list = r.lists[r.view]
       PROVE  Owned(r) /\ r.lists[l] = t.lists[l] /\ Showing(r, list)
  <2>1. D = AppLists \cup {view}
    <3>1. DOMAIN t.lists = AppLists \cup ({t.view} \ {0})
      BY <1>16 DEF Owned
    <3>2. CASE t.view \in AppLists
      BY <1>7, <1>16, <3>1, <3>2 DEF Owned, D
    <3>3. CASE t.view = 0
      BY <1>7, <3>1, <3>3 DEF D
    <3>4. CASE t.view \in {-1, -2}
      <4>1. t.view \notin AppLists /\ t.items \in AppLists \cup {0}
        BY <1>2, <1>3, <3>4, FieldsAre
      <4>2. t.view \notin {0, view, t.items}
        BY <1>3, <1>7, <3>4, <4>1
      <4>3. freed = {t.view}
        BY <1>7, <4>2
      <4> QED
        BY <3>1, <3>4, <4>1, <4>2, <4>3 DEF D
    <3> QED
      BY <1>3, <3>2, <3>3, <3>4
  <2>2. Owned(r)
    BY <1>7, <1>11, <1>14, <2>1 DEF Owned
  <2>3. r.lists[l] = t.lists[l] /\ list = at(view)
    BY <1>8, <1>11, <1>14, <1>16, <2>1
  <2>4. InOrderOf(t, t.lists[l], list)
    <3>1. CASE aliased
      <4>1. list = t.lists[l] /\ \A it : Passes(t, it)
        BY <1>13, <2>3, <3>1 DEF Passes
      <4> QED
        BY <3>1, <4>1 DEF InOrderOf
    <3>2. CASE ~aliased
      BY <1>4, <1>7, <1>13, <2>3, <3>2
    <3> QED
      BY <3>1, <3>2
  <2>5. InOrderOf(r, r.lists[r.items], list)
    BY <1>14, <2>3, <2>4 DEF InOrderOf, OfAKind, Above, Passes
  <2> QED
    BY <1>14, <1>16, <2>2, <2>3, <2>5 DEF Showing
<1>17. Owned(t) => /\ Owned(r) /\ r.lists[l] = t.lists[l]
                   /\ \A list : list = r.lists[r.view] => Showing(r, list)
  <2>1. Owned(t) => \A list : list = r.lists[r.view] =>
                               Owned(r) /\ r.lists[l] = t.lists[l] /\ Showing(r, list)
    BY <1>16
  <2> QED
    BY <2>1
<1> QED
  BY <1>15, <1>17 DEF r

(* A table's listbox.                                                      *)
TableBase == ListInv /\ kind = "single" /\ Typed(table)

(* A step that leaves the listbox as it is carries what was picked.        *)
LEMMA SameSelection ==
  ASSUME TableBase, UNCHANGED vars
  PROVE  ListInv' /\ kind' = "single" /\ items' = items /\ SelectionCarried
<1>1. ListInv' /\ kind' = "single" /\ items' = items /\ selected' = selected /\ rows' = rows
  BY IdleKeeps DEF TableBase, ListInv, vars
<1>2. /\ kind = "single" /\ items \in Seq(Items) /\ Len(rows) = Len(items)
      /\ selected \in 0 .. Len(rows)
  BY DEF TableBase, ListInv, IInv, Base, TypeOfAny
<1>3. Selection = {selected} \ {0} /\ Selection' = Selection
  BY <1>1, <1>2 DEF Selection, Multi
<1>4. PickedItems' = PickedItems /\ PickedItems \subseteq ToSet(items)
  BY <1>1, <1>2, <1>3 DEF PickedItems, ToSet
<1> QED
  BY <1>1, <1>2, <1>3, <1>4 DEF SelectionCarried

(* The listbox is given a table's view.                                    *)
LEMMA ShowsTableKeeps ==
  ASSUME TableBase, NEW r, r.lists[r.view] \in Seq(Items), NEW before, ShowsTable(r, before)
  PROVE  /\ ListInv' /\ kind' = "single" /\ table' = r /\ items' = r.lists[r.view]
         /\ before = items => SelectionCarried
<1> DEFINE new == r.lists[r.view]
<1>1. ListboxUpdate(before, new) /\ table' = r
  BY DEF ShowsTable
<1>2. new \in Seq(Items) /\ new \in Seq(Listed) /\ Base /\ ListInv
  BY DEF TableBase, ListInv, IInv, Listed
<1>3. kind' = kind /\ kind = "single"
  BY <1>1 DEF ListboxUpdate, Shows, TableBase
<1> HIDE DEF new
<1>4. IInv' /\ items' = new
  BY <1>1, <1>2, UpdateKeeps
<1>5. before = items => SelectionCarried
  BY <1>1, <1>2, UpdateCarries DEF Update
<1> QED
  BY <1>1, <1>2, <1>3, <1>4, <1>5 DEF ListInv, new

(* What a table's step does, the listbox's part and its own; and what the  *)
(* application's use of the sorter must be for it.                         *)
TableStepHolds ==
  /\ TableBase'
  /\ ~Rearms /\ Owned(table) /\ Showing(table, items)
       => /\ Owned(table') /\ Showing(table', items')
          /\ table' # table /\ ~ChangedBefore => SelectionCarried

(* A table that differs in how it is sorted or filtered.                   *)
Rearranged(t) ==
  /\ Typed(t) /\ t.lists = table.lists /\ t.view = table.view /\ t.items = table.items

(* It is shown anew: by a sort, which puts the selection back itself, ...  *)
LEMMA SortKeeps ==
  ASSUME TableBase, NEW t, Rearranged(t), t.filter = table.filter, t.passing = table.passing,
         AppLists \subseteq DOMAIN table.lists, DoSort(t)
  PROVE  TableStepHolds
<1>1. CASE (t.items = 0 \/ t.sort_dir = 0) /\ table' = t /\ UNCHANGED vars
  <2>1. ListInv' /\ kind' = "single" /\ items' = items /\ SelectionCarried /\ TableBase'
    BY <1>1, SameSelection DEF Rearranged, TableBase
  <2>2. Owned(table) => Owned(t)
    BY DEF Rearranged, Owned
  <2>3. Showing(table, items) => Showing(t, items)
    <3>1. CASE t.items = 0
      BY <3>1, TableAssumption DEF Showing, Rearranged
    <3>2. CASE t.sort_dir = 0
      BY <3>2 DEF Showing, Rearranged, InOrderOf, Passes
    <3> QED
      BY <1>1, <3>1, <3>2
  <2> QED
    BY <1>1, <2>1, <2>2, <2>3 DEF TableStepHolds
<1>2. CASE /\ t.items # 0 /\ t.sort_dir # 0
           /\ table' = Refreshed(t, t.items)
           /\ Shows(items, table'.lists[table'.view], {})
           /\ Reselected(table', ItemAt(items, selected))
  <2> DEFINE r == Refreshed(t, t.items)
             new == r.lists[r.view]
  <2>1. Typed(t) /\ t.items \in AppLists /\ AppLists \subseteq DOMAIN t.lists
    BY <1>2, FieldsAre DEF Rearranged, Typed
  <2>2. /\ Typed(r) /\ new \in Seq(Items)
        /\ Owned(t) => Owned(r) /\ Showing(r, new)
    BY <2>1, RefreshedFacts
  <2>3. table' = r /\ Shows(items, new, {}) /\ Reselected(r, ItemAt(items, selected))
    BY <1>2
  <2>4. /\ IndexOf(new, ItemAt(items, selected)) \in 0 .. Len(new)
        /\ NowAt(items, new, anchor) \in 0 .. Len(new)
    BY <2>2, IndexInList DEF NowAt
  <2>5. /\ kind = "single" /\ Base /\ ListInv /\ ItemAt(items, selected) \in Items \cup {NoItem}
    BY DEF TableBase, ListInv, IInv, ItemAt
  <2> HIDE DEF r
  <2>6. selected' = IndexOf(new, ItemAt(items, selected))
    <3>1. CASE ItemAt(items, selected) = NoItem
      <4>1. IndexOf(new, NoItem) = 0
        <5>1. IndexOf(new, NoItem) # 0 => new[IndexOf(new, NoItem)] = NoItem /\ IndexOf(new, NoItem) \in 1 .. Len(new)
          BY <2>2, IndexInList
        <5>2. \A i \in 1 .. Len(new) : new[i] \in Items
          BY <2>2
        <5> QED
          BY <5>1, <5>2, ItemsAssumption
      <4> QED
        BY <2>3, <3>1, <4>1 DEF Reselected
    <3>2. CASE ItemAt(items, selected) # NoItem
      BY <2>3, <3>2 DEF Reselected
    <3> QED
      BY <3>1, <3>2
  <2>7. selected' = SelectedNow(items, new, {})
    BY <2>5, <2>6 DEF SelectedNow, NowAt, Multi
  <2>8. selected' \in 0 .. Len(new) /\ anchor' \in 0 .. Len(new)
    <3>1. anchor' \in {NowAt(items, new, anchor), IndexOf(new, ItemAt(items, selected))}
      BY <2>3 DEF Reselected
    <3> QED
      BY <2>4, <2>6, <3>1
  <2>9. new \in Seq(Listed)
    BY <2>2 DEF Listed
  <2> HIDE DEF new
  <2>10. IInv' /\ items' = new /\ kind' = kind
    BY <2>3, <2>5, <2>7, <2>8, <2>9, ShowsKeeps
  <2>11. SelectionCarried
    <3>1. Base' /\ {} \in SUBSET Stray(items)
      BY <2>10 DEF IInv
    <3> QED
      BY <2>2, <2>3, <2>5, <2>7, <3>1, ShowsCarries
  <2>12. TableBase'
    BY <2>2, <2>3, <2>5, <2>10 DEF TableBase, ListInv
  <2>13. Owned(table) => Owned(t)
    BY DEF Rearranged, Owned
  <2> QED
    BY <2>2, <2>3, <2>10, <2>11, <2>12, <2>13 DEF TableStepHolds
<1> QED
  BY <1>1, <1>2 DEF DoSort

(* ... and by a filter.                                                    *)
LEMMA FilterKeeps ==
  ASSUME TableBase, NEW t, Rearranged(t), AppLists \subseteq DOMAIN table.lists, Refilter(t)
  PROVE  TableStepHolds
<1>1. CASE t.items = 0 /\ table' = t /\ UNCHANGED vars
  <2>1. ListInv' /\ kind' = "single" /\ items' = items /\ SelectionCarried /\ TableBase'
    BY <1>1, SameSelection DEF Rearranged, TableBase
  <2>2. Owned(table) => Owned(t)
    BY DEF Rearranged, Owned
  <2>3. Showing(table, items) => Showing(t, items)
    BY <1>1, TableAssumption DEF Showing, Rearranged
  <2> QED
    BY <1>1, <2>1, <2>2, <2>3 DEF TableStepHolds
<1>2. CASE t.items # 0 /\ ShowsTable(Refreshed(t, t.items), items)
  <2> DEFINE r == Refreshed(t, t.items)
  <2>1. Typed(t) /\ t.items \in AppLists /\ AppLists \subseteq DOMAIN t.lists
    BY <1>2, FieldsAre DEF Rearranged, Typed
  <2>2. /\ Typed(r) /\ r.lists[r.view] \in Seq(Items)
        /\ Owned(t) => Owned(r) /\ Showing(r, r.lists[r.view])
    BY <2>1, RefreshedFacts
  <2>3. ShowsTable(r, items)
    BY <1>2
  <2> HIDE DEF r
  <2>4. ListInv' /\ kind' = "single" /\ table' = r /\ items' = r.lists[r.view] /\ SelectionCarried
    BY <2>2, <2>3, ShowsTableKeeps
  <2>5. Owned(table) => Owned(t)
    BY DEF Rearranged, Owned
  <2> QED
    BY <2>2, <2>4, <2>5 DEF TableStepHolds, TableBase
<1> QED
  BY <1>1, <1>2 DEF Refilter

(* What the application puts into a list of its own.                       *)
LEMMA RefilledFacts ==
  ASSUME NEW t, Typed(t), NEW l \in AppLists, AppLists \subseteq DOMAIN t.lists,
         NEW content \in Contents
  PROVE  /\ Typed([t EXCEPT !.lists[l] = content])
         /\ Owned(t) => Owned([t EXCEPT !.lists[l] = content])
<1> DEFINE lists == [t.lists EXCEPT ![l] = content]
           u == [t EXCEPT !.lists = lists]
<1>1. u = [t EXCEPT !.lists[l] = content]
  OBVIOUS
<1>2. content \in Seq(Items) /\ IsInjective(content)
  BY TableAssumption DEF Lists, BoundedSeq, SeqOf
<1>3. /\ t \in TableRecords /\ t.lists \in Stores /\ DOMAIN t.lists \in SUBSET Int
      /\ \A k \in DOMAIN t.lists : t.lists[k] \in Seq(Items)
      /\ \A k \in AppLists \cap DOMAIN t.lists : IsInjective(t.lists[k])
      /\ (t.sort_dir # 0 => t.sort_col \in Cols) /\ (t.view # 0 => t.view \in DOMAIN t.lists)
  BY FieldsAre DEF Typed
<1>4. /\ lists = [k \in DOMAIN lists |-> lists[k]] /\ DOMAIN lists = DOMAIN t.lists
      /\ \A k \in DOMAIN t.lists : lists[k] = IF k = l THEN content ELSE t.lists[k]
  OBVIOUS
<1> HIDE DEF lists
<1>5. lists \in Stores
  BY <1>2, <1>3, <1>4, StoreFacts, Zenon
<1>6. /\ u \in TableRecords
      /\ u.lists = lists /\ u.view = t.view /\ u.items = t.items
      /\ u.sort_dir = t.sort_dir /\ u.sort_col = t.sort_col
  BY <1>3, <1>5 DEF TableRecords
<1> HIDE DEF u
<1>7. \A k \in AppLists \cap DOMAIN u.lists : IsInjective(u.lists[k])
  BY <1>2, <1>3, <1>4, <1>6, Zenon
<1>8. Typed(u)
  BY <1>3, <1>4, <1>6, <1>7 DEF Typed
<1>9. Owned(t) => Owned(u)
  BY <1>4, <1>6 DEF Owned
<1> QED
  BY <1>1, <1>8, <1>9

(* A table that is sorted by a column it has, or not sorted.               *)
LEMMA ResortedFacts ==
  ASSUME Typed(table), NEW t \in TableRecords, t.sort_col \in Cols,
         t.lists = table.lists, t.view = table.view, t.items = table.items
  PROVE  Rearranged(t)
BY DEF Rearranged, Typed

(* Every step of a table.                                                  *)
LEMMA TableStepKeeps ==
  ASSUME TableBase, TableStep
  PROVE  TableStepHolds
<1>1. /\ AppLists \subseteq DOMAIN table.lists /\ Typed(table) /\ table \in TableRecords
      /\ ListInv /\ kind = "single" /\ IInv /\ Base
  BY DEF TableStep, TableBase, Typed, ListInv, IInv
<1>2. CASE Used /\ UNCHANGED table
  <2>1. IInv' /\ items' = items /\ kind' = kind /\ table' = table
    BY <1>1, <1>2, UsedKeeps
  <2> QED
    BY <1>1, <2>1 DEF TableStepHolds, TableBase, ListInv
<1>3. ASSUME NEW c \in Cols, SortClick(c) PROVE TableStepHolds
  <2> DEFINE u == [table EXCEPT !.sort_dir = IF @ = 0 THEN 1 ELSE -@]
             v == [table EXCEPT !.sort_col = c, !.sort_dir = 1]
  <2>1. table.sort_dir \in {-1, 0, 1}
    BY <1>1, FieldsAre
  <2>2. /\ u \in TableRecords /\ u.sort_col = table.sort_col /\ u.filter = table.filter
        /\ u.passing = table.passing /\ u.lists = table.lists /\ u.view = table.view
        /\ u.items = table.items
    BY <1>1, <2>1 DEF TableRecords
  <2>3. /\ v \in TableRecords /\ v.sort_col = c /\ v.filter = table.filter
        /\ v.passing = table.passing /\ v.lists = table.lists /\ v.view = table.view
        /\ v.items = table.items
    BY <1>1, <1>3 DEF TableRecords
  <2>4. DoSort(IF table.sort_col = c THEN u ELSE v)
    BY <1>3 DEF SortClick
  <2> HIDE DEF u, v
  <2>5. CASE table.sort_col = c
    BY <1>1, <1>3, <2>2, <2>4, <2>5, ResortedFacts, SortKeeps
  <2>6. CASE table.sort_col # c
    BY <1>1, <1>3, <2>3, <2>4, <2>6, ResortedFacts, SortKeeps
  <2> QED
    BY <2>5, <2>6
<1>4. ASSUME NEW c \in Cols, NEW dir \in -1 .. 1, SortBy(c, dir) PROVE TableStepHolds
  <2> DEFINE v == [table EXCEPT !.sort_col = c, !.sort_dir = dir]
  <2>1. dir \in {-1, 0, 1}
    BY <1>4
  <2>2. /\ v \in TableRecords /\ v.sort_col = c /\ v.filter = table.filter
        /\ v.passing = table.passing /\ v.lists = table.lists /\ v.view = table.view
        /\ v.items = table.items
    BY <1>1, <1>4, <2>1 DEF TableRecords
  <2>3. DoSort(v)
    BY <1>4 DEF SortBy
  <2> HIDE DEF v
  <2> QED
    BY <1>1, <1>4, <2>2, <2>3, ResortedFacts, SortKeeps
<1>5. ASSUME NEW on \in BOOLEAN, NEW passing \in SUBSET Items,
             Refilter([table EXCEPT !.filter = on, !.passing = passing])
      PROVE  TableStepHolds
  <2> DEFINE v == [table EXCEPT !.filter = on, !.passing = passing]
  <2>1. /\ v \in TableRecords /\ v.lists = table.lists /\ v.view = table.view
        /\ v.items = table.items /\ v.sort_col = table.sort_col /\ v.sort_dir = table.sort_dir
    BY <1>1, <1>5 DEF TableRecords
  <2>2. Refilter(v)
    BY <1>5
  <2> HIDE DEF v
  <2>3. Rearranged(v)
    BY <1>1, <2>1 DEF Rearranged, Typed
  <2> QED
    BY <1>1, <2>2, <2>3, FilterKeeps
<1>6. ASSUME NEW l \in AppLists, NEW content \in Contents, TableUpdate(l, content)
      PROVE  TableStepHolds
  <2> DEFINE t == [table EXCEPT !.lists[l] = content]
             r == Refreshed(t, l)
             before == IF table.view = l THEN content ELSE items
  <2>1. Typed(t) /\ (Owned(table) => Owned(t))
    BY <1>1, RefilledFacts
  <2>2. DOMAIN t.lists = DOMAIN table.lists /\ t.lists[l] = content
    <3>1. t = [table EXCEPT !.lists = [table.lists EXCEPT ![l] = content]]
      OBVIOUS
    <3>2. t.lists = [table.lists EXCEPT ![l] = content]
      BY <1>1, <3>1 DEF TableRecords
    <3>3. l \in DOMAIN table.lists
      BY <1>1
    <3> HIDE DEF t
    <3> QED
      BY <3>2, <3>3
  <2>3. ShowsTable(r, before)
    BY <1>6 DEF TableUpdate
  <2> HIDE DEF t
  <2>4. /\ Typed(r) /\ r.items = l /\ r.lists[r.view] \in Seq(Items)
        /\ Owned(t) => Owned(r) /\ r.lists[l] = t.lists[l] /\ Showing(r, r.lists[r.view])
    BY <1>1, <2>1, <2>2, RefreshedFacts
  <2> HIDE DEF r
  <2>5. /\ ListInv' /\ kind' = "single" /\ table' = r /\ items' = r.lists[r.view]
        /\ before = items => SelectionCarried
    BY <2>3, <2>4, ShowsTableKeeps
  <2>6. ASSUME Owned(table), Showing(table, items), ~ChangedBefore
        PROVE  before = items
    <3>1. CASE table.view = l
      <4>1. l # 0 /\ items = table.lists[l]
        BY <2>6, <3>1, TableAssumption DEF Showing
      <4>2. table.lists[l] = r.lists[l]
        BY <2>4, <2>5, <2>6, <3>1 DEF ChangedBefore
      <4> QED
        BY <2>1, <2>2, <2>4, <2>6, <3>1, <4>1, <4>2
    <3> QED
      BY <3>1
  <2> HIDE DEF before
  <2> QED
    BY <2>1, <2>4, <2>5, <2>6 DEF TableStepHolds, TableBase
<1>7. ASSUME NEW l \in AppLists, NEW content \in Contents,
             table.items = l => content = table.lists[l],
             Rearms \/ table.items \in {0, l},
             Sorter(l, content)
      PROVE  TableStepHolds
  <2> DEFINE u == [table EXCEPT !.lists[l] = content]
             t == [u EXCEPT !.sorter = TRUE, !.items = l]
  <2>1. Typed(u) /\ (Owned(table) => Owned(u))
    BY <1>1, RefilledFacts
  <2>2. table' = t /\ UNCHANGED vars
    BY <1>7 DEF Sorter
  <2>3. /\ u = [table EXCEPT !.lists = [table.lists EXCEPT ![l] = content]]
    OBVIOUS
  <2>4. /\ u.lists = [table.lists EXCEPT ![l] = content] /\ u.view = table.view
        /\ u.filter = table.filter /\ u.passing = table.passing
        /\ u.sort_dir = table.sort_dir /\ u.sort_col = table.sort_col
    BY <1>1, <2>3 DEF TableRecords
  <2> HIDE DEF u
  <2>5. /\ t \in TableRecords /\ t.items = l /\ t.lists = u.lists /\ t.view = u.view
        /\ t.filter = u.filter /\ t.passing = u.passing
        /\ t.sort_dir = u.sort_dir /\ t.sort_col = u.sort_col
    BY <2>1, <1>7 DEF Typed, TableRecords
  <2> HIDE DEF t
  <2>6. Typed(t)
    BY <2>1, <2>5 DEF Typed
  <2>7. ListInv' /\ kind' = "single" /\ items' = items /\ SelectionCarried
    BY <2>2, SameSelection
  <2>8. ASSUME ~Rearms, Owned(table), Showing(table, items)
        PROVE  Owned(t) /\ Showing(t, items)
    <3>1. table.view # 0 => table.items = l
      BY <1>7, <2>8, TableAssumption DEF Showing
    <3>2. table.view # 0 => u.lists = table.lists
      <4> SUFFICES ASSUME table.view # 0 PROVE u.lists = table.lists
        OBVIOUS
      <4>1. content = table.lists[l]
        BY <1>7, <3>1
      <4>2. table.lists \in Stores
        BY <1>1, FieldsAre
      <4>3. table.lists = [k \in DOMAIN table.lists |-> table.lists[k]]
        BY <4>2, StoreFacts, Zenon
      <4> QED
        BY <2>4, <4>1, <4>3
    <3>3. Owned(t)
      <4>1. t.view \in AppLists => t.view = t.items
        BY <2>4, <2>5, <2>8, <3>1, TableAssumption DEF Owned
      <4> QED
        BY <2>1, <2>5, <2>8, <4>1 DEF Owned
    <3>4. Showing(t, items)
      BY <1>7, <2>4, <2>5, <2>8, <3>1, <3>2 DEF Showing, InOrderOf, OfAKind, Above, Passes
    <3> QED
      BY <3>3, <3>4
  <2> QED
    BY <2>2, <2>6, <2>7, <2>8 DEF TableStepHolds, TableBase
<1>8. CASE Deselect /\ UNCHANGED table
  <2>1. IInv' /\ items' = items /\ kind' = kind /\ table' = table
    BY <1>1, <1>8, DeselectKeeps DEF Deselect, Click, RowClicked
  <2> QED
    BY <1>1, <2>1 DEF TableStepHolds, TableBase, ListInv
<1>9. CASE TableProgrammed(Rearms)
  <2>1. CASE \E passing \in Filters : Filter(passing)
    <3>1. PICK passing \in Filters : Filter(passing)
      BY <2>1
    <3>2. passing \in SUBSET Items
      BY TableAssumption
    <3> QED
      BY <1>5, <3>1, <3>2 DEF Filter
  <2>2. CASE FilterClear
    <3>1. PICK none \in SUBSET Items : none = {}
      OBVIOUS
    <3>2. Refilter([table EXCEPT !.filter = FALSE, !.passing = none])
      BY <2>2, <3>1 DEF FilterClear
    <3> QED
      BY <1>5, <3>2, Zenon
  <2> QED
    BY <1>4, <1>6, <1>7, <1>8, <1>9, <2>1, <2>2 DEF TableProgrammed
<1> QED
  BY <1>2, <1>3, <1>9 DEF TableStep

(* --- a tree's rows -------------------------------------------------------- *)

Trees ==
  [nodes : SUBSET Nodes, expanded : SUBSET Nodes, sel_node : Nodes \cup {0}, turn : {0, 1},
   openers : SUBSET Nodes]

(* No node has two rows.                                                   *)
OneRowEach(list) == \A i, j \in DOMAIN list : list[i].node = list[j].node => i = j
(* The row selected is that of the selected node.                          *)
NodeIsSelected(t, list, sel) == \A i \in DOMAIN list : list[i].node = t.sel_node <=> i = sel

(* A tree's listbox.                                                       *)
TreeHolds ==
  /\ Base /\ kind = "single"
  /\ tree \in Trees
  /\ items \in Seq(TreeRows) /\ OneRowEach(items) /\ NodeIsSelected(tree, items, selected)

(* The nodes, in the order of the walk.                                    *)
LEMMA NodesAre == Nodes = 1 .. Len(Parent) /\ Len(Parent) \in Nat
BY TreeAssumption DEF Nodes

(* A flatten makes one row for each of some of the nodes.                  *)
LEMMA FlatFacts ==
  ASSUME NEW t \in Trees
  PROVE  Flat(t) \in Seq(TreeRows) /\ OneRowEach(Flat(t))
<1> DEFINE s == [n \in Nodes |-> RowOf(t, n)]
           K == {n \in t.nodes : Visible(t, n)}
           flat == Kept(s, K)
<1>1. t.turn \in {0, 1}
  BY DEF Trees
<1>2. \A n \in Nodes : RowOf(t, n) \in TreeRows /\ RowOf(t, n).node = n
  BY <1>1 DEF RowOf, TreeRows
<1>3. s \in [1 .. Len(Parent) -> TreeRows] /\ \A n \in Nodes : s[n].node = n
  BY <1>2, NodesAre
<1>4. Flat(t) = flat
  BY Zenon DEF Flat
<1> HIDE DEF s, K
<1>5. s \in Seq(TreeRows) /\ DOMAIN s = Nodes
  BY <1>3, NodesAre, IsSeq
<1>6. flat \in Seq(TreeRows) /\ \E f : Picked(s, K, Len(s), flat, f)
  BY <1>5, KeptFacts
<1> HIDE DEF flat
<1>7. PICK f : Picked(s, K, Len(s), flat, f)
  BY <1>6
<1>8. \A j \in 1 .. Len(flat) : flat[j] = s[f[j]] /\ f[j] \in 1 .. Len(s) /\ f[j] \in Nodes
  <2>1. Nodes = 1 .. Len(s)
    BY <1>5
  <2> QED
    BY <1>7, <2>1 DEF Picked
<1>9. \A i, j \in 1 .. Len(flat) : i < j => f[i] < f[j]
  BY <1>7 DEF Picked
<1>10. DOMAIN flat = 1 .. Len(flat)
  BY <1>6
<1>11. ASSUME NEW i \in DOMAIN flat, NEW j \in DOMAIN flat, flat[i].node = flat[j].node
       PROVE  i = j
  <2>1. f[i] = f[j] /\ f[i] \in Nat
    BY <1>3, <1>8, <1>10, <1>11
  <2>2. ~(i < j) /\ ~(j < i)
    BY <1>9, <1>10, <2>1
  <2> QED
    BY <1>10, <2>2
<1> QED
  BY <1>4, <1>6, <1>11 DEF OneRowEach

(* The row _tree_place_selection finds.                                    *)
LEMMA PlacedFacts ==
  ASSUME NEW list \in Seq(TreeRows), NEW node
  PROVE  /\ PlacedIn(list, node) \in 0 .. Len(list)
         /\ PlacedIn(list, node) # 0 => list[PlacedIn(list, node)].node = node
         /\ PlacedIn(list, node) = 0 => \A i \in DOMAIN list : list[i].node # node
<1> DEFINE I == {i \in 1 .. Len(list) : list[i].node = node}
<1>1. PlacedIn(list, node) = IF I # {} THEN Min(I) ELSE 0
  BY DEF PlacedIn, SelectInSeq
<1>2. CASE I = {}
  BY <1>1, <1>2
<1>3. CASE I # {}
  <2>1. I \in SUBSET Nat
    OBVIOUS
  <2> HIDE DEF I
  <2>2. \E m \in I : \A n \in I : m <= n
    BY <1>3, <2>1, LeastPlace
  <2>3. Min(I) \in I
    BY <2>2 DEF Min
  <2> QED
    BY <1>1, <1>3, <2>3 DEF I
<1> QED
  BY <1>2, <1>3

(* It is the selected node's, if that has one.                             *)
LEMMA PlacedIsSelected ==
  ASSUME NEW t, NEW list \in Seq(TreeRows), OneRowEach(list), NEW sel,
         sel = PlacedIn(list, t.sel_node)
  PROVE  NodeIsSelected(t, list, sel)
<1>1. DOMAIN list = 1 .. Len(list) /\ Len(list) \in Nat
  OBVIOUS
<1> QED
  BY <1>1, PlacedFacts DEF NodeIsSelected, OneRowEach

(* _tree_reflatten, of a tree whose nodes may have changed.                *)
LEMMA ReflattenKeeps ==
  ASSUME TreeHolds, NEW t \in Trees, Reflatten(t)
  PROVE  TreeHolds'
<1> DEFINE u == [t EXCEPT !.turn = 1 - @, !.openers = {n \in t.nodes : Children(t, n) # {}}]
<1>1. tree' = u /\ Shows(items, Flat(u), {}) /\ PlaceSelection(Flat(u), u.sel_node)
  BY DEF Reflatten
<1>2. u \in Trees
  <2>1. t.turn \in {0, 1} /\ t.nodes \in SUBSET Nodes
    BY DEF Trees
  <2>2. 1 - t.turn \in {0, 1} /\ {n \in t.nodes : Children(t, n) # {}} \in SUBSET Nodes
    BY <2>1
  <2> QED
    BY <2>2 DEF Trees
<1> HIDE DEF u
<1>3. Flat(u) \in Seq(TreeRows) /\ OneRowEach(Flat(u))
  BY <1>2, FlatFacts
<1>4. Flat(u) \in Seq(Listed)
  BY <1>3 DEF Listed
<1>5. selected' = PlacedIn(Flat(u), u.sel_node) /\ anchor' = selected'
  BY <1>1 DEF PlaceSelection
<1>6. selected' \in 0 .. Len(Flat(u))
  BY <1>3, <1>5, PlacedFacts
<1>7. Base' /\ items' = Flat(u) /\ kind' = kind
  BY <1>1, <1>4, <1>5, <1>6, ShowsKeeps DEF TreeHolds
<1>8. NodeIsSelected(u, Flat(u), selected')
  BY <1>3, <1>5, PlacedIsSelected
<1> QED
  BY <1>1, <1>2, <1>3, <1>7, <1>8 DEF TreeHolds, NodeIsSelected, OneRowEach

(* Every step of a tree.                                                   *)
LEMMA TreeStepKeeps ==
  ASSUME TreeHolds, TreeStep
  PROVE  TreeHolds'
<1>1. /\ Base /\ kind = "single" /\ tree \in Trees /\ items \in Seq(TreeRows)
      /\ OneRowEach(items) /\ NodeIsSelected(tree, items, selected)
      /\ Len(rows) = Len(items) /\ DOMAIN rows = 1 .. Len(rows) /\ DOMAIN items = DOMAIN rows
      /\ Len(rows) \in Nat /\ selected \in 0 .. Len(rows) /\ focus \in 0 .. Len(rows)
  BY DEF TreeHolds, Base, TypeOfAny
<1>2. \A i \in 1 .. Len(rows) : items[i].node \in Nodes
  <2>1. \A row \in TreeRows : row.node \in Nodes
    BY DEF TreeRows
  <2>2. \A i \in 1 .. Len(rows) : items[i] \in TreeRows
    BY <1>1
  <2> QED
    BY <2>1, <2>2
<1>3. ASSUME NEW i \in 1 .. Len(rows), RowClicked(i, "none"), NodeSelected(i), next' \in Nat
      PROVE  TreeHolds'
  <2>1. Base' /\ items' = items /\ kind' = kind /\ selected' = i
    <3>1. i \in 0 .. Len(rows) /\ i # 0
      BY <1>1
    <3> QED
      BY <1>1, <1>3, <3>1, ClickKeeps DEF IInv, RowClicked, ApplySelection
  <2>2. tree' \in Trees /\ tree'.sel_node = items[i].node
    <3>1. items[i].node \in Nodes
      BY <1>2
    <3> QED
      BY <1>1, <1>3, <3>1 DEF NodeSelected, Trees
  <2>3. \A j \in DOMAIN items : items[j].node = items[i].node <=> j = i
    BY <1>1, <1>3 DEF OneRowEach
  <2> QED
    BY <1>1, <2>1, <2>2, <2>3 DEF TreeHolds, NodeIsSelected, OneRowEach
<1>4. CASE TreeUsed
  <2>1. ASSUME NEW i \in DOMAIN rows, Click(i, "none"), NodeSelected(i) PROVE TreeHolds'
    <3>1. i \in 1 .. Len(rows) /\ RowClicked(i, "none") /\ next' \in Nat
      BY <1>1, <2>1 DEF Click, Base, TypeOfAny
    <3> QED
      BY <1>3, <2>1, <3>1
  <2>2. ASSUME NEW k \in Keys, Key(k, "none"), NodeSelected(KeyTarget(k)) PROVE TreeHolds'
    <3>1. KeyTarget(k) \in 1 .. Len(rows)
      BY <1>1, <2>2 DEF Key, KeyTarget, Keys
    <3>2. RowClicked(KeyTarget(k), "none") /\ next' \in Nat
      BY <2>2, <3>1 DEF Key
    <3> QED
      BY <1>3, <2>2, <3>1, <3>2
  <2>3. CASE (KeyReturns \/ TabInto \/ FocusLeaves) /\ UNCHANGED tree
    <3>1. Used
      BY <2>3 DEF Used
    <3>2. Base' /\ items' = items /\ kind' = kind
      BY <1>1, <3>1, UsedKeeps
    <3>3. selected' = selected /\ tree' = tree
      BY <2>3 DEF KeyReturns, TabInto, FocusLeaves
    <3> QED
      BY <1>1, <3>2, <3>3 DEF TreeHolds, NodeIsSelected, OneRowEach
  <2> QED
    BY <1>4, <2>1, <2>2, <2>3 DEF TreeUsed
<1>5. ASSUME NEW i \in DOMAIN rows, Disclose(i) PROVE TreeHolds'
  <2> DEFINE t == [tree EXCEPT !.expanded = Flipped(@, items[i].node)]
  <2>1. items[i].node \in Nodes
    BY <1>1, <1>2
  <2>2. t \in Trees
    BY <1>1, <2>1 DEF Trees, Flipped
  <2>3. Reflatten(t)
    BY <1>5 DEF Disclose
  <2> HIDE DEF t
  <2> QED
    BY <2>2, <2>3, ReflattenKeeps
<1>6. ASSUME NEW n \in tree.nodes \cup {0}, TreeSelect(n) PROVE TreeHolds'
  <2>1. n \in Nodes \cup {0}
    BY <1>1, <1>6 DEF Trees
  <2>2. /\ tree' \in Trees /\ tree'.sel_node = n
        /\ UNCHANGED <<kind, sel_mode, items, rows, sel_flags, focus, next>>
        /\ selected' = PlacedIn(items, n) /\ anchor' = selected'
    BY <1>1, <1>6, <2>1 DEF TreeSelect, PlaceSelection, Trees
  <2>3. selected' \in 0 .. Len(rows)
    BY <1>1, <2>2, PlacedFacts
  <2>4. Base'
    BY <1>1, <2>2, <2>3 DEF Base, TypeOfAny, StopIsOne, Multi
  <2>5. NodeIsSelected(tree', items, selected')
    BY <1>1, <2>2, PlacedIsSelected
  <2> QED
    BY <1>1, <2>2, <2>4, <2>5 DEF TreeHolds, NodeIsSelected, OneRowEach
<1>7. ASSUME UNCHANGED vars, tree' \in Trees, tree'.sel_node = tree.sel_node PROVE TreeHolds'
  <2>1. Base' /\ items' = items /\ kind' = kind /\ selected' = selected
    BY <1>1, <1>7, IdleKeeps DEF vars
  <2> QED
    BY <1>1, <1>7, <2>1 DEF TreeHolds, NodeIsSelected, OneRowEach
<1>8. ASSUME NEW n \in tree.nodes, NEW on \in BOOLEAN, SetExpanded(n, on) PROVE TreeHolds'
  <2>1. n \in Nodes
    BY <1>1, <1>8 DEF Trees
  <2>2. UNCHANGED vars /\ tree' \in Trees /\ tree'.sel_node = tree.sel_node
    BY <1>1, <1>8, <2>1 DEF SetExpanded, Trees
  <2> QED
    BY <1>7, <2>2
<1>9. ASSUME NEW n \in Nodes \ tree.nodes, AddChild(n) PROVE TreeHolds'
  <2>1. UNCHANGED vars /\ tree' \in Trees /\ tree'.sel_node = tree.sel_node
    BY <1>1, <1>9 DEF AddChild, Trees
  <2> QED
    BY <1>7, <2>1
<1>10. CASE Reflatten(tree)
  BY <1>1, <1>10, ReflattenKeeps
<1> QED
  BY <1>4, <1>5, <1>6, <1>8, <1>9, <1>10 DEF TreeStep, TreeProgrammed

(* --- the three of them ---------------------------------------------------- *)

(* What each form keeps, ...                                               *)
LBase ==
  /\ form \in {"listbox", "table", "tree"}
  /\ form = "listbox" => ListInv /\ table = NoTable
  /\ form = "table" => TableBase
  /\ form = "tree" => TreeHolds /\ table = NoTable
(* ... and a table whose sorter is armed over the list it shows.           *)
LInv == LBase /\ (form = "table" => Owned(table) /\ Showing(table, items))

(* Nothing is shown yet, but a tree's first flatten.                       *)
LEMMA NoTableFacts == Typed(NoTable) /\ Owned(NoTable) /\ \A list : Showing(NoTable, list)
<1> DEFINE lists == [l \in AppLists |-> <<>>]
<1>1. /\ NoTable.items = 0 /\ NoTable.view = 0 /\ NoTable.lists = lists /\ NoTable.sort_dir = 0
      /\ DOMAIN lists = AppLists /\ \A l \in AppLists : lists[l] = <<>>
  BY DEF NoTable
<1>2. lists \in Stores
  <2>1. lists = [k \in DOMAIN lists |-> lists[k]]
    OBVIOUS
  <2>2. AppLists \in SUBSET Int /\ <<>> \in Seq(Items)
    BY TableAssumption
  <2> HIDE DEF lists
  <2>3. DOMAIN lists \in SUBSET Int /\ \A k \in DOMAIN lists : lists[k] \in Seq(Items)
    BY <1>1, <2>2
  <2> QED
    BY <2>1, <2>3, StoreFacts, Zenon
<1>3. NoTable \in TableRecords
  <2> HIDE DEF lists
  <2>1. NoTable = [items |-> 0, view |-> 0, lists |-> lists, sorter |-> FALSE,
                   sort_col |-> 0, sort_dir |-> 0, filter |-> FALSE, passing |-> {}]
    BY Zenon DEF NoTable, lists
  <2> QED
    BY <1>2, <2>1 DEF TableRecords
<1>4. IsInjective(<<>>)
  BY DEF IsInjective
<1> QED
  BY <1>1, <1>3, <1>4, TableAssumption DEF Typed, Owned, Showing

(* The invariant holds before the first step.                              *)
LEMMA LInitKeeps == LInit => LInv
<1> SUFFICES ASSUME LInit PROVE LInv
  OBVIOUS
<1>1. table = NoTable /\ tree = NoTree /\ form \in {"listbox", "table", "tree"}
  BY ListsAssumption DEF LInit
<1>2. CASE form \in {"listbox", "table"}
  <2>1. ListInv /\ (form = "table" => kind = "single")
    BY <1>2, InitKeeps DEF LInit
  <2> QED
    BY <1>1, <1>2, <2>1, NoTableFacts DEF LInv, LBase, TableBase
<1>3. CASE form = "tree"
  <2>1. /\ kind = "single" /\ sel_mode = "toggle" /\ items = Flat(NoTree)
        /\ rows = Rendered(items, 0)
        /\ selected = 0 /\ anchor = 0 /\ sel_flags = <<>> /\ focus = 0 /\ next = 0
    BY <1>3 DEF LInit
  <2>2. NoTree \in Trees
    BY TreeAssumption DEF NoTree, Trees
  <2>3. items \in Seq(TreeRows) /\ OneRowEach(items)
    BY <2>1, <2>2, FlatFacts
  <2>4. items \in Seq(Listed)
    BY <2>3 DEF Listed
  <2>5. /\ rows \in Seq(Row) /\ Len(rows) = Len(items)
        /\ \A i \in DOMAIN rows : rows[i].stop <=> i = 1
    BY <2>1, <2>4, RenderedFacts DEF StopRow
  <2>6. TypeOfAny
    BY <2>1, <2>4, <2>5 DEF TypeOfAny, Row, Multi
  <2>7. StopIsOne
    <3>1. rows # <<>> => 1 \in DOMAIN rows
      BY <2>5
    <3> QED
      BY <2>5, <3>1 DEF StopIsOne
  <2>8. NodeIsSelected(tree, items, selected)
    <3>1. \A i \in DOMAIN items : i # 0 /\ items[i] \in TreeRows
      BY <2>3
    <3>2. \A row \in TreeRows : row.node # 0
      BY NodesAre DEF TreeRows
    <3> QED
      BY <1>1, <2>1, <3>1, <3>2 DEF NodeIsSelected, NoTree
  <2> QED
    BY <1>1, <1>3, <2>1, <2>2, <2>3, <2>6, <2>7, <2>8 DEF LInv, LBase, TreeHolds, Base
<1> QED
  BY <1>1, <1>2, <1>3

(* Every step keeps that, and carries what was picked.                     *)
LEMMA LNextKeeps ==
  ASSUME LBase, [LNext]_all
  PROVE  /\ LBase'
         /\ ~Rearms /\ LInv =>
              LInv' /\ ((form = "listbox" /\ Update(items')) \/ (table' # table /\ ~ChangedBefore) =>
                          SelectionCarried /\ (form = "listbox" => AnchorCarried))
<1>1. CASE ListboxStep
  <2>1. form = "listbox" /\ Next /\ UNCHANGED <<table, tree, form>> /\ ListInv /\ table = NoTable
    BY <1>1 DEF ListboxStep, LBase
  <2>2. ListInv'
    BY <2>1, NextKeeps
  <2>3. Update(items') => SelectionCarried /\ AnchorCarried
    <3>1. items' \in Seq(Items)
      BY <2>2 DEF ListInv
    <3> QED
      BY <2>1, <3>1, UpdateCarries
  <2> QED
    BY <2>1, <2>2, <2>3 DEF LBase, LInv
<1>2. CASE TableStep
  <2>1. form = "table" /\ form' = form /\ TableBase
    BY <1>2 DEF TableStep, LBase
  <2>2. TableStepHolds
    BY <1>2, <2>1, TableStepKeeps
  <2> QED
    BY <2>1, <2>2 DEF LBase, LInv, TableStepHolds
<1>3. CASE TreeStep
  <2>1. form = "tree" /\ UNCHANGED <<table, form>> /\ TreeHolds /\ table = NoTable
    BY <1>3 DEF TreeStep, LBase
  <2>2. TreeHolds'
    BY <1>3, <2>1, TreeStepKeeps
  <2> QED
    BY <2>1, <2>2 DEF LBase, LInv
<1>4. CASE UNCHANGED all
  <2>1. UNCHANGED <<vars, table, tree, form>>
    BY <1>4 DEF all
  <2>2. (ListInv => ListInv') /\ (Base => Base') /\ UNCHANGED <<items, kind, selected>>
    BY <2>1, IdleKeeps DEF ListInv, vars
  <2>3. (TableBase => TableBase') /\ (TreeHolds => TreeHolds')
    BY <2>1, <2>2 DEF TableBase, TreeHolds, NodeIsSelected, OneRowEach
  <2>4. form = "listbox" /\ Update(items') => SelectionCarried /\ AnchorCarried
    <3>1. items' = items
      BY <2>2
    <3> QED
      BY <2>1, <3>1, UpdateCarries DEF LBase, ListInv
  <2> QED
    BY <2>1, <2>2, <2>3, <2>4 DEF LBase, LInv
<1> QED
  BY <1>1, <1>2, <1>3, <1>4 DEF LNext

(* KeysHaveOnePlace: a listbox, a table and a tree are one tab stop, and in *)
(* the first two the focus is on the selected row, whatever the sorter is  *)
(* armed over.                                                             *)
THEOREM OnePlaceInEach == LSpec => []KeysHaveOnePlace
<1>1. LBase => KeysHaveOnePlace
  BY OneStop DEF LBase, KeysHaveOnePlace, TableBase, TreeHolds, ListInv, IInv, Base
<1>2. LInit => LBase
  BY LInitKeeps DEF LInv
<1> QED
  BY <1>1, <1>2, LNextKeeps, PTL DEF LSpec

(* ViewsHold: a table shows its model's view, filtered and sorted, frees it *)
(* once and no list of the application's, and a tree has selected what it  *)
(* says, as long as no sorter is armed over a list that is not shown.      *)
THEOREM ViewsAreHeld ==
  ASSUME ~Rearms
  PROVE  LSpec => []ViewsHold
<1>1. LInv => ViewsHold
  <2> SUFFICES ASSUME LInv PROVE ViewsHold
    OBVIOUS
  <2>1. table = NoTable \/ form = "table"
    BY DEF LInv, LBase
  <2>2. Owned(table) /\ Showing(table, items)
    BY <2>1, NoTableFacts DEF LInv
  <2>3. ListsOwned
    BY <2>2 DEF Owned, ListsOwned
  <2>4. table.view # 0 => InOrder
    BY <2>2 DEF Showing, InOrder, InOrderOf
  <2>5. form = "tree" => SelectionIsTheNode
    BY DEF LInv, LBase, TreeHolds, NodeIsSelected, SelectionIsTheNode
  <2> QED
    BY <2>3, <2>4, <2>5 DEF ViewsHold, TableHolds
<1>2. LInit => LInv
  BY LInitKeeps
<1>3. LInv /\ [LNext]_all => LInv'
  BY LNextKeeps DEF LInv
<1> QED
  BY <1>1, <1>2, <1>3, PTL DEF LSpec

(* ItemsCarried: the same of what is picked, through every update, sort    *)
(* and filter.                                                             *)
THEOREM PickedIsCarried ==
  ASSUME ~Rearms
  PROVE  LSpec => ItemsCarried
<1>1. LInit => LInv
  BY LInitKeeps
<1>2. LInv /\ [LNext]_all => LInv'
  BY LNextKeeps DEF LInv
<1>3. LInv /\ [LNext]_all =>
        [(form = "listbox" /\ Update(items')) \/ (table' # table /\ ~ChangedBefore) =>
           SelectionCarried /\ (form = "listbox" => AnchorCarried)]_all
  BY LNextKeeps DEF LInv
<1> QED
  BY <1>1, <1>2, <1>3, PTL DEF LSpec, ItemsCarried

-----------------------------------------------------------------------------
(* The canvas.                                                             *)

(* A cell of the surface that no paint is pending for is right.            *)
SurfaceHolds ==
  /\ clip \subseteq Cells
  /\ clip # {} => surf # None /\ dirty
  /\ backend = "win32" => surf = None
  /\ surf # None => /\ hook => told = surf.size
                    /\ (backend = "gtk" /\ clip # {}) => surf.size = size
                    /\ (~dirty \/ clip # {}) =>
                         \A c \in Cells \ clip : surf.cells[c] = Shown(cmds, c)

(* The cache has a key of this generation only if it shows what there was  *)
(* when the list was that long, and in one generation the list only grows. *)
CacheHolds ==
  cache # None =>
    /\ cache.key \in Nat \X Nat \X Sizes
    /\ cache.key[1] <= gen
    /\ cache.key[1] = gen => /\ cache.key[2] <= Len(cmds)
                             /\ cache.key[2] = Len(cmds) => cache.cells = Painted(cmds)

CanvasInv ==
  /\ backend \in Backends /\ size \in Sizes /\ gen \in Nat /\ cmds \in Seq(Command)
  /\ hook \in BOOLEAN /\ dirty \in BOOLEAN
  /\ SurfaceHolds
  /\ CacheHolds

(* Whatever vg emits is a list of commands.                                *)
LEMMA ElementsAreCommands ==
  ASSUME NEW list, NEW e \in Shapes \cup Scopes(list)
  PROVE  e \in Seq(Command)
<1>1. \A k \in Kinds, at, n \in Int : Cmd(k, at, n) \in Command
  BY DEF Cmd, Command
<1>2. \A c \in Command : <<c>> \in Seq(Command)
  OBVIOUS
<1>3. \A c, d \in Command : <<c, d>> \in Seq(Command)
  OBVIOUS
<1>4. \A c, d, x \in Command : <<c, d, x>> \in Seq(Command)
  OBVIOUS
<1>5. \A s, t \in Seq(Command) : s \o t \in Seq(Command)
  OBVIOUS
<1>6. /\ {"rect", "text", "outline", "image", "smooth", "clip", "reset", "group"} \subseteq Kinds
      /\ {"end", "begin", "arc", "clippath", "stroke", "gstroke", "fill", "gfill"} \subseteq Kinds
  BY DEF Kinds, PathKinds, Consumers, Painters
<1>7. \A f \in Figures : ReplayPath(f) \in Seq(Command)
  <2>1. Cmd("begin", 0, 0) \in Command
    BY <1>1, <1>6
  <2> QED
    BY <1>2, <1>5, <2>1, CanvasAssumption DEF ReplayPath
<1>8. PathShapes \subseteq Seq(Command)
  <2>1. \A k \in {"fill", "stroke", "gfill", "gstroke"}, n \in {0, 1, 2} : Cmd(k, 0, n) \in Command
    BY <1>1, <1>6
  <2>2. SUFFICES ASSUME NEW p \in PathShapes PROVE p \in Seq(Command)
    OBVIOUS
  <2>3. PICK f \in Figures, c \in Command : p = ReplayPath(f) \o <<c>>
    BY <2>1 DEF PathShapes
  <2> QED
    BY <1>2, <1>5, <1>7, <2>3
<1>9. Circles \subseteq Seq(Command)
  <2>1. \A k \in {"fill", "stroke"} : Cmd(k, 0, 0) \in Command /\ Cmd(k, 0, 1) \in Command
    BY <1>1, <1>6
  <2>2. Cmd("begin", 0, 0) \in Command /\ Cmd("arc", 9, 0) \in Command
    BY <1>1, <1>6
  <2> QED
    BY <1>4, <2>1, <2>2 DEF Circles
<1>10. TextsOf(8) \subseteq Seq(Command)
  <2>1. Cmd("text", 8, 0) \in Command /\ Cmd("outline", 8, 0) \in Command
    BY <1>1, <1>6
  <2> QED
    BY <1>2, <1>3, <2>1 DEF TextsOf
<1>11. Images(7) \subseteq Seq(Command)
  <2>1. \A larger \in 0 .. 1 : Cmd("image", 7, larger) \in Command
    BY <1>1, <1>6
  <2>2. /\ Cmd("smooth", 0, 0) \in Command /\ Cmd("smooth", 0, 1) \in Command
        /\ Cmd("group", 0, 0) \in Command /\ Cmd("end", 0, 2) \in Command
    BY <1>1, <1>6
  <2>3. \A image \in Command : Pixelated(image) \in Seq(Command)
    BY <1>4, <2>2 DEF Pixelated
  <2>4. \A s \in Seq(Command) : InGroup(s) \in Seq(Command)
    BY <1>2, <1>5, <2>2 DEF InGroup
  <2>5. SUFFICES ASSUME NEW s \in Images(7) PROVE s \in Seq(Command)
    OBVIOUS
  <2>6. PICK larger \in 0 .. 1 :
          LET image == Cmd("image", 7, larger)
          IN  s \in {<<image>>, Pixelated(image), InGroup(Pixelated(image))}
    BY <2>5 DEF Images
  <2> QED
    BY <1>2, <2>1, <2>3, <2>4, <2>6
<1>12. <<Cmd("rect", 6, 1)>> \in Seq(Command)
  BY <1>1, <1>2, <1>6
<1>13. Scopes(list) \subseteq Seq(Command)
  <2>1. /\ Cmd("clip", 5, 0) \in Command /\ Cmd("reset", 0, 0) \in Command
        /\ Cmd("group", 0, 0) \in Command /\ Cmd("clippath", 0, 1) \in Command
        /\ Cmd("end", 0, 1) \in Command /\ Cmd("end", 0, 2) \in Command
    BY <1>1, <1>6
  <2>2. \A f \in Figures : <<Cmd("group", 0, 0)>> \o ReplayPath(f) \o <<Cmd("clippath", 0, 1)>>
                             \in Seq(Command)
    BY <1>2, <1>5, <1>7, <2>1
  <2> QED
    BY <1>2, <2>1, <2>2 DEF Scopes
<1> QED
  BY <1>8, <1>9, <1>10, <1>11, <1>12, <1>13 DEF Shapes

(* A scene is a list of commands, with Win32's clear before it.            *)
LEMMA ScenesAreCommands ==
  ASSUME NEW scene \in Scenes
  PROVE  Cleared \o scene \in Seq(Command)
<1>1. Rects \subseteq Command
  BY DEF Rects, Command, Cells, Kinds
<1>2. scene \in Seq(Command)
  BY <1>1, CanvasAssumption
<1>3. Cmd("clear", 0, 0) \in Command
  BY DEF Cmd, Command, Kinds
<1> HIDE DEF Command
<1>4. <<Cmd("clear", 0, 0)>> \in Seq(Command) /\ <<>> \in Seq(Command)
  BY <1>3
<1>5. Cleared \in Seq(Command)
  BY <1>4 DEF Cleared
<1> QED
  BY <1>2, <1>5

(* A canvas begins with nothing listed, painted or cached.                 *)
LEMMA CanvasInitKeeps == CanvasInit => CanvasInv
<1> SUFFICES ASSUME CanvasInit PROVE CanvasInv
  OBVIOUS
<1>1. <<>> \in Seq(Command)
  OBVIOUS
<1>2. SurfaceHolds /\ CacheHolds
  BY DEF CanvasInit, SurfaceHolds, CacheHolds
<1> QED
  BY <1>1, <1>2 DEF CanvasInit, CanvasInv

(* A cache keeps what it is good for as long as the list only grows, or    *)
(* the generation moves.                                                   *)
LEMMA NewGenerationKeeps ==
  ASSUME CanvasInv, gen' = gen + 1, UNCHANGED cache
  PROVE  CacheHolds'
BY DEF CanvasInv, CacheHolds

(* vg emits only onto a canvas that has no surface and no cache.           *)
LEMMA EmitKeeps ==
  ASSUME CanvasInv, NEW e \in Shapes \cup Scopes(cmds), NEW w, Emit(e, w)
  PROVE  CanvasInv'
<1>1. cmds' \in Seq(Command)
  BY ElementsAreCommands DEF Emit, CanvasInv
<1> QED
  BY <1>1 DEF Emit, CanvasInv, OneCanvas, SurfaceHolds, CacheHolds

(* The clip of a scene holds every cell that the scene changes; the rest   *)
(* of the surface is right as it is. The generation moves past the         *)
(* cache's.                                                                *)
LEMMA PaintSceneKeeps ==
  ASSUME CanvasInv, OneClipPerPaint, ~ResizeUnderClip,
         NEW scene \in Scenes, NEW clipped \in BOOLEAN, PaintScene(scene, clipped)
  PROVE  CanvasInv'
<1>1. cmds' = Cleared \o scene /\ cmds' \in Seq(Command)
  BY ScenesAreCommands DEF PaintScene
<1>2. CacheHolds'
  BY NewGenerationKeeps DEF PaintScene, NextGen
<1>4. backend # "win32" => cmds' = scene
  BY <1>1, CanvasAssumption DEF Cleared, Rects
<1>3. SurfaceHolds'
  BY <1>4 DEF PaintScene, CanvasInv, SurfaceHolds, ClipFits
<1> QED
  BY <1>1, <1>2, <1>3 DEF PaintScene, CanvasInv, NextGen

(* A rectangle more is a longer list, and asks for a draw with no clip.    *)
LEMMA AddRectKeeps ==
  ASSUME CanvasInv, NEW cell \in Cells, AddRect(cell)
  PROVE  CanvasInv'
<1>1. Cmd("rect", cell, 3) \in Command
  BY DEF Cmd, Command, Cells, Kinds
<1>2. cmds' \in Seq(Command) /\ Len(cmds') = Len(cmds) + 1 /\ Len(cmds) \in Nat
  BY <1>1 DEF AddRect, CanvasInv
<1> QED
  BY <1>2 DEF AddRect, CanvasInv, SurfaceHolds, CacheHolds

(* A surface of another size is not painted until a draw, which makes a    *)
(* fresh one.                                                              *)
LEMMA ResizeKeeps ==
  ASSUME CanvasInv, ~ResizeUnderClip, NEW s \in Sizes, Resize(s)
  PROVE  CanvasInv'
BY DEF Resize, CanvasInv, SurfaceHolds, CacheHolds, ClipFits

(* What the hook writes is a new scene of a new generation; it does so     *)
(* only if the surface is of another size, which is painted whole.         *)
LEMMA FireResizeKeeps ==
  ASSUME CanvasInv, FireResize, UNCHANGED <<backend, size, hook, cache>>
  PROVE  /\ cmds' \in Seq(Command) /\ gen' \in Nat /\ CacheHolds'
         /\ hook => told' = size
         /\ ~Hooked => cmds' = cmds
<1>1. CASE Hooked
  <2>1. gen' = gen + 1 /\ told' = size /\ cmds' \in Seq(Command)
    BY <1>1, ScenesAreCommands DEF FireResize, NextGen
  <2> QED
    BY <1>1, <2>1, NewGenerationKeeps DEF CanvasInv
<1>2. CASE ~Hooked
  BY <1>2 DEF FireResize, Hooked, CanvasInv, CacheHolds
<1> QED
  BY <1>1, <1>2

(* A draw leaves the surface right in every cell: GTK decides the repaint  *)
(* before the hook, and is dirty again if the hook wrote a scene it does   *)
(* not show; Android and Win32 decide after it.                            *)
LEMMA Draw1Keeps ==
  ASSUME CanvasInv, Draw1
  PROVE  CanvasInv'
<1>1. backend \in {"gtk", "android", "win32"} /\ size # 0
  BY CanvasAssumption DEF CanvasInv
<1>2. UNCHANGED <<backend, size, hook, cache>>
  BY DEF Draw1
<1>3. FireResize
  BY <1>1 DEF Draw1, GtkDraw, AndroidDraw, Win32Draw
<1>4. /\ cmds' \in Seq(Command) /\ gen' \in Nat /\ CacheHolds'
      /\ hook => told' = size
      /\ ~Hooked => cmds' = cmds
  BY <1>2, <1>3, FireResizeKeeps
<1>5. \A kept : [size |-> size, cells |-> kept] # None
  BY <1>1 DEF None
<1> DEFINE fresh == surf = None \/ surf.size # size
<1>6. ~fresh => ~Hooked
  BY DEF CanvasInv, SurfaceHolds, Hooked
<1>7. \A cells, kept : \A c \in Cells :
        Repainted(cmds', cells, kept)[c] =
          IF cells = {} \/ c \in cells THEN Shown(cmds', c) ELSE kept[c]
  BY DEF Repainted
<1>8. CASE backend = "gtk"
  <2>1. GtkDraw
    BY <1>8 DEF Draw1
  <2>2. clip # {} => ~fresh
    BY <1>8 DEF CanvasInv, SurfaceHolds
  <2>3. clip' = {} /\ dirty' = FALSE /\ surf'.size = size /\ surf' # None
    BY <1>5, <1>6, <2>1 DEF GtkDraw, CanvasInv, SurfaceHolds
  <2>4. \A c \in Cells : surf'.cells[c] = Shown(cmds', c)
    <3>1. CASE dirty \/ fresh
      <4>1. surf'.cells = Repainted(cmds', clip, IF fresh THEN Empty ELSE surf.cells)
        BY <2>1, <3>1 DEF GtkDraw
      <4> QED
        BY <1>4, <1>6, <1>7, <2>2, <4>1 DEF CanvasInv, SurfaceHolds
    <3>2. CASE ~dirty /\ ~fresh
      <4>1. surf'.cells = surf.cells
        BY <2>1, <3>2 DEF GtkDraw
      <4> QED
        BY <1>4, <1>6, <3>2, <4>1 DEF CanvasInv, SurfaceHolds
    <3> QED
      BY <3>1, <3>2 DEF CanvasInv
  <2> QED
    BY <1>2, <1>4, <1>8, <2>3, <2>4 DEF CanvasInv, SurfaceHolds
<1>9. CASE backend = "android"
  <2>1. AndroidDraw
    BY <1>9 DEF Draw1
  <2>2. clip' = {} /\ dirty' = FALSE /\ surf'.size = size /\ surf' # None
    BY <1>5, <2>1 DEF AndroidDraw
  <2>3. surf'.cells = Repainted(cmds', IF fresh THEN {} ELSE clip,
                                IF fresh THEN Empty ELSE surf.cells)
    BY <2>1 DEF AndroidDraw
  <2>4. \A c \in Cells : surf'.cells[c] = Shown(cmds', c)
    BY <1>4, <1>6, <1>7, <2>3 DEF CanvasInv, SurfaceHolds
  <2> QED
    BY <1>2, <1>4, <1>9, <2>2, <2>4 DEF CanvasInv, SurfaceHolds
<1>10. CASE backend = "win32"
  BY <1>2, <1>4, <1>10 DEF Draw1, Win32Draw, CanvasInv, SurfaceHolds
<1> QED
  BY <1>1, <1>8, <1>9, <1>10

(* A read keeps a cache whose key is the list's, or paints another.        *)
LEMMA ReadPixelKeeps ==
  ASSUME CanvasInv, NEW w \in Sizes, ReadPixel(w)
  PROVE  CanvasInv'
<1>1. Len(cmds) \in Nat
  BY DEF CanvasInv
<1>2. CASE cache' = cache
  BY <1>2 DEF ReadPixel, CanvasInv, SurfaceHolds, CacheHolds
<1>3. CASE cache' # cache
  <2>1. cache' = [size |-> w, key |-> <<gen, Len(cmds), w>>, cells |-> Painted(cmds)]
    BY <1>3 DEF ReadPixel, CacheKey
  <2>2. UNCHANGED <<gen, cmds>> /\ gen \in Nat
    BY DEF ReadPixel, CanvasInv
  <2>3. CacheHolds'
    BY <1>1, <2>1, <2>2 DEF CacheHolds
  <2> QED
    BY <2>3 DEF ReadPixel, CanvasInv, SurfaceHolds
<1> QED
  BY <1>2, <1>3

(* The invariant is kept by every step, as long as no resize comes under a *)
(* pending clip and no second clip before the first is painted.            *)
LEMMA CanvasNextKeeps ==
  ASSUME CanvasInv, [CanvasNext]_canvas, OneClipPerPaint, ~ResizeUnderClip
  PROVE  CanvasInv'
<1>1. CASE UNCHANGED canvas
  BY <1>1 DEF canvas, CanvasInv, SurfaceHolds, CacheHolds
<1> QED
  BY <1>1, EmitKeeps, PaintSceneKeeps, AddRectKeeps, ResizeKeeps, Draw1Keeps, ReadPixelKeeps
     DEF CanvasNext

(* For every set of figures, scenes and sizes: whenever no draw is asked   *)
(* for the surface shows the command list in every cell, through clears,   *)
(* one-shot clips, resizes and the hooks that repaint inside a draw, and a *)
(* pixel read from the cached replay is one of the list in force, as long  *)
(* as a paint comes between two clips and GTK's canvas is not resized      *)
(* under one.                                                              *)
THEOREM WhatIsListedIsRead ==
  ASSUME OneClipPerPaint, ~ResizeUnderClip
  PROVE  CanvasSpec => []ReadsWhatIsListed
<1>1. CanvasInv => ReadsWhatIsListed
  BY DEF CanvasInv, SurfaceHolds, CacheHolds, ReadsWhatIsListed, ShowsTheList,
         PixelsOfTheList, CacheKey
<1>2. CanvasInv /\ [CanvasNext]_canvas => CanvasInv'
  BY CanvasNextKeeps
<1> QED
  BY <1>1, <1>2, CanvasInitKeeps, PTL DEF CanvasSpec
=============================================================================
