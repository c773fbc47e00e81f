----------------------------- MODULE MenusProofs -----------------------------
(***************************************************************************)
(* For any menus, labels, size of the side-store and number of items, on   *)
(* each of the three backends: no table, native item, command or           *)
(* accelerator keeps a closure that was retired or freed, the side-store   *)
(* shows what the platform shows, a click runs the closure of its item,    *)
(* and the tray's host with the newest layout runs what it shows.          *)
(*                                                                         *)
(* Each rests on who owns what: a closure belongs to one item of one menu, *)
(* which every other table names it by; an id, once given, is not given    *)
(* again, so a command that waits still means its item; and a label is on  *)
(* one item of a menu, so what menu_item_set_label finds in the store and  *)
(* in the platform's menu is the same item.                                *)
(***************************************************************************)
EXTENDS TrayMenu, WellFoundedInduction, TLAPS

(* What a table of the model is made of.                                   *)
Rec ==
  [used : {TRUE}, menu : MenuHandles, sep : BOOLEAN, label : Labels \cup {""}, box : Nat]
  \cup {Unused}
Ids == (MenuHandles \cup {0}) \X (Nat \cup {-1})
NativeItem ==
  [sep : {FALSE}, label : Labels, acc : BOOLEAN, id : Ids, box : Nat] \cup {Separator}

Typed ==
  /\ backend \in {"gtk", "win32", "android"}
  /\ store \in Seq(Rec)
  /\ \A i \in DOMAIN store : store[i].used /\ store[i].sep => store[i].box = 0
  /\ native \in [MenuHandles -> Seq(NativeItem)]
  /\ nextId \in [MenuHandles \cup {0} -> Nat]
  /\ added \in Nat /\ clears \in Nat
  /\ shown = NoMenu \/ shown.menu \in MenuHandles

(* A menu's native items, without their places.                            *)
ItemsOf(m) == {native[m][i] : i \in Places(m)}

(* A label names one item of a menu, natively and in the side-store.       *)
LabelsApart ==
  /\ \A m \in MenuHandles : \A i, j \in Places(m) :
       native[m][i].label = native[m][j].label => i = j
  /\ \A m \in MenuHandles : \A i, j \in Items(m) :
       store[i].label = store[j].label => i = j

(* A closure is that of an item of one menu, and is one that was given.    *)
OneOwner ==
  /\ \A m \in MenuHandles : \A x \in ItemsOf(m) : x.box <= added
  /\ \A m, n \in MenuHandles : \A x \in ItemsOf(m), y \in ItemsOf(n) :
       x.box = y.box /\ x.box # 0 => m = n

(* An id names one closure and was given by its counter; on GTK it bears   *)
(* the item's menu, and a disabled item has none.                          *)
IdsGiven ==
  /\ \A m \in MenuHandles : \A x \in ItemsOf(m) :
       /\ x.id[2] # -1 => x.id[2] < nextId[x.id[1]]
       /\ backend = "gtk" => IF x.box = 0 THEN x.id[2] = -1
                             ELSE x.id[1] = m /\ x.id[2] # -1
       /\ backend = "win32" => x.id[1] = 0 /\ x.id[2] # -1
  /\ \A m, n \in MenuHandles : \A x \in ItemsOf(m), y \in ItemsOf(n) :
       x.id = y.id /\ x.id[2] # -1 => x.box = y.box

(* A command is that of a native item.                                     *)
CommandsKnown ==
  \A c \in commands :
    /\ backend # "android" /\ c.id[2] # -1
    /\ \E m \in MenuHandles : \E x \in ItemsOf(m) :
         x.id = c.id /\ x.box = c.box /\ (backend = "gtk" => c.id[1] = m)

(* The command that waits means its item or nothing.                       *)
ChosenKnown ==
  chosen # NoItem =>
    /\ backend = "win32" /\ chosen.id[1] = 0 /\ chosen.id[2] \in Nat
    /\ chosen.id[2] < nextId[0]
    /\ \A m \in MenuHandles : \A x \in ItemsOf(m) :
         x.id = chosen.id => x.box = chosen.box

(* An accelerator's closure is that of an item of its menu.                *)
AccelsOwned ==
  \A a \in accels :
    /\ a.box \in 0 .. added
    /\ a.box # 0 => a.menu \in MenuHandles /\ \E x \in ItemsOf(a.menu) : x.box = a.box

(* What was retired or freed is nobody's.                                  *)
RetiredApart ==
  /\ grave \cup freed \subseteq 1 .. added
  /\ grave \cap freed = {}
  /\ \A m \in MenuHandles : \A x \in ItemsOf(m) : x.box \notin grave \cup freed

(* The closure that runs is not freed, nor retired before it clears.       *)
RunningKept ==
  running # 0 => running \notin freed /\ (clears = 0 => running \notin grave)

Owned ==
  /\ Typed /\ LabelsApart /\ OneOwner /\ IdsGiven /\ CommandsKnown /\ ChosenKnown
  /\ AccelsOwned /\ RetiredApart /\ StoreMirrorsNative

IInv == Owned /\ RunningKept

-----------------------------------------------------------------------------
(* The least of a set of naturals is in it, and so is the greatest of a    *)
(* bounded one.                                                            *)
LEMMA MinIn ==
  ASSUME NEW S \in SUBSET Nat, S # {}
  PROVE  Min(S) \in S
<1> DEFINE R == {ss \in Nat \X Nat : ss[1] < ss[2]}
<1>1. IsWellFoundedOn(R, Nat)
  BY NatLessThanWellFounded DEF OpToRel
<1>2. \A x, y \in Nat : y < x => <<y, x>> \in R
  OBVIOUS
<1> HIDE DEF R
<1>3. PICK x \in S : \A y \in S : ~ (<<y, x>> \in R)
  BY <1>1, WFMin
<1>4. \A y \in S : ~ (y < x)
  BY <1>2, <1>3, Zenon
<1>5. \A y \in S : x <= y
  BY <1>4
<1> QED
  BY <1>5 DEF Min

(* The greatest of a set of numbers up to n.                               *)
LEMMA MaxIn ==
  ASSUME NEW n \in Nat, NEW S \in SUBSET (0 .. n), S # {}
  PROVE  Max(S) \in S /\ \A x \in S : x <= Max(S)
<1> DEFINE T == {n - x : x \in S}
<1>1. T \in SUBSET Nat /\ T # {}
  <2>1. \A x \in S : n - x \in Nat
    OBVIOUS
  <2> QED
    BY <2>1
<1> DEFINE R == {ss \in Nat \X Nat : ss[1] < ss[2]}
<1>2. IsWellFoundedOn(R, Nat)
  BY NatLessThanWellFounded DEF OpToRel
<1>3. \A x, y \in Nat : y < x => <<y, x>> \in R
  OBVIOUS
<1> HIDE DEF R, T
<1>4. PICK t \in T : \A y \in T : ~ (<<y, t>> \in R)
  BY <1>1, <1>2, WFMin
<1>5. \A y \in T : ~ (y < t)
  BY <1>1, <1>3, <1>4, Zenon
<1>6. PICK x \in S : t = n - x
  BY DEF T
<1>7. \A y \in S : n - y \in T
  BY DEF T
<1>8. \A y \in S : x >= y
  BY <1>5, <1>6, <1>7
<1> QED
  BY <1>8 DEF Max

(* What an item of a menu is.                                              *)
LEMMA ItemTyped ==
  ASSUME Typed, NEW m \in MenuHandles, NEW x \in ItemsOf(m)
  PROVE  /\ x \in NativeItem /\ ~x.sep
         /\ x.label \in Labels /\ x.acc \in BOOLEAN /\ x.id \in Ids /\ x.box \in Nat
<1>1. PICK i \in Places(m) : x = native[m][i]
  BY DEF ItemsOf
<1>2. native[m] \in Seq(NativeItem)
  BY DEF Typed
<1>3. i \in DOMAIN native[m] /\ ~x.sep
  BY <1>1 DEF Places
<1>4. x \in NativeItem
  BY <1>1, <1>2, <1>3
<1>5. x # Separator
  BY <1>3 DEF Separator
<1> QED
  BY <1>3, <1>4, <1>5 DEF NativeItem

(* What a slot of the side-store is.                                       *)
LEMMA RecordFacts ==
  ASSUME Typed, NEW i \in DOMAIN store
  PROVE  /\ store[i] = Unused <=> ~store[i].used
         /\ store[i].used => store[i].menu \in MenuHandles /\ store[i].box \in Nat
<1>1. store[i] \in Rec
  BY DEF Typed
<1>2. CASE store[i] = Unused
  BY <1>2 DEF Unused
<1>3. CASE store[i] # Unused
  <2>1. store[i].used = TRUE /\ store[i].menu \in MenuHandles /\ store[i].box \in Nat
    BY <1>1, <1>3 DEF Rec
  <2> QED
    BY <1>3, <2>1
<1> QED
  BY <1>2, <1>3

(* menu_item_slot: the new record goes where none is used, and the table   *)
(* only grows; it is dropped only when the table is full.                  *)
LEMMA PutFacts ==
  ASSUME Typed, NEW r \in Rec, store' = Put(store, r)
  PROVE  /\ store' \in Seq(Rec) /\ Len(store') \in Nat /\ Len(store) \in Nat
         /\ Len(store') >= Len(store)
         /\ \/ store' = store /\ Len(store) >= Slots
            \/ \E k \in DOMAIN store' :
                 /\ store'[k] = r /\ (k \in DOMAIN store => ~store[k].used)
                 /\ DOMAIN store' = DOMAIN store \cup {k}
                 /\ \A i \in DOMAIN store \ {k} : store'[i] = store[i]
<1> DEFINE left == {i \in DOMAIN store : ~store[i].used}
<1>1. /\ store \in Seq(Rec) /\ Len(store) \in Nat /\ DOMAIN store = 1 .. Len(store)
      /\ Slots \in Nat
  BY MenusAssumption DEF Typed
<1>2. CASE left # {}
  <2>1. Min(left) \in left
    BY <1>1, <1>2, MinIn
  <2>2. PICK k \in left : k = Min(left)
    BY <2>1
  <2>3. store' = [store EXCEPT ![k] = r]
    BY <1>2, <2>2, Zenon DEF Put
  <2>4. k \in DOMAIN store /\ ~store[k].used
    BY <2>2
  <2> HIDE DEF left
  <2>5. store' \in Seq(Rec) /\ DOMAIN store' = DOMAIN store /\ Len(store') = Len(store)
    BY <1>1, <2>3, <2>4
  <2>6. store'[k] = r /\ \A i \in DOMAIN store \ {k} : store'[i] = store[i]
    BY <1>1, <2>3, <2>4
  <2> QED
    BY <1>1, <2>4, <2>5, <2>6
<1>3. CASE left = {} /\ Len(store) < Slots
  <2>1. store' = Append(store, r)
    BY <1>3 DEF Put
  <2> DEFINE k == Len(store) + 1
  <2>2. /\ store' \in Seq(Rec) /\ Len(store') = k
        /\ DOMAIN store' = DOMAIN store \cup {k} /\ k \notin DOMAIN store
    BY <1>1, <2>1
  <2>3. store'[k] = r /\ \A i \in DOMAIN store \ {k} : store'[i] = store[i]
    BY <1>1, <2>1
  <2> HIDE DEF k
  <2> QED
    BY <1>1, <2>2, <2>3 DEF k
<1>4. CASE left = {} /\ ~(Len(store) < Slots)
  BY <1>1, <1>4 DEF Put
<1> QED
  BY <1>2, <1>3, <1>4

(* A record goes to the first unused slot, or to the end.                  *)
LEMMA PutKeeps ==
  ASSUME Typed, NEW r \in Rec, store' = Put(store, r)
  PROVE  \A i \in DOMAIN store' :
           store'[i] = r \/ (i \in DOMAIN store /\ store'[i] = store[i])
<1>1. \/ store' = store
      \/ \E k \in DOMAIN store' :
           /\ store'[k] = r
           /\ DOMAIN store' = DOMAIN store \cup {k}
           /\ \A i \in DOMAIN store \ {k} : store'[i] = store[i]
  BY PutFacts
<1> QED
  BY <1>1

(* A record of an item of m adds it to what the store knows of m, or, the  *)
(* table being full, adds nothing; of no other menu it knows more.         *)
LEMMA PutItem ==
  ASSUME Typed, NEW m \in MenuHandles, NEW l \in Labels, NEW b \in Nat,
         NEW r \in Rec, r.used, ~r.sep, r.menu = m, r.label = l, r.box = b,
         store' = Put(store, r),
         \A i \in Items(m) : store[i].label # l,
         LabelsApart
  PROVE  /\ store' \in Seq(Rec)
         /\ \A n \in MenuHandles \ {m} : Recorded(n)' = Recorded(n)
         /\ \/ Recorded(m)' = Recorded(m) \cup {<<l, b>>}
            \/ Recorded(m)' = Recorded(m) /\ Len(store') >= Slots
         /\ Len(store') < Slots => Len(store) < Slots
         /\ \A n \in MenuHandles : \A i, j \in Items(n)' :
              store'[i].label = store'[j].label => i = j
<1>1. r.used /\ ~r.sep /\ r.menu = m /\ r.label = l /\ r.box = b
  OBVIOUS
<1>2. /\ store' \in Seq(Rec) /\ Len(store') \in Nat /\ Len(store) \in Nat
      /\ Len(store') >= Len(store)
      /\ \/ store' = store /\ Len(store) >= Slots
         \/ \E k \in DOMAIN store' :
              /\ store'[k] = r /\ (k \in DOMAIN store => ~store[k].used)
              /\ DOMAIN store' = DOMAIN store \cup {k}
              /\ \A i \in DOMAIN store \ {k} : store'[i] = store[i]
  BY <1>1, PutFacts
<1>3. Slots \in Nat
  BY MenusAssumption
<1>4. \A n : /\ \A i : i \in Items(n) <=>
                   i \in DOMAIN store /\ store[i].used /\ ~store[i].sep /\ store[i].menu = n
            /\ \A i : i \in Items(n)' <=>
                   i \in DOMAIN store' /\ store'[i].used /\ ~store'[i].sep /\ store'[i].menu = n
  BY DEF Items, IsItem
<1>5. \A n \in MenuHandles : \A i, j \in Items(n) :
        store[i].label = store[j].label => i = j
  BY DEF LabelsApart
<1>6. CASE store' = store /\ Len(store) >= Slots
  <2>1. \A n \in MenuHandles : Items(n)' = Items(n)
    BY <1>6 DEF Items, IsItem
  <2>2. \A n \in MenuHandles : Recorded(n)' = Recorded(n)
    BY <1>6, <2>1 DEF Recorded
  <2> QED
    BY <1>2, <1>3, <1>5, <1>6, <2>1, <2>2
<1>7. CASE \E k \in DOMAIN store' :
             /\ store'[k] = r /\ (k \in DOMAIN store => ~store[k].used)
             /\ DOMAIN store' = DOMAIN store \cup {k}
             /\ \A i \in DOMAIN store \ {k} : store'[i] = store[i]
  <2>1. PICK k \in DOMAIN store' :
             /\ store'[k] = r /\ (k \in DOMAIN store => ~store[k].used)
             /\ DOMAIN store' = DOMAIN store \cup {k}
             /\ \A i \in DOMAIN store \ {k} : store'[i] = store[i]
    BY <1>7
  <2>2. \A n : \A i \in Items(n) : i # k /\ store'[i] = store[i]
    BY <1>4, <2>1
  <2>3. \A n \in MenuHandles \ {m} : Items(n)' = Items(n)
    <3> TAKE n \in MenuHandles \ {m}
    <3>1. \A i : i \in Items(n)' => i \in Items(n)
      BY <1>1, <1>4, <2>1
    <3>2. \A i : i \in Items(n) => i \in Items(n)'
      BY <1>4, <2>1, <2>2
    <3> QED
      BY <3>1, <3>2
  <2>4. Items(m)' = Items(m) \cup {k}
    <3>1. \A i : i \in Items(m)' => i \in Items(m) \cup {k}
      BY <1>4, <2>1
    <3>2. \A i : i \in Items(m) => i \in Items(m)'
      BY <1>4, <2>1, <2>2
    <3>3. k \in Items(m)'
      BY <1>1, <1>4, <2>1
    <3> QED
      BY <3>1, <3>2, <3>3
  <2>5. ASSUME NEW n \in MenuHandles \ {m}
        PROVE  Recorded(n)' = Recorded(n)
    BY <2>2, <2>3 DEF Recorded
  <2>6. Recorded(m)' = Recorded(m) \cup {<<l, b>>}
    <3>1. store'[k].label = l /\ store'[k].box = b
      BY <1>1, <2>1
    <3> QED
      BY <2>2, <2>4, <3>1 DEF Recorded
  <2>7. ASSUME NEW n \in MenuHandles, NEW i \in Items(n)', NEW j \in Items(n)',
               store'[i].label = store'[j].label
        PROVE  i = j
    <3>1. CASE n # m
      BY <1>5, <2>2, <2>3, <2>7, <3>1
    <3>2. CASE n = m
      BY <1>1, <1>5, <2>1, <2>2, <2>4, <2>7, <3>2
    <3> QED
      BY <3>1, <3>2
  <2> QED
    BY <1>2, <1>3, <2>5, <2>6, <2>7
<1> QED
  BY <1>2, <1>6, <1>7

(* A record of a separator changes nothing the store knows of items.       *)
LEMMA PutSeparator ==
  ASSUME Typed, NEW r \in Rec, r.used, r.sep, store' = Put(store, r), LabelsApart
  PROVE  /\ store' \in Seq(Rec)
         /\ \A n \in MenuHandles : Recorded(n)' = Recorded(n)
         /\ Len(store') < Slots => Len(store) < Slots
         /\ \A n \in MenuHandles : \A i, j \in Items(n)' :
              store'[i].label = store'[j].label => i = j
<1>1. /\ store' \in Seq(Rec) /\ Len(store') \in Nat /\ Len(store) \in Nat
      /\ Len(store') >= Len(store)
      /\ \/ store' = store /\ Len(store) >= Slots
         \/ \E k \in DOMAIN store' :
              /\ store'[k] = r /\ (k \in DOMAIN store => ~store[k].used)
              /\ DOMAIN store' = DOMAIN store \cup {k}
              /\ \A i \in DOMAIN store \ {k} : store'[i] = store[i]
  BY PutFacts
<1>2. Slots \in Nat
  BY MenusAssumption
<1>3. \A n \in MenuHandles : Items(n)' = Items(n)
  <2>1. CASE store' = store
    BY <2>1 DEF Items, IsItem
  <2>2. CASE \E k \in DOMAIN store' :
               /\ store'[k] = r /\ (k \in DOMAIN store => ~store[k].used)
               /\ DOMAIN store' = DOMAIN store \cup {k}
               /\ \A i \in DOMAIN store \ {k} : store'[i] = store[i]
    BY <2>2 DEF Items, IsItem
  <2> QED
    BY <1>1, <2>1, <2>2
<1>4. \A n \in MenuHandles : \A i \in Items(n) : store'[i] = store[i]
  <2>1. \A n \in MenuHandles : \A i \in Items(n) : i \in DOMAIN store /\ store[i].used
    BY DEF Items, IsItem
  <2> QED
    BY <1>1, <2>1
<1>5. \A n \in MenuHandles : Recorded(n)' = Recorded(n)
  BY <1>3, <1>4 DEF Recorded
<1>6. \A n \in MenuHandles : \A i, j \in Items(n)' :
        store'[i].label = store'[j].label => i = j
  BY <1>3, <1>4 DEF LabelsApart
<1> QED
  BY <1>1, <1>2, <1>5, <1>6

(* What a menu displays is read off its items.                             *)
LEMMA DisplayedIs ==
  \A m \in MenuHandles : /\ Displayed(m) = {<<x.label, x.box>> : x \in ItemsOf(m)}
                         /\ Displayed(m)' = {<<x.label, x.box>> : x \in ItemsOf(m)'}
<1> SUFFICES ASSUME NEW m \in MenuHandles
             PROVE  /\ Displayed(m) = {<<x.label, x.box>> : x \in ItemsOf(m)}
                    /\ Displayed(m)' = {<<x.label, x.box>> : x \in ItemsOf(m)'}
  OBVIOUS
<1>1. Displayed(m) = {<<x.label, x.box>> : x \in ItemsOf(m)}
  BY DEF Displayed, ItemsOf
<1>2. Displayed(m)' = {<<x.label, x.box>> : x \in ItemsOf(m)'}
  BY DEF Displayed, ItemsOf
<1> QED
  BY <1>1, <1>2

(* An item more at the end of a menu.                                      *)
LEMMA AppendItem ==
  ASSUME Typed, NEW m \in MenuHandles, NEW it \in NativeItem,
         native' = [native EXCEPT ![m] = Append(@, it)]
  PROVE  /\ native' \in [MenuHandles -> Seq(NativeItem)]
         /\ \A n \in MenuHandles \ {m} : native'[n] = native[n] /\ Places(n)' = Places(n)
                                        /\ ItemsOf(n)' = ItemsOf(n)
         /\ it.sep => Places(m)' = Places(m) /\ ItemsOf(m)' = ItemsOf(m)
         /\ ~it.sep => /\ Places(m)' = Places(m) \cup {Len(native[m]) + 1}
                       /\ ItemsOf(m)' = ItemsOf(m) \cup {it}
         /\ native'[m][Len(native[m]) + 1] = it
         /\ \A i \in Places(m) : native'[m][i] = native[m][i]
<1> DEFINE k == Len(native[m]) + 1
<1>1. native[m] \in Seq(NativeItem) /\ native \in [MenuHandles -> Seq(NativeItem)]
  BY DEF Typed
<1>2. native'[m] = Append(native[m], it) /\ native' \in [MenuHandles -> Seq(NativeItem)]
  BY <1>1
<1>3. /\ DOMAIN native'[m] = DOMAIN native[m] \cup {k} /\ k \notin DOMAIN native[m]
      /\ native'[m][k] = it /\ \A i \in DOMAIN native[m] : native'[m][i] = native[m][i]
  BY <1>1, <1>2
<1>4. ASSUME NEW n \in MenuHandles \ {m}
      PROVE  native'[n] = native[n] /\ Places(n)' = Places(n) /\ ItemsOf(n)' = ItemsOf(n)
  <2>1. native'[n] = native[n]
    BY <1>1
  <2>2. Places(n)' = Places(n)
    BY <2>1 DEF Places
  <2>3. ItemsOf(n)' = ItemsOf(n)
    BY <2>1, <2>2 DEF ItemsOf
  <2> QED
    BY <2>1, <2>2, <2>3
<1> HIDE DEF k
<1>5. \A i \in Places(m) : native'[m][i] = native[m][i]
  BY <1>3 DEF Places
<1>6. CASE it.sep
  <2>1. Places(m)' = Places(m)
    BY <1>3, <1>6 DEF Places
  <2>2. ItemsOf(m)' = ItemsOf(m)
    BY <1>5, <2>1 DEF ItemsOf
  <2> QED
    BY <1>2, <1>3, <1>4, <1>5, <1>6, <2>1, <2>2 DEF k
<1>7. CASE ~it.sep
  <2>1. Places(m)' = Places(m) \cup {k}
    BY <1>3, <1>7 DEF Places
  <2>2. ItemsOf(m)' = ItemsOf(m) \cup {it}
    <3>1. ItemsOf(m)' = {native'[m][i] : i \in Places(m)'}
      BY DEF ItemsOf
    <3>2. {native'[m][i] : i \in Places(m)} = ItemsOf(m)
      BY <1>5 DEF ItemsOf
    <3>3. {native'[m][i] : i \in Places(m)} = {native[m][i] : i \in Places(m)}
      BY <1>5
    <3>4. {native'[m][i] : i \in Places(m) \cup {k}}
            = {native'[m][i] : i \in Places(m)} \cup {native'[m][k]}
      OBVIOUS
    <3> QED
      BY <1>3, <2>1, <3>1, <3>2, <3>3, <3>4
  <2> QED
    BY <1>2, <1>3, <1>4, <1>5, <1>7, <2>1, <2>2 DEF k
<1> QED
  BY <1>6, <1>7

(* An item added to a menu: a fresh closure or none, and an id not given   *)
(* before or none.                                                         *)
LEMMA AddItemIs ==
  ASSUME Owned, NEW m \in MenuHandles, NEW l \in Labels, NEW enabled \in BOOLEAN,
         AddItem(m, l, enabled)
  PROVE  \E it \in NativeItem :
           /\ it.label = l /\ it.box \in {0, added + 1} /\ ~it.sep /\ it.id \in Ids
           /\ added' = added + 1
           /\ native' = [native EXCEPT ![m] = Append(@, it)]
           /\ it.id[2] # -1 => /\ it.id[2] = nextId[it.id[1]]
                               /\ nextId' = [nextId EXCEPT ![it.id[1]] = @ + 1]
           /\ it.id[2] = -1 => nextId' = nextId
           /\ backend = "gtk" => IF it.box = 0 THEN it.id[2] = -1
                                 ELSE it.id[1] = m /\ it.id[2] # -1
           /\ backend = "win32" => it.id[1] = 0 /\ it.id[2] # -1
           /\ \A c \in commands' \ commands :
                 /\ c.id = it.id /\ c.box = it.box /\ c.id[2] # -1 /\ backend # "android"
                 /\ backend = "gtk" => c.id[1] = m
           /\ \E r \in Rec : /\ r.used /\ ~r.sep /\ r.menu = m /\ r.label = l /\ r.box = it.box
                             /\ store' = Put(store, r)
           /\ \A a \in accels' \ accels : a.menu = m /\ a.box = it.box
           /\ UNCHANGED <<backend, grave, freed, running, clears, shown, chosen>>
<1> DEFINE b == IF enabled THEN added + 1 ELSE 0
           id == NewId(m, b)
           it == Item(l, l \in Accelerated, id, b)
           r == Record(m, FALSE, l, b)
<1>1. /\ backend \in {"gtk", "win32", "android"} /\ added \in Nat
      /\ nextId \in [MenuHandles \cup {0} -> Nat]
      /\ MenuHandles \subseteq Nat \ {0}
  BY MenusAssumption DEF Owned, Typed
<1>2. b \in Nat /\ b \in {0, added + 1}
  BY <1>1
<1>3. /\ added' = added + 1
      /\ native' = [native EXCEPT ![m] = Append(@, it)]
      /\ nextId' = IF id[2] # -1 THEN [nextId EXCEPT ![id[1]] = @ + 1] ELSE nextId
      /\ commands' = commands \cup NewCommand(id, b)
      /\ store' = Put(store, r)
      /\ accels' = accels \cup IF l \in Accelerated THEN {[menu |-> m, box |-> b]} ELSE {}
      /\ UNCHANGED <<backend, grave, freed, running, clears, shown, chosen>>
  BY Zenon DEF AddItem, memory
<1> HIDE DEF b
<1>4. /\ id \in Ids
      /\ id[2] # -1 => id[2] = nextId[id[1]]
      /\ backend = "gtk" => IF b = 0 THEN id[2] = -1 ELSE id[1] = m /\ id[2] # -1
      /\ backend = "win32" => id[1] = 0 /\ id[2] # -1
      /\ \A c \in NewCommand(id, b) : c.id = id /\ c.box = b /\ backend # "android"
      /\ backend = "gtk" /\ NewCommand(id, b) # {} => b # 0
  <2>1. CASE backend = "gtk"
    BY <1>1, <2>1 DEF NewId, GtkNewId, NewCommand, GtkCommand, Ids
  <2>2. CASE backend = "win32"
    BY <1>1, <2>2 DEF NewId, Win32NewId, NewCommand, Win32Command, Ids
  <2>3. CASE backend = "android"
    BY <1>1, <2>3 DEF NewId, AndroidNewId, NewCommand, Ids
  <2> QED
    BY <1>1, <2>1, <2>2, <2>3
<1> HIDE DEF id
<1>5. /\ it \in NativeItem /\ it.label = l /\ it.box = b /\ ~it.sep /\ it.id = id
  <2>1. (l \in Accelerated) \in BOOLEAN
    OBVIOUS
  <2> QED
    BY <1>2, <1>4, <2>1 DEF Item, NativeItem
<1>6. r \in Rec /\ r.used /\ ~r.sep /\ r.menu = m /\ r.label = l /\ r.box = b
  BY <1>2 DEF Record, Rec
<1>7. \A c \in commands' \ commands :
        /\ c.id = id /\ c.box = b /\ c.id[2] # -1 /\ backend # "android"
        /\ backend = "gtk" => c.id[1] = m
  BY <1>1, <1>3, <1>4
<1>8. \A a \in accels' \ accels : a.menu = m /\ a.box = b
  BY <1>3
<1> HIDE DEF it, r
<1>9. \E rec \in Rec : /\ rec.used /\ ~rec.sep /\ rec.menu = m /\ rec.label = l
                       /\ rec.box = it.box /\ store' = Put(store, rec)
  BY <1>3, <1>5, <1>6
<1>10. /\ it.id[2] # -1 => /\ it.id[2] = nextId[it.id[1]]
                           /\ nextId' = [nextId EXCEPT ![it.id[1]] = @ + 1]
       /\ it.id[2] = -1 => nextId' = nextId
  BY <1>3, <1>4, <1>5
<1> it \in NativeItem
  BY <1>5
<1> WITNESS it \in NativeItem
<1> QED
  BY <1>2, <1>3, <1>4, <1>5, <1>7, <1>8, <1>9, <1>10

(* A label that no native item has is not in the side-store either.        *)
LEMMA UnlistedNotStored ==
  ASSUME Owned, NEW m \in MenuHandles, NEW l, Unlisted(m, l)
  PROVE  /\ \A i \in Items(m) : store[i].label # l
         /\ \A x \in ItemsOf(m) : x.label # l
<1>1. \A x \in ItemsOf(m) : x.label # l
  BY DEF Unlisted, ItemsOf
<1>2. Recorded(m) \subseteq {<<x.label, x.box>> : x \in ItemsOf(m)}
  BY DisplayedIs DEF Owned, StoreMirrorsNative
<1>3. \A i \in Items(m) : <<store[i].label, store[i].box>> \in Recorded(m)
  BY DEF Recorded
<1>4. \A i \in Items(m) : \E x \in ItemsOf(m) : store[i].label = x.label
  BY <1>2, <1>3
<1> QED
  BY <1>1, <1>4

(* A new item's closure and id are new.                                    *)
LEMMA AddItemOwned ==
  ASSUME Owned, NEW m \in MenuHandles, NEW l \in Labels, NEW enabled \in BOOLEAN,
         AddItem(m, l, enabled)
  PROVE  Owned'
<1>1. PICK it \in NativeItem :
           /\ it.label = l /\ it.box \in {0, added + 1} /\ ~it.sep /\ it.id \in Ids
           /\ added' = added + 1
           /\ native' = [native EXCEPT ![m] = Append(@, it)]
           /\ it.id[2] # -1 => /\ it.id[2] = nextId[it.id[1]]
                               /\ nextId' = [nextId EXCEPT ![it.id[1]] = @ + 1]
           /\ it.id[2] = -1 => nextId' = nextId
           /\ backend = "gtk" => IF it.box = 0 THEN it.id[2] = -1
                                 ELSE it.id[1] = m /\ it.id[2] # -1
           /\ backend = "win32" => it.id[1] = 0 /\ it.id[2] # -1
           /\ \A c \in commands' \ commands :
                 /\ c.id = it.id /\ c.box = it.box /\ c.id[2] # -1 /\ backend # "android"
                 /\ backend = "gtk" => c.id[1] = m
           /\ \E r \in Rec : /\ r.used /\ ~r.sep /\ r.menu = m /\ r.label = l /\ r.box = it.box
                             /\ store' = Put(store, r)
           /\ \A a \in accels' \ accels : a.menu = m /\ a.box = it.box
           /\ UNCHANGED <<backend, grave, freed, running, clears, shown, chosen>>
  BY AddItemIs
<1>2. Unlisted(m, l)
  BY DEF AddItem
<1>3. /\ Typed /\ LabelsApart /\ OneOwner /\ IdsGiven /\ CommandsKnown /\ ChosenKnown
      /\ AccelsOwned /\ RetiredApart /\ StoreMirrorsNative
  BY DEF Owned
<1>4. /\ added \in Nat /\ nextId \in [MenuHandles \cup {0} -> Nat] /\ it.box \in Nat
  BY <1>1, <1>3 DEF Typed
<1>5. /\ store' \in Seq(Rec)
      /\ \A n \in MenuHandles \ {m} : Recorded(n)' = Recorded(n)
      /\ \/ Recorded(m)' = Recorded(m) \cup {<<l, it.box>>}
         \/ Recorded(m)' = Recorded(m) /\ Len(store') >= Slots
      /\ Len(store') < Slots => Len(store) < Slots
      /\ \A n \in MenuHandles : \A i, j \in Items(n)' :
           store'[i].label = store'[j].label => i = j
      /\ \A i \in DOMAIN store' : store'[i].used /\ store'[i].sep => store'[i].box = 0
  <2>1. PICK r \in Rec : /\ r.used /\ ~r.sep /\ r.menu = m /\ r.label = l /\ r.box = it.box
                         /\ store' = Put(store, r)
    BY <1>1
  <2>2. \A i \in DOMAIN store' : store'[i] = r \/ (i \in DOMAIN store /\ store'[i] = store[i])
    BY <1>3, <2>1, PutKeeps
  <2>3. \A i \in DOMAIN store' : store'[i].used /\ store'[i].sep => store'[i].box = 0
    BY <1>3, <2>1, <2>2 DEF Typed
  <2>4. \A i \in Items(m) : store[i].label # l
    BY <1>2, UnlistedNotStored
  <2> QED
    BY <1>3, <1>4, <2>1, <2>3, <2>4, PutItem
<1>6. /\ native' \in [MenuHandles -> Seq(NativeItem)]
      /\ \A n \in MenuHandles \ {m} : native'[n] = native[n] /\ Places(n)' = Places(n)
                                     /\ ItemsOf(n)' = ItemsOf(n)
      /\ Places(m)' = Places(m) \cup {Len(native[m]) + 1}
      /\ ItemsOf(m)' = ItemsOf(m) \cup {it}
      /\ native'[m][Len(native[m]) + 1] = it
      /\ \A i \in Places(m) : native'[m][i] = native[m][i]
  BY <1>1, <1>3, AppendItem
<1>7. \A n \in MenuHandles : \A x \in ItemsOf(n)' : x \in ItemsOf(n) \/ (n = m /\ x = it)
  BY <1>6
<1>8. \A n \in MenuHandles : \A x \in ItemsOf(n) :
        x \in ItemsOf(n)' /\ x.box \in Nat /\ x.id \in Ids /\ x.box <= added
  BY <1>3, <1>6, ItemTyped DEF OneOwner
<1>9. Typed'
  <2>1. nextId' \in [MenuHandles \cup {0} -> Nat]
    BY <1>1, <1>4 DEF Ids
  <2> QED
    BY <1>1, <1>3, <1>4, <1>5, <1>6, <2>1 DEF Typed
<1>10. LabelsApart'
  <2>1. \A i \in Places(m) : native[m][i].label # l
    BY <1>2 DEF Unlisted
  <2>2. \A n \in MenuHandles : \A i, j \in Places(n) :
          native[n][i].label = native[n][j].label => i = j
    BY <1>3 DEF LabelsApart
  <2>3. ASSUME NEW i \in Places(m)', NEW j \in Places(m)',
               native'[m][i].label = native'[m][j].label
        PROVE  i = j
    <3>1. /\ i \in Places(m) => native'[m][i].label = native[m][i].label /\ native[m][i].label # l
          /\ j \in Places(m) => native'[m][j].label = native[m][j].label /\ native[m][j].label # l
      BY <1>6, <2>1
    <3>2. /\ i \in Places(m) \/ (i = Len(native[m]) + 1 /\ native'[m][i].label = l)
          /\ j \in Places(m) \/ (j = Len(native[m]) + 1 /\ native'[m][j].label = l)
      BY <1>1, <1>6
    <3> QED
      BY <2>2, <2>3, <3>1, <3>2, Zenon
  <2>4. \A n \in MenuHandles \ {m} : \A i, j \in Places(n)' :
          native'[n][i].label = native'[n][j].label => i = j
    BY <1>6, <2>2
  <2> QED
    BY <1>5, <2>3, <2>4 DEF LabelsApart
<1>11. OneOwner'
  <2>1. \A n \in MenuHandles : \A x \in ItemsOf(n)' : x.box <= added'
    BY <1>1, <1>4, <1>7, <1>8
  <2>2. \A n, k \in MenuHandles : \A x \in ItemsOf(n)', y \in ItemsOf(k)' :
          x.box = y.box /\ x.box # 0 => n = k
    BY <1>1, <1>3, <1>4, <1>7, <1>8 DEF OneOwner
  <2> QED
    BY <2>1, <2>2 DEF OneOwner
<1>12. IdsGiven'
  <2>1. \A n \in MenuHandles : \A x \in ItemsOf(n) : x.id[2] # -1 =>
          x.id[2] < nextId[x.id[1]] /\ nextId[x.id[1]] <= nextId'[x.id[1]]
    BY <1>1, <1>3, <1>4, <1>8 DEF IdsGiven, Ids
  <2>2. it.id[2] # -1 => it.id[2] = nextId[it.id[1]] /\ it.id[2] < nextId'[it.id[1]]
    BY <1>1, <1>4 DEF Ids
  <2>3. \A n \in MenuHandles : \A x \in ItemsOf(n) : x.id = it.id => it.id[2] = -1
    BY <1>1, <1>4, <1>8, <2>1, <2>2 DEF Ids
  <2>4. \A n \in MenuHandles : \A x \in ItemsOf(n)' :
          /\ x.id[2] # -1 => x.id[2] < nextId'[x.id[1]]
          /\ backend' = "gtk" => IF x.box = 0 THEN x.id[2] = -1
                                 ELSE x.id[1] = n /\ x.id[2] # -1
          /\ backend' = "win32" => x.id[1] = 0 /\ x.id[2] # -1
    <3>1. \A n \in MenuHandles : \A x \in ItemsOf(n) :
          x.id[2] # -1 => x.id[2] < nextId'[x.id[1]]
      BY <1>1, <1>4, <1>8, <2>1 DEF Ids
    <3> QED
      BY <1>1, <1>3, <1>7, <2>2, <3>1 DEF IdsGiven
  <2>5. \A n, k \in MenuHandles : \A x \in ItemsOf(n)', y \in ItemsOf(k)' :
          x.id = y.id /\ x.id[2] # -1 => x.box = y.box
    BY <1>3, <1>7, <2>3 DEF IdsGiven
  <2> QED
    BY <2>4, <2>5 DEF IdsGiven
<1>13. CommandsKnown'
  <2>1. it \in ItemsOf(m)'
    BY <1>6
  <2>2. \A c \in commands' \ commands :
          /\ backend' # "android" /\ c.id[2] # -1
          /\ \E n \in MenuHandles : \E x \in ItemsOf(n)' :
               x.id = c.id /\ x.box = c.box /\ (backend' = "gtk" => c.id[1] = n)
    BY <1>1, <2>1
  <2>3. \A c \in commands :
          /\ backend' # "android" /\ c.id[2] # -1
          /\ \E n \in MenuHandles : \E x \in ItemsOf(n)' :
               x.id = c.id /\ x.box = c.box /\ (backend' = "gtk" => c.id[1] = n)
    BY <1>1, <1>3, <1>8 DEF CommandsKnown
  <2> QED
    BY <2>2, <2>3 DEF CommandsKnown
<1>14. ChosenKnown'
  <2> SUFFICES ASSUME chosen # NoItem
               PROVE  /\ backend = "win32" /\ chosen.id[1] = 0 /\ chosen.id[2] \in Nat
                      /\ chosen.id[2] < nextId'[0]
                      /\ \A n \in MenuHandles : \A x \in ItemsOf(n)' :
                           x.id = chosen.id => x.box = chosen.box
    BY <1>1 DEF ChosenKnown
  <2>1. /\ backend = "win32" /\ chosen.id[1] = 0 /\ chosen.id[2] \in Nat
        /\ chosen.id[2] < nextId[0]
        /\ \A n \in MenuHandles : \A x \in ItemsOf(n) :
             x.id = chosen.id => x.box = chosen.box
    BY <1>3 DEF ChosenKnown
  <2>2. it.id[2] = nextId[0] /\ nextId'[0] = nextId[0] + 1 /\ nextId[0] \in Nat
    BY <1>1, <1>4, <2>1
  <2> QED
    BY <1>7, <2>1, <2>2
<1>15. AccelsOwned'
  <2>1. \A a \in accels' \ accels : a.menu = m /\ a.box = it.box
    BY <1>1
  <2>2. it \in ItemsOf(m)' /\ it.box \in 0 .. added'
    BY <1>1, <1>4, <1>6
  <2>3. \A a \in accels :
          /\ a.box \in 0 .. added'
          /\ a.box # 0 => a.menu \in MenuHandles /\ \E x \in ItemsOf(a.menu)' : x.box = a.box
    BY <1>1, <1>3, <1>4, <1>8 DEF AccelsOwned
  <2> QED
    BY <2>1, <2>2, <2>3 DEF AccelsOwned
<1>16. RetiredApart'
  <2>1. grave \cup freed \subseteq 1 .. added /\ it.box \notin 1 .. added
    BY <1>1, <1>3, <1>4 DEF RetiredApart
  <2>2. grave \cup freed \subseteq 1 .. added'
    BY <1>1, <1>4, <2>1
  <2> QED
    BY <1>1, <1>3, <1>7, <2>1, <2>2 DEF RetiredApart
<1>17. StoreMirrorsNative'
  <2>1. \A n \in MenuHandles \ {m} : Displayed(n)' = Displayed(n)
    BY <1>6, DisplayedIs
  <2>2. Displayed(m)' = Displayed(m) \cup {<<l, it.box>>}
    BY <1>1, <1>6, DisplayedIs
  <2>3. \A n \in MenuHandles : /\ Recorded(n) \subseteq Displayed(n)
                               /\ Len(store) < Slots => Recorded(n) = Displayed(n)
    BY <1>3 DEF StoreMirrorsNative
  <2>4. Len(store') \in Nat /\ Slots \in Nat
    BY <1>5, MenusAssumption
  <2>5. \A n \in MenuHandles : /\ Recorded(n)' \subseteq Displayed(n)'
                               /\ Len(store') < Slots => Recorded(n)' = Displayed(n)'
    <3>1. ASSUME NEW n \in MenuHandles \ {m}
          PROVE  /\ Recorded(n)' \subseteq Displayed(n)'
                 /\ Len(store') < Slots => Recorded(n)' = Displayed(n)'
      BY <1>5, <2>1, <2>3
    <3>2. Recorded(m)' \subseteq Displayed(m)'
      BY <1>5, <2>2, <2>3
    <3>3. Len(store') < Slots => Recorded(m)' = Displayed(m)'
      BY <1>5, <2>2, <2>3, <2>4
    <3> QED
      BY <3>1, <3>2, <3>3
  <2> QED
    BY <2>5 DEF StoreMirrorsNative
<1> QED
  BY <1>9, <1>10, <1>11, <1>12, <1>13, <1>14, <1>15, <1>16, <1>17 DEF Owned

(* A step that leaves the items their ids and closures and gives no        *)
(* command of another id or closure keeps who owns what.                   *)
LEMMA SameOwners ==
  ASSUME Owned,
         \A n \in MenuHandles : \A x \in ItemsOf(n)' :
           \E y \in ItemsOf(n) : x.id = y.id /\ x.box = y.box,
         \A n \in MenuHandles : \A y \in ItemsOf(n) :
           \E x \in ItemsOf(n)' : x.id = y.id /\ x.box = y.box,
         UNCHANGED <<backend, nextId, added, accels, grave, freed>>,
         \A c \in commands' : \E d \in commands : c.id = d.id /\ c.box = d.box
  PROVE  OneOwner' /\ IdsGiven' /\ CommandsKnown' /\ AccelsOwned' /\ RetiredApart'
<1>1. OneOwner'
  BY DEF OneOwner, Owned
<1>2. IdsGiven'
  <2>1. \A n \in MenuHandles : \A x \in ItemsOf(n)' :
          /\ x.id[2] # -1 => x.id[2] < nextId'[x.id[1]]
          /\ backend' = "gtk" => IF x.box = 0 THEN x.id[2] = -1
                                 ELSE x.id[1] = n /\ x.id[2] # -1
          /\ backend' = "win32" => x.id[1] = 0 /\ x.id[2] # -1
    BY DEF IdsGiven, Owned
  <2>2. \A n, k \in MenuHandles : \A x \in ItemsOf(n)', y \in ItemsOf(k)' :
          x.id = y.id /\ x.id[2] # -1 => x.box = y.box
    BY DEF IdsGiven, Owned
  <2> QED
    BY <2>1, <2>2 DEF IdsGiven
<1>3. CommandsKnown'
  BY DEF CommandsKnown, Owned
<1>4. AccelsOwned'
  BY DEF AccelsOwned, Owned
<1>5. RetiredApart'
  BY DEF RetiredApart, Owned
<1> QED
  BY <1>1, <1>2, <1>3, <1>4, <1>5

(* A separator has neither.                                                *)
LEMMA AddSeparatorOwned ==
  ASSUME Owned, NEW m \in MenuHandles, AddSeparator(m)
  PROVE  Owned'
<1> DEFINE r == Record(m, TRUE, "", 0)
<1>1. /\ native' = [native EXCEPT ![m] = Append(@, Separator)]
      /\ store' = Put(store, r)
      /\ UNCHANGED <<backend, nextId, commands, accels, grave, freed, added, running,
                     clears, shown, chosen>>
  BY DEF AddSeparator, memory
<1>2. r \in Rec /\ r.used /\ r.sep /\ r.box = 0
  BY DEF Record, Rec
<1>3. Separator \in NativeItem /\ Separator.sep
  BY DEF NativeItem, Separator
<1>4. Typed /\ LabelsApart
  BY DEF Owned
<1> HIDE DEF r
<1>5. /\ store' \in Seq(Rec)
      /\ \A n \in MenuHandles : Recorded(n)' = Recorded(n)
      /\ Len(store') < Slots => Len(store) < Slots
      /\ \A n \in MenuHandles : \A i, j \in Items(n)' :
           store'[i].label = store'[j].label => i = j
  BY <1>1, <1>2, <1>4, PutSeparator
<1>6. \A i \in DOMAIN store' : store'[i].used /\ store'[i].sep => store'[i].box = 0
  <2>1. \A i \in DOMAIN store' : store'[i] = r \/ (i \in DOMAIN store /\ store'[i] = store[i])
    BY <1>1, <1>2, <1>4, PutKeeps
  <2> QED
    BY <1>2, <1>4, <2>1 DEF Typed
<1>7. /\ native' \in [MenuHandles -> Seq(NativeItem)]
      /\ \A n \in MenuHandles : /\ Places(n)' = Places(n) /\ ItemsOf(n)' = ItemsOf(n)
                                /\ \A i \in Places(n) : native'[n][i] = native[n][i]
  BY <1>1, <1>3, <1>4, AppendItem
<1>8. Typed'
  BY <1>1, <1>4, <1>5, <1>6, <1>7 DEF Typed
<1>9. LabelsApart'
  <2>1. \A n \in MenuHandles : \A i, j \in Places(n)' :
          native'[n][i].label = native'[n][j].label => i = j
    BY <1>4, <1>7 DEF LabelsApart
  <2> QED
    BY <1>5, <2>1 DEF LabelsApart
<1>10. ChosenKnown'
  BY <1>1, <1>7 DEF ChosenKnown, Owned
<1>11. OneOwner' /\ IdsGiven' /\ CommandsKnown' /\ AccelsOwned' /\ RetiredApart'
  BY <1>1, <1>7, SameOwners
<1>12. StoreMirrorsNative'
  <2>1. \A n \in MenuHandles : Displayed(n)' = Displayed(n)
    BY <1>7, DisplayedIs
  <2> QED
    BY <1>5, <2>1 DEF StoreMirrorsNative, Owned
<1> QED
  BY <1>8, <1>9, <1>10, <1>11, <1>12 DEF Owned

(* What a menu's slots own is what its items in the side-store own.        *)
LEMMA BoxesInIs ==
  ASSUME Owned, NEW m \in MenuHandles
  PROVE  /\ BoxesIn(m) = {d[2] : d \in Recorded(m)} \ {0}
         /\ \A b \in BoxesIn(m) : \E x \in ItemsOf(m) : x.box = b /\ b # 0
<1>1. \A i \in DOMAIN store : store[i].used /\ store[i].sep => store[i].box = 0
  BY DEF Owned, Typed
<1>2. Recorded(m) = {<<store[i].label, store[i].box>> : i \in Items(m)}
  BY DEF Recorded
<1>3. ASSUME NEW b \in BoxesIn(m)
      PROVE  b # 0 /\ \E i \in Items(m) : b = store[i].box
  BY <1>1 DEF BoxesIn, OfMenu, Items, IsItem
<1>4. ASSUME NEW i \in Items(m), store[i].box # 0
      PROVE  store[i].box \in BoxesIn(m)
  BY <1>4 DEF BoxesIn, OfMenu, Items, IsItem
<1>5. BoxesIn(m) = {d[2] : d \in Recorded(m)} \ {0}
  <2>1. \A i \in Items(m) : <<store[i].label, store[i].box>> \in Recorded(m)
    BY <1>2
  <2>2. ASSUME NEW b \in BoxesIn(m)
        PROVE  b \in {d[2] : d \in Recorded(m)}
    <3>1. PICK i \in Items(m) : b = store[i].box
      BY <1>3
    <3>2. <<store[i].label, b>> \in Recorded(m) /\ <<store[i].label, b>>[2] = b
      BY <2>1, <3>1
    <3> QED
      BY <3>2
  <2>3. \A d \in Recorded(m) : d[2] # 0 => d[2] \in BoxesIn(m)
    BY <1>2, <1>4
  <2> QED
    BY <1>3, <2>2, <2>3
<1>6. Recorded(m) \subseteq {<<x.label, x.box>> : x \in ItemsOf(m)}
  BY DisplayedIs DEF Owned, StoreMirrorsNative
<1>7. \A d \in Recorded(m) : \E x \in ItemsOf(m) : d[2] = x.box
  BY <1>6
<1> QED
  BY <1>5, <1>7

(* A clear retires the closures of one menu and forgets them everywhere.   *)
LEMMA ClearOwned ==
  ASSUME Owned, NEW m \in MenuHandles, Clear(m)
  PROVE  Owned'
<1>1. /\ store' = [i \in DOMAIN store |-> IF OfMenu(store[i], m) THEN Unused ELSE store[i]]
      /\ grave' = BoxesIn(m)
      /\ freed' = freed \cup grave
      /\ native' = [native EXCEPT ![m] = <<>>]
      /\ commands' = {c \in commands : c.id \notin IdsOf(m)}
      /\ accels' = {a \in accels : a.menu # m}
      /\ clears' = IF running # 0 THEN clears + 1 ELSE 0
      /\ UNCHANGED <<backend, nextId, added, running, shown, chosen>>
  BY DEF Clear, Forget
<1>2. /\ Typed /\ LabelsApart /\ OneOwner /\ IdsGiven /\ CommandsKnown /\ ChosenKnown
      /\ AccelsOwned /\ RetiredApart /\ StoreMirrorsNative
  BY DEF Owned
<1>3. /\ native' \in [MenuHandles -> Seq(NativeItem)]
      /\ Places(m)' = {} /\ ItemsOf(m)' = {}
      /\ \A n \in MenuHandles \ {m} : /\ native'[n] = native[n] /\ Places(n)' = Places(n)
                                      /\ ItemsOf(n)' = ItemsOf(n)
  <2>1. native \in [MenuHandles -> Seq(NativeItem)]
    BY <1>2 DEF Typed
  <2>2. native'[m] = <<>> /\ \A n \in MenuHandles \ {m} : native'[n] = native[n]
    BY <1>1, <2>1
  <2>3. Places(m)' = {} /\ \A n \in MenuHandles \ {m} : Places(n)' = Places(n)
    BY <2>2 DEF Places
  <2>4. ItemsOf(m)' = {} /\ \A n \in MenuHandles \ {m} : ItemsOf(n)' = ItemsOf(n)
    BY <2>2, <2>3 DEF ItemsOf
  <2> QED
    BY <1>1, <2>1, <2>2, <2>3, <2>4
<1>4. /\ store' \in Seq(Rec) /\ Len(store') = Len(store)
      /\ \A i \in DOMAIN store' : i \in DOMAIN store /\ store'[i] \in {store[i], Unused}
      /\ Items(m)' = {} /\ \A n \in MenuHandles \ {m} : Items(n)' = Items(n)
      /\ \A n \in MenuHandles \ {m} : \A i \in Items(n) : store'[i] = store[i]
  <2>1. store \in Seq(Rec) /\ Unused \in Rec /\ ~Unused.used
    BY <1>2 DEF Typed, Rec, Unused
  <2>2. \A i \in DOMAIN store : store'[i] = IF OfMenu(store[i], m) THEN Unused ELSE store[i]
    BY <1>1
  <2>3. store' \in Seq(Rec) /\ Len(store') = Len(store) /\ DOMAIN store' = DOMAIN store
    BY <1>1, <2>1
  <2>4. Items(m)' = {}
    BY <2>1, <2>2, <2>3 DEF Items, IsItem, OfMenu
  <2>5. \A n \in MenuHandles \ {m} : Items(n)' = Items(n)
    BY <2>1, <2>2, <2>3 DEF Items, IsItem, OfMenu
  <2>6. \A n \in MenuHandles \ {m} : \A i \in Items(n) : store'[i] = store[i]
    BY <2>2 DEF Items, IsItem, OfMenu
  <2> QED
    BY <2>2, <2>3, <2>4, <2>5, <2>6
<1>5. \A n \in MenuHandles : \A x \in ItemsOf(n)' : n # m /\ x \in ItemsOf(n)
  BY <1>3
<1>6. Typed'
  <2>1. clears' \in Nat
    BY <1>1, <1>2 DEF Typed
  <2>2. \A i \in DOMAIN store' : store'[i].used /\ store'[i].sep => store'[i].box = 0
    BY <1>2, <1>4 DEF Typed, Unused
  <2> QED
    BY <1>1, <1>2, <1>3, <1>4, <2>1, <2>2 DEF Typed
<1>7. LabelsApart'
  <2>1. \A n \in MenuHandles : \A i, j \in Places(n)' :
          native'[n][i].label = native'[n][j].label => i = j
    BY <1>2, <1>3 DEF LabelsApart
  <2>2. \A n \in MenuHandles : \A i, j \in Items(n)' :
          store'[i].label = store'[j].label => i = j
    BY <1>2, <1>4 DEF LabelsApart
  <2> QED
    BY <2>1, <2>2 DEF LabelsApart
<1>8. OneOwner' /\ IdsGiven' /\ ChosenKnown'
  <2>1. OneOwner'
    BY <1>1, <1>2, <1>5 DEF OneOwner
  <2>2. IdsGiven'
    BY <1>1, <1>2, <1>5 DEF IdsGiven
  <2>3. ChosenKnown'
    BY <1>1, <1>2, <1>5 DEF ChosenKnown
  <2> QED
    BY <2>1, <2>2, <2>3
<1>9. CommandsKnown'
  <2> SUFFICES ASSUME NEW c \in commands, c.id \notin IdsOf(m)
               PROVE  /\ backend # "android" /\ c.id[2] # -1
                      /\ \E n \in MenuHandles : \E x \in ItemsOf(n)' :
                           x.id = c.id /\ x.box = c.box /\ (backend = "gtk" => c.id[1] = n)
    BY <1>1 DEF CommandsKnown
  <2>1. PICK n \in MenuHandles : \E x \in ItemsOf(n) :
          x.id = c.id /\ x.box = c.box /\ (backend = "gtk" => c.id[1] = n)
    BY <1>2 DEF CommandsKnown
  <2>2. PICK x \in ItemsOf(n) :
          x.id = c.id /\ x.box = c.box /\ (backend = "gtk" => c.id[1] = n)
    BY <2>1
  <2>3. backend \in {"gtk", "win32"} /\ c.id[2] # -1
    BY <1>2 DEF Typed, CommandsKnown
  <2>4. n # m
    <3>1. CASE backend = "gtk"
      BY <2>2, <3>1 DEF IdsOf, GtkIdsOf
    <3>2. CASE backend = "win32"
      <4>1. n = m => c.id \in Win32IdsOf(m)
        BY <2>2 DEF Win32IdsOf, ItemsOf
      <4> QED
        BY <3>2, <4>1 DEF IdsOf
    <3> QED
      BY <2>3, <3>1, <3>2
  <2> QED
    BY <1>3, <2>2, <2>3, <2>4
<1>10. AccelsOwned'
  BY <1>1, <1>2, <1>3 DEF AccelsOwned
<1>11. RetiredApart'
  <2>1. \A b \in BoxesIn(m) : b # 0 /\ \E x \in ItemsOf(m) : x.box = b
    BY BoxesInIs
  <2>2. \A b \in BoxesIn(m) : b \in 1 .. added /\ b \notin grave \cup freed
    BY <1>2, <2>1, ItemTyped DEF OneOwner, RetiredApart, Typed
  <2>3. \A n \in MenuHandles \ {m} : \A x \in ItemsOf(n) : x.box \notin BoxesIn(m)
    BY <1>2, <2>1 DEF OneOwner
  <2> QED
    BY <1>1, <1>2, <1>5, <2>2, <2>3 DEF RetiredApart
<1>12. StoreMirrorsNative'
  <2>1. Displayed(m)' = {} /\ \A n \in MenuHandles \ {m} : Displayed(n)' = Displayed(n)
    BY <1>3, DisplayedIs
  <2>2. Recorded(m)' = {} /\ \A n \in MenuHandles \ {m} : Recorded(n)' = Recorded(n)
    BY <1>4 DEF Recorded
  <2> QED
    BY <1>2, <1>4, <2>1, <2>2 DEF StoreMirrorsNative
<1> QED
  BY <1>6, <1>7, <1>8, <1>9, <1>10, <1>11, <1>12 DEF Owned

(* StoreMirrorsNative by places.                                           *)
Mirrored(m) ==
  /\ \A i \in Items(m) : \E j \in Places(m) :
       store[i].label = native[m][j].label /\ store[i].box = native[m][j].box
  /\ Len(store) < Slots =>
       \A j \in Places(m) : \E i \in Items(m) :
         store[i].label = native[m][j].label /\ store[i].box = native[m][j].box

(* StoreMirrorsNative, menu by menu.                                       *)
LEMMA MirroredIs ==
  /\ StoreMirrorsNative => \A m \in MenuHandles : Mirrored(m)
  /\ (\A m \in MenuHandles : Mirrored(m)') => StoreMirrorsNative'
<1>1. ASSUME StoreMirrorsNative, NEW m \in MenuHandles
      PROVE  Mirrored(m)
  <2>1. /\ Recorded(m) \subseteq Displayed(m)
        /\ Len(store) < Slots => Recorded(m) = Displayed(m)
    BY <1>1 DEF StoreMirrorsNative
  <2>2. ASSUME NEW i \in Items(m)
        PROVE  \E j \in Places(m) :
                 store[i].label = native[m][j].label /\ store[i].box = native[m][j].box
    <3>1. <<store[i].label, store[i].box>> \in Displayed(m)
      BY <2>1 DEF Recorded
    <3> QED
      BY <3>1 DEF Displayed
  <2>3. ASSUME Len(store) < Slots, NEW j \in Places(m)
        PROVE  \E i \in Items(m) :
                 store[i].label = native[m][j].label /\ store[i].box = native[m][j].box
    <3>1. <<native[m][j].label, native[m][j].box>> \in Displayed(m)
      BY DEF Displayed
    <3>2. <<native[m][j].label, native[m][j].box>> \in Recorded(m)
      BY <2>1, <2>3, <3>1
    <3> QED
      BY <3>2 DEF Recorded
  <2> QED
    BY <2>2, <2>3 DEF Mirrored
<1>2. ASSUME NEW m \in MenuHandles, Mirrored(m)'
      PROVE  /\ Recorded(m)' \subseteq Displayed(m)'
             /\ Len(store') < Slots => Recorded(m)' = Displayed(m)'
  <2>1. ASSUME NEW d \in Recorded(m)'
        PROVE  d \in Displayed(m)'
    <3>1. PICK i \in Items(m)' : d = <<store'[i].label, store'[i].box>>
      BY <2>1 DEF Recorded
    <3>2. PICK j \in Places(m)' : store'[i].label = native'[m][j].label
                                /\ store'[i].box = native'[m][j].box
      BY <1>2 DEF Mirrored
    <3> QED
      BY <3>1, <3>2 DEF Displayed
  <2>2. ASSUME Len(store') < Slots, NEW d \in Displayed(m)'
        PROVE  d \in Recorded(m)'
    <3>1. PICK j \in Places(m)' : d = <<native'[m][j].label, native'[m][j].box>>
      BY <2>2 DEF Displayed
    <3>2. PICK i \in Items(m)' : store'[i].label = native'[m][j].label
                               /\ store'[i].box = native'[m][j].box
      BY <1>2, <2>2 DEF Mirrored
    <3> QED
      BY <3>1, <3>2 DEF Recorded
  <2> QED
    BY <2>1, <2>2
<1> QED
  BY <1>1, <1>2 DEF StoreMirrorsNative

(* The item that a label finds in the platform's menu, and in the store.   *)
LEMMA AtFacts ==
  ASSUME Typed, NEW m \in MenuHandles, NEW l, At(m, l) # 0
  PROVE  At(m, l) \in Places(m) /\ native[m][At(m, l)].label = l
<1> DEFINE says(it) == CASE backend = "gtk" -> GtkSays(it, l)
                         [] backend = "win32" -> Win32Says(it, l)
                         [] backend = "android" -> AndroidSays(it, l)
           hits == {i \in Places(m) : says(native[m][i])}
<1>1. At(m, l) = IF hits = {} THEN 0 ELSE Min(hits)
  BY DEF At
<1>2. native[m] \in Seq(NativeItem) /\ backend \in {"gtk", "win32", "android"}
  BY DEF Typed
<1>3. hits \in SUBSET Nat
  <2>1. hits \subseteq Places(m)
    OBVIOUS
  <2>2. Places(m) \subseteq Nat
    BY <1>2 DEF Places
  <2> HIDE DEF hits
  <2> QED
    BY <2>1, <2>2
<1>4. \A i \in hits : i \in Places(m) /\ native[m][i].label = l
  <2> TAKE i \in hits
  <2>1. i \in Places(m) /\ says(native[m][i])
    OBVIOUS
  <2>2. CASE backend = "gtk"
    BY <2>1, <2>2 DEF GtkSays
  <2>3. CASE backend = "win32"
    BY <2>1, <2>3 DEF Win32Says
  <2>4. CASE backend = "android"
    BY <2>1, <2>4 DEF AndroidSays
  <2> QED
    BY <1>2, <2>1, <2>2, <2>3, <2>4
<1> HIDE DEF hits
<1>5. hits # {}
  BY <1>1
<1>6. Min(hits) \in hits
  BY <1>3, <1>5, MinIn
<1> QED
  BY <1>1, <1>4, <1>5, <1>6

(* What a search of the store for a label finds.                           *)
LEMMA SlotFacts ==
  ASSUME Typed, NEW m \in MenuHandles, NEW l
  PROVE  /\ Slot(m, l) = 0 => \A i \in Items(m) : store[i].label # l
         /\ Slot(m, l) # 0 => Slot(m, l) \in Items(m) /\ store[Slot(m, l)].label = l
<1> DEFINE hits == {i \in Items(m) : store[i].label = l}
<1>1. Slot(m, l) = IF hits = {} THEN 0 ELSE Min(hits)
  BY DEF Slot
<1>2. store \in Seq(Rec)
  BY DEF Typed
<1>3. hits \in SUBSET (Nat \ {0})
  BY <1>2 DEF Items
<1>4. hits # {} => Min(hits) \in hits
  BY <1>3, MinIn
<1> QED
  BY <1>1, <1>3, <1>4

(* menu_item_set_label: the same item is renamed in both places.           *)
LEMMA RelabelNative ==
  ASSUME Owned, NEW m \in MenuHandles, NEW old \in Labels, NEW new \in Labels,
         Relabel(m, old, new)
  PROVE  LET p == At(m, old) IN
         /\ native' \in [MenuHandles -> Seq(NativeItem)]
         /\ p \in Places(m) /\ native[m][p].label = old
         /\ \A n \in MenuHandles : Places(n)' = Places(n)
         /\ native'[m][p] = [native[m][p] EXCEPT !.label = new]
         /\ \A n \in MenuHandles : \A i \in Places(n) :
              (n = m /\ i = p) \/ native'[n][i] = native[n][i]
<1> DEFINE p == At(m, old)
<1>1. /\ native' = [native EXCEPT ![m][p].label = new] /\ p # 0
  BY DEF Relabel
<1>2. Typed /\ native \in [MenuHandles -> Seq(NativeItem)]
  BY DEF Owned, Typed
<1>3. p \in Places(m) /\ native[m][p].label = old
  BY <1>1, <1>2, AtFacts
<1> HIDE DEF p
<1>4. p \in DOMAIN native[m] /\ native[m] \in Seq(NativeItem)
  BY <1>2, <1>3 DEF Places
<1>5. native[m][p] \in NativeItem /\ ~native[m][p].sep
  BY <1>3, <1>4 DEF Places
<1>6. native[m][p] \in [sep : {FALSE}, label : Labels, acc : BOOLEAN, id : Ids, box : Nat]
  <2>1. native[m][p] # Separator
    BY <1>5 DEF Separator
  <2> QED
    BY <1>5, <2>1 DEF NativeItem
<1> DEFINE it == [native[m][p] EXCEPT !.label = new]
<1>7. it \in NativeItem /\ ~it.sep
  BY <1>6 DEF NativeItem
<1>8. native' = [native EXCEPT ![m] = [native[m] EXCEPT ![p] = it]]
  BY <1>1, Zenon
<1> HIDE DEF it
<1>9. native'[m] = [native[m] EXCEPT ![p] = it] /\ native' \in [MenuHandles -> Seq(NativeItem)]
  BY <1>2, <1>4, <1>7, <1>8
<1>10. \A n \in MenuHandles \ {m} : native'[n] = native[n]
  BY <1>2, <1>8
<1>11. DOMAIN native'[m] = DOMAIN native[m] /\ native'[m][p] = it
       /\ \A i \in DOMAIN native[m] \ {p} : native'[m][i] = native[m][i]
  BY <1>4, <1>9
<1>12. \A n \in MenuHandles \ {m} : Places(n)' = Places(n)
  BY <1>10 DEF Places
<1>13. Places(m)' = Places(m)
  BY <1>3, <1>7, <1>11 DEF Places
<1>14. \A n \in MenuHandles : \A i \in Places(n) :
         (n = m /\ i = p) \/ native'[n][i] = native[n][i]
  BY <1>10, <1>11 DEF Places
<1> QED
  BY <1>3, <1>9, <1>11, <1>12, <1>13, <1>14 DEF p, it

(* A relabel changes the same item in the store and in the platform's      *)
(* menu.                                                                   *)
LEMMA RelabelOwned ==
  ASSUME Owned, NEW m \in MenuHandles, NEW old \in Labels, NEW new \in Labels,
         Relabel(m, old, new)
  PROVE  Owned'
<1> DEFINE p == At(m, old)
           q == Slot(m, old)
<1>1. /\ native' \in [MenuHandles -> Seq(NativeItem)]
      /\ p \in Places(m) /\ native[m][p].label = old
      /\ \A n \in MenuHandles : Places(n)' = Places(n)
      /\ native'[m][p] = [native[m][p] EXCEPT !.label = new]
      /\ \A n \in MenuHandles : \A i \in Places(n) :
           (n = m /\ i = p) \/ native'[n][i] = native[n][i]
  BY RelabelNative
<1>2. /\ old # new /\ Unlisted(m, new)
      /\ store' = IF q = 0 THEN store ELSE [store EXCEPT ![q].label = new]
      /\ UNCHANGED <<backend, nextId, commands, accels, grave, freed, added, running,
                     clears, shown, chosen>>
  BY DEF Relabel, memory
<1>3. Typed /\ LabelsApart /\ StoreMirrorsNative
  BY DEF Owned
<1>4. /\ q = 0 => \A i \in Items(m) : store[i].label # old
      /\ q # 0 => q \in Items(m) /\ store[q].label = old
  BY <1>3, SlotFacts
<1> HIDE DEF p, q
<1>5. native'[m][p].label = new /\ native'[m][p].box = native[m][p].box
      /\ native'[m][p].id = native[m][p].id
  <2>1. native[m][p] \in NativeItem /\ ~native[m][p].sep
    BY <1>1, <1>3, ItemTyped DEF ItemsOf
  <2>2. native[m][p] # Separator
    BY <2>1 DEF Separator
  <2> QED
    BY <1>1, <2>1, <2>2 DEF NativeItem
<1>6. /\ store' \in Seq(Rec) /\ Len(store') = Len(store)
      /\ \A i \in DOMAIN store' : store'[i].used /\ store'[i].sep => store'[i].box = 0
      /\ \A n \in MenuHandles : Items(n)' = Items(n)
      /\ \A n \in MenuHandles : \A i \in Items(n) :
           IF n = m /\ i = q THEN store'[i].label = new /\ store'[i].box = store[i].box
           ELSE store'[i] = store[i]
  <2>1. CASE q = 0
    <3>1. \A n \in MenuHandles : Items(n)' = Items(n) /\ 0 \notin Items(n)
      BY <1>2, <1>3, <2>1 DEF Items, IsItem, Typed
    <3> QED
      BY <1>2, <1>3, <2>1, <3>1 DEF Typed
  <2>2. CASE q # 0
    <3>1. q \in DOMAIN store /\ store[q].used /\ ~store[q].sep /\ store[q].menu = m
      BY <1>4, <2>2 DEF Items, IsItem
    <3> DEFINE r == [store[q] EXCEPT !.label = new]
    <3>2. store[q] \in [used : {TRUE}, menu : MenuHandles, sep : BOOLEAN,
                        label : Labels \cup {""}, box : Nat]
      <4>1. store[q] \in Rec /\ store[q] # Unused
        BY <1>3, <3>1 DEF Typed, Unused
      <4> QED
        BY <4>1 DEF Rec
    <3>3. /\ r \in Rec /\ r.used /\ ~r.sep /\ r.menu = m /\ r.label = new
          /\ r.box = store[q].box
      BY <3>1, <3>2 DEF Rec
    <3>4. store' = [store EXCEPT ![q] = r]
      BY <1>2, <2>2
    <3> HIDE DEF r
    <3>5. /\ store' \in Seq(Rec) /\ Len(store') = Len(store) /\ DOMAIN store' = DOMAIN store
          /\ store'[q] = r /\ \A i \in DOMAIN store \ {q} : store'[i] = store[i]
      BY <1>3, <3>1, <3>3, <3>4 DEF Typed
    <3>6. \A n \in MenuHandles : Items(n)' = Items(n)
      <4> TAKE n \in MenuHandles
      <4>1. \A i \in DOMAIN store : IsItem(store'[i], n) <=> IsItem(store[i], n)
        BY <3>1, <3>3, <3>5 DEF IsItem
      <4> QED
        BY <3>5, <4>1 DEF Items, IsItem
    <3>7. \A n \in MenuHandles : \A i \in Items(n) : i \in DOMAIN store /\ store[i].menu = n
      BY DEF Items, IsItem
    <3>8. \A i \in DOMAIN store' : store'[i].used /\ store'[i].sep => store'[i].box = 0
      BY <1>3, <3>3, <3>5 DEF Typed
    <3> QED
      BY <3>1, <3>3, <3>5, <3>6, <3>7, <3>8
  <2> QED
    BY <2>1, <2>2
<1>7. /\ \A i \in Places(m) : native[m][i].label = old <=> i = p
      /\ \A i \in Items(m) : store[i].label = old <=> i = q
  <2>1. \A i, j \in Places(m) : native[m][i].label = native[m][j].label => i = j
    BY <1>3 DEF LabelsApart
  <2>2. \A i, j \in Items(m) : store[i].label = store[j].label => i = j
    BY <1>3 DEF LabelsApart
  <2>3. \A i \in Places(m) : native[m][i].label = old <=> i = p
    BY <1>1, <2>1
  <2>4. \A i \in Items(m) : store[i].label = old <=> i = q
    <3>1. CASE q = 0
      <4>1. 0 \notin Items(m)
        BY <1>3 DEF Items, Typed
      <4> QED
        BY <1>4, <3>1, <4>1
    <3>2. CASE q # 0
      BY <1>4, <2>2, <3>2
    <3> QED
      BY <3>1, <3>2
  <2> QED
    BY <2>3, <2>4
<1>8. /\ \A i \in Places(m) : native[m][i].label # new
      /\ \A i \in Items(m) : store[i].label # new
  BY <1>2, UnlistedNotStored DEF Unlisted
<1>9. Typed'
  BY <1>1, <1>2, <1>3, <1>6 DEF Typed
<1>10. LabelsApart'
  <2>1. \A n \in MenuHandles : \A i, j \in Places(n)' :
          native'[n][i].label = native'[n][j].label => i = j
    <3>1. \A n \in MenuHandles : \A i, j \in Places(n) :
            native[n][i].label = native[n][j].label => i = j
      BY <1>3 DEF LabelsApart
    <3>2. ASSUME NEW n \in MenuHandles, NEW i \in Places(n), NEW j \in Places(n),
                 native'[n][i].label = native'[n][j].label
          PROVE  i = j
      <4>1. CASE n = m /\ (i = p \/ j = p)
        BY <1>1, <1>5, <1>8, <3>2, <4>1
      <4>2. CASE ~(n = m /\ (i = p \/ j = p))
        BY <1>1, <3>1, <3>2, <4>2
      <4> QED
        BY <4>1, <4>2
    <3> QED
      BY <1>1, <3>2
  <2>2. \A n \in MenuHandles : \A i, j \in Items(n)' :
          store'[i].label = store'[j].label => i = j
    BY <1>3, <1>6, <1>8 DEF LabelsApart
  <2> QED
    BY <2>1, <2>2 DEF LabelsApart
<1>11. /\ \A n \in MenuHandles : \A x \in ItemsOf(n)' :
            \E y \in ItemsOf(n) : x.id = y.id /\ x.box = y.box
       /\ \A n \in MenuHandles : \A y \in ItemsOf(n) :
            \E x \in ItemsOf(n)' : x.id = y.id /\ x.box = y.box
  <2>1. \A n \in MenuHandles : \A i \in Places(n) :
          native'[n][i].id = native[n][i].id /\ native'[n][i].box = native[n][i].box
    BY <1>1, <1>5
  <2>2. ASSUME NEW n \in MenuHandles, NEW x \in ItemsOf(n)'
        PROVE  \E y \in ItemsOf(n) : x.id = y.id /\ x.box = y.box
    <3>1. PICK i \in Places(n) : x = native'[n][i]
      BY <1>1 DEF ItemsOf
    <3> QED
      BY <2>1, <3>1 DEF ItemsOf
  <2>3. ASSUME NEW n \in MenuHandles, NEW y \in ItemsOf(n)
        PROVE  \E x \in ItemsOf(n)' : x.id = y.id /\ x.box = y.box
    <3>1. PICK i \in Places(n) : y = native[n][i]
      BY DEF ItemsOf
    <3>2. native'[n][i] \in ItemsOf(n)'
      BY <1>1 DEF ItemsOf
    <3> QED
      BY <2>1, <3>1, <3>2
  <2> QED
    BY <2>2, <2>3
<1>12. OneOwner' /\ IdsGiven' /\ CommandsKnown' /\ AccelsOwned' /\ RetiredApart'
  BY <1>2, <1>11, SameOwners
<1>13. ChosenKnown'
  BY <1>2, <1>11 DEF ChosenKnown, Owned
<1>14. StoreMirrorsNative'
  <2>1. \A n \in MenuHandles : Mirrored(n)
    BY <1>3, MirroredIs
  <2>2. ASSUME NEW n \in MenuHandles, NEW i \in Items(n)
        PROVE  \E j \in Places(n) :
                 store'[i].label = native'[n][j].label /\ store'[i].box = native'[n][j].box
    <3>1. PICK j \in Places(n) :
             store[i].label = native[n][j].label /\ store[i].box = native[n][j].box
      BY <2>1 DEF Mirrored
    <3>2. n = m => (j = p <=> i = q)
      BY <1>7, <3>1
    <3>3. CASE n = m /\ j = p
      BY <1>5, <1>6, <3>1, <3>2, <3>3
    <3>4. CASE ~(n = m /\ j = p)
      BY <1>1, <1>6, <3>1, <3>2, <3>4
    <3> QED
      BY <3>3, <3>4
  <2>3. ASSUME Len(store) < Slots, NEW n \in MenuHandles, NEW j \in Places(n)
        PROVE  \E i \in Items(n) :
                 store'[i].label = native'[n][j].label /\ store'[i].box = native'[n][j].box
    <3>1. PICK i \in Items(n) :
             store[i].label = native[n][j].label /\ store[i].box = native[n][j].box
      BY <2>1, <2>3 DEF Mirrored
    <3>2. n = m => (j = p <=> i = q)
      BY <1>7, <3>1
    <3>3. CASE n = m /\ j = p
      BY <1>5, <1>6, <3>1, <3>2, <3>3
    <3>4. CASE ~(n = m /\ j = p)
      BY <1>1, <1>6, <3>1, <3>2, <3>4
    <3> QED
      BY <3>3, <3>4
  <2>4. \A n \in MenuHandles : Mirrored(n)'
    BY <1>1, <1>6, <2>2, <2>3 DEF Mirrored
  <2> QED
    BY <2>4, MirroredIs
<1> QED
  BY <1>9, <1>10, <1>12, <1>13, <1>14 DEF Owned

(* At the start there is nothing to own.                                   *)
LEMMA InitOwned ==
  ASSUME Init
  PROVE  IInv
<1>1. \A m \in MenuHandles : native[m] = <<>> /\ Places(m) = {} /\ ItemsOf(m) = {}
  BY DEF Init, Places, ItemsOf
<1>2. \A m \in MenuHandles : Items(m) = {} /\ Recorded(m) = {} /\ Displayed(m) = {}
  BY <1>1 DEF Init, Items, Recorded, Displayed
<1>3. Typed
  BY MenusAssumption DEF Init, Typed
<1>4. LabelsApart /\ OneOwner /\ IdsGiven
  BY <1>1, <1>2 DEF LabelsApart, OneOwner, IdsGiven
<1>5. CommandsKnown /\ ChosenKnown /\ AccelsOwned
  BY DEF Init, CommandsKnown, ChosenKnown, AccelsOwned
<1>6. RetiredApart /\ StoreMirrorsNative
  BY <1>1, <1>2 DEF Init, RetiredApart, StoreMirrorsNative
<1>7. RunningKept
  BY DEF Init, RunningKept
<1> QED
  BY <1>3, <1>4, <1>5, <1>6, <1>7 DEF IInv, Owned

-----------------------------------------------------------------------------
(* A closure that a click can reach: an item's, or none.                   *)
Held(b) == b = 0 \/ \E m \in MenuHandles : \E x \in ItemsOf(m) : x.box = b

(* An id reaches the closure of a command that bears it, or none.          *)
LEMMA DispatchedFacts ==
  ASSUME NEW id
  PROVE  Dispatched(id) = 0 \/ \E c \in commands : c.id = id /\ c.box = Dispatched(id)
<1> DEFINE hits == {c \in commands : c.id = id /\ c.onApp}
<1>1. CASE hits = {}
  BY <1>1 DEF Dispatched
<1>2. CASE hits # {}
  <2>1. (CHOOSE c \in hits : TRUE) \in hits
    BY <1>2
  <2>2. Dispatched(id) = (CHOOSE c \in hits : TRUE).box
    BY <1>2 DEF Dispatched
  <2> QED
    BY <2>1, <2>2
<1> QED
  BY <1>1, <1>2

(* What an id leads to is held by an item, or is nothing.                  *)
LEMMA DispatchedHeld ==
  ASSUME Owned, NEW id
  PROVE  Held(Dispatched(id))
BY DispatchedFacts DEF Owned, CommandsKnown, Held

(* The id of an item reaches that item's closure, or none.                 *)
LEMMA DispatchedIsTheItems ==
  ASSUME Owned, NEW m \in MenuHandles, NEW x \in ItemsOf(m)
  PROVE  Dispatched(x.id) \in {0, x.box}
<1>1. ASSUME NEW c \in commands, c.id = x.id
      PROVE  c.box = x.box
  <2>1. PICK n \in MenuHandles : \E y \in ItemsOf(n) : y.id = c.id /\ y.box = c.box
    BY DEF Owned, CommandsKnown
  <2>2. PICK y \in ItemsOf(n) : y.id = c.id /\ y.box = c.box
    BY <2>1
  <2>3. x.id[2] # -1
    BY <1>1 DEF Owned, CommandsKnown
  <2> QED
    BY <1>1, <2>2, <2>3 DEF Owned, IdsGiven
<1> QED
  BY <1>1, DispatchedFacts

(* What using the menus, and no step that builds them, does.               *)
Used ==
  /\ UNCHANGED Built
  /\ \A c \in commands' : \E d \in commands : c.id = d.id /\ c.box = d.box
  /\ shown' \in {shown, NoMenu} \/ shown'.menu \in MenuHandles
  /\ \/ chosen' \in {chosen, NoItem}
     \/ backend = "win32" /\ \E m \in MenuHandles : chosen' \in ItemsOf(m)
  /\ \/ UNCHANGED <<running, clears>>
     \/ clears' = 0 /\ Held(running')

(* A registered command is one of those known.                             *)
LEMMA RegisteredIs ==
  \A c \in Registered : \E d \in commands : c.id = d.id /\ c.box = d.box
<1>1. \A c \in commands : [c EXCEPT !.onApp = TRUE].id = c.id
                          /\ [c EXCEPT !.onApp = TRUE].box = c.box
  OBVIOUS
<1> QED
  BY <1>1 DEF Registered

(* GTK's actions name no new closure.                                      *)
LEMMA RegisterUsed ==
  ASSUME RegisterActions
  PROVE  Used
BY RegisteredIs DEF RegisterActions, Used

(* A menu that pops up shows the items it has.                             *)
LEMMA PopUpUsed ==
  ASSUME Owned, NEW m \in MenuHandles, PopUp(m)
  PROVE  Used
<1>1. \/ GtkPopUp(m) /\ backend = "gtk"
      \/ Win32PopUp(m) /\ backend = "win32"
      \/ AndroidPopUp(m) /\ backend = "android"
  BY DEF PopUp, Owned, Typed
<1>2. CASE GtkPopUp(m)
  BY <1>2, RegisteredIs DEF GtkPopUp, PopUp, Used
<1>3. CASE Win32PopUp(m)
  BY <1>3 DEF Win32PopUp, PopUp, Used
<1>4. CASE AndroidPopUp(m)
  BY <1>4 DEF AndroidPopUp, PopUp, Used
<1> QED
  BY <1>1, <1>2, <1>3, <1>4

(* A click on GTK or Android runs the closure of an item; on Win32 it      *)
(* posts the item's command.                                               *)
LEMMA ChooseUsed ==
  ASSUME Owned, NEW i, Choose(i)
  PROVE  Used
<1>1. /\ backend \in {"gtk", "win32", "android"}
      /\ native \in [MenuHandles -> Seq(NativeItem)]
      /\ shown.menu \in MenuHandles
  BY DEF Owned, Typed, Choose
<1>2. UNCHANGED <<Built, commands>> /\ shown' = NoMenu
  BY DEF Choose
<1>3. CASE backend = "gtk"
  <2>1. Run(Dispatched(Visible[i].id)) /\ UNCHANGED chosen
    BY <1>3 DEF Choose
  <2> QED
    BY <1>2, <2>1, DispatchedHeld DEF Used, Run
<1>4. CASE backend = "android"
  <2>1. Run(FiredAt(shown.menu, i)) /\ UNCHANGED chosen
    BY <1>4 DEF Choose
  <2>2. Held(FiredAt(shown.menu, i))
    BY <1>1 DEF FiredAt, Held, ItemsOf
  <2> QED
    BY <1>2, <2>1, <2>2 DEF Used, Run
<1>5. CASE backend = "win32"
  <2>1. chosen' = native[shown.menu][i] /\ i \in Places(shown.menu)
    BY <1>5 DEF Choose, Visible, Places
  <2>2. chosen' \in ItemsOf(shown.menu)
    BY <2>1 DEF ItemsOf
  <2>3. UNCHANGED <<running, clears>>
    BY <1>5 DEF Choose
  <2> QED
    BY <1>1, <1>2, <1>5, <2>2, <2>3 DEF Used
<1> QED
  BY <1>1, <1>3, <1>4, <1>5

(* The driver reaches an item's closure through the side-store, which      *)
(* shows no other.                                                         *)
LEMMA StoredHeld ==
  ASSUME Owned, NEW m \in MenuHandles, NEW i \in Items(m)
  PROVE  \E x \in ItemsOf(m) : x.label = store[i].label /\ x.box = store[i].box
<1>1. <<store[i].label, store[i].box>> \in {<<x.label, x.box>> : x \in ItemsOf(m)}
  BY DisplayedIs DEF Recorded, Owned, StoreMirrorsNative
<1> QED
  BY <1>1

(* The driver's invoke runs what the store holds.                          *)
LEMMA InvokeUsed ==
  ASSUME Owned, NEW m \in MenuHandles, NEW l, Invoke(m, l)
  PROVE  Used
<1>1. /\ Slot(m, l) # 0 /\ Run(store[Slot(m, l)].box)
      /\ UNCHANGED <<Built, commands, shown, chosen>>
  BY DEF Invoke
<1>2. Held(store[Slot(m, l)].box)
  BY <1>1, SlotFacts, StoredHeld DEF Held, Owned
<1> QED
  BY <1>1, <1>2 DEF Used, Run

(* An accelerator runs what it was given for.                              *)
LEMMA AccelUsed ==
  ASSUME Owned, AccelFire
  PROVE  Used
<1> DEFINE boxes == {a.box : a \in accels}
<1>1. boxes \in SUBSET (0 .. added) /\ boxes # {} /\ added \in Nat
  BY DEF AccelFire, Owned, AccelsOwned, Typed
<1> HIDE DEF boxes
<1>2. Max(boxes) \in boxes
  BY <1>1, MaxIn
<1>3. Held(Max(boxes))
  BY <1>2 DEF boxes, Owned, AccelsOwned, Held
<1>4. Run(Max(boxes)) /\ UNCHANGED <<Built, commands, shown, chosen>>
  BY DEF AccelFire, boxes
<1> QED
  BY <1>3, <1>4 DEF Used, Run

(* So no use of a menu changes who owns what.                              *)
LEMMA UseUsed ==
  ASSUME Owned, Use
  PROVE  Used
<1>1. CASE RegisterActions
  BY <1>1, RegisterUsed
<1>2. CASE \E m \in MenuHandles : PopUp(m)
  BY <1>2, PopUpUsed
<1>3. CASE \E i \in 1 .. 2 * MaxItems : Choose(i)
  BY <1>3, ChooseUsed
<1>4. CASE Dismiss
  BY <1>4 DEF Dismiss, Used
<1>5. CASE CommandArrives
  BY <1>5, DispatchedHeld DEF CommandArrives, Run, Used
<1>6. CASE \E m \in MenuHandles, l \in Labels : Invoke(m, l)
  BY <1>6, InvokeUsed
<1>7. CASE \E m \in MenuHandles, l \in Labels : NativeActivate(m, l)
  BY <1>7, DispatchedHeld DEF NativeActivate, GtkNative, Win32Native, Run, Used
<1>8. CASE AccelFire
  BY <1>8, AccelUsed
<1>9. CASE Returns
  BY <1>9 DEF Returns, Run, Held, Used
<1> QED
  BY <1>1, <1>2, <1>3, <1>4, <1>5, <1>6, <1>7, <1>8, <1>9 DEF Use

(* Nothing built, everything stays whose it was.                           *)
LEMMA UsedOwned ==
  ASSUME Owned, Used
  PROVE  Owned'
<1>1. /\ UNCHANGED <<backend, store, native, nextId, accels, grave, freed, added>>
      /\ Owned /\ Typed
  BY DEF Used, Built, memory, Owned
<1>2. \A m \in MenuHandles : /\ Places(m)' = Places(m) /\ ItemsOf(m)' = ItemsOf(m)
                             /\ Items(m)' = Items(m) /\ Displayed(m)' = Displayed(m)
                             /\ Recorded(m)' = Recorded(m)
  BY <1>1 DEF Places, ItemsOf, Items, Displayed, Recorded
<1>3. Typed'
  <2>1. clears' \in Nat
    BY <1>1 DEF Used, Typed
  <2>2. shown' = NoMenu \/ shown'.menu \in MenuHandles
    BY <1>1 DEF Used, Typed
  <2> QED
    BY <1>1, <2>1, <2>2 DEF Typed
<1>4. LabelsApart' /\ StoreMirrorsNative'
  BY <1>1, <1>2 DEF Owned, LabelsApart, StoreMirrorsNative
<1>5. OneOwner' /\ IdsGiven' /\ CommandsKnown' /\ AccelsOwned' /\ RetiredApart'
  BY <1>1, <1>2, SameOwners DEF Used
<1>6. ChosenKnown'
  <2>1. CASE chosen' \in {chosen, NoItem}
    BY <1>1, <1>2, <2>1 DEF Owned, ChosenKnown
  <2>2. CASE backend = "win32" /\ \E m \in MenuHandles : chosen' \in ItemsOf(m)
    <3>1. PICK m \in MenuHandles : chosen' \in ItemsOf(m)
      BY <2>2
    <3>2. chosen'.id[1] = 0 /\ chosen'.id[2] # -1 /\ chosen'.id[2] < nextId[0]
      BY <1>1, <2>2, <3>1 DEF Owned, IdsGiven
    <3>3. chosen'.id[2] \in Nat
      BY <1>1, <3>1, <3>2, ItemTyped DEF Ids
    <3>4. \A n \in MenuHandles : \A x \in ItemsOf(n) :
            x.id = chosen'.id => x.box = chosen'.box
      BY <1>1, <3>1, <3>2 DEF Owned, IdsGiven
    <3> QED
      BY <1>1, <1>2, <2>2, <3>2, <3>3, <3>4 DEF ChosenKnown
  <2> QED
    BY <2>1, <2>2 DEF Used
<1> QED
  BY <1>3, <1>4, <1>5, <1>6 DEF Owned

(* Who owns what is an invariant, whatever a closure clears.               *)
LEMMA NextOwned ==
  ASSUME Owned, [Next]_vars
  PROVE  Owned'
<1>1. CASE Build
  BY <1>1, AddItemOwned, AddSeparatorOwned, ClearOwned, RelabelOwned DEF Build
<1>2. CASE Use
  BY <1>2, UseUsed, UsedOwned
<1>3. CASE UNCHANGED vars
  <2>1. UNCHANGED <<Built, commands, running, clears, shown, chosen>>
    BY <1>3 DEF vars, Built, memory
  <2>2. Used
    BY <2>1 DEF Used
  <2> QED
    BY <2>2, UsedOwned
<1> QED
  BY <1>1, <1>2, <1>3 DEF Next

(* What starts to run is an item's closure, so neither retired nor freed;  *)
(* the one clear it may make retires it, and the next would free it.       *)
LEMMA NextRunningKept ==
  ASSUME ClearsPerRun <= 1, IInv, [Next]_vars
  PROVE  RunningKept'
<1>1. Owned /\ RunningKept /\ clears \in Nat /\ ClearsPerRun \in Nat
  BY MenusAssumption DEF IInv, Owned, Typed
<1>2. ASSUME UNCHANGED <<grave, freed, running, clears>>
      PROVE  RunningKept'
  BY <1>1, <1>2 DEF RunningKept
<1>3. ASSUME NEW m \in MenuHandles, Clear(m)
      PROVE  RunningKept'
  <2>1. /\ running' = running /\ freed' = freed \cup grave
        /\ running # 0 => clears < ClearsPerRun /\ clears' = clears + 1
    BY <1>3 DEF Clear, Forget
  <2>2. running # 0 => clears = 0 /\ clears' # 0
    BY <1>1, <2>1
  <2> QED
    BY <1>1, <2>1, <2>2 DEF RunningKept
<1>4. CASE Build
  <2>1. ASSUME NEW m \in MenuHandles, NEW l \in Labels, NEW enabled \in BOOLEAN,
               AddItem(m, l, enabled)
        PROVE  RunningKept'
    BY <1>2, <2>1 DEF AddItem, memory
  <2>2. ASSUME NEW m \in MenuHandles, AddSeparator(m)
        PROVE  RunningKept'
    BY <1>2, <2>2 DEF AddSeparator, memory
  <2>3. ASSUME NEW m \in MenuHandles, NEW old \in Labels, NEW new \in Labels,
               Relabel(m, old, new)
        PROVE  RunningKept'
    BY <1>2, <2>3 DEF Relabel, memory
  <2> QED
    BY <1>3, <1>4, <2>1, <2>2, <2>3 DEF Build
<1>5. CASE Use
  <2>1. Used
    BY <1>1, <1>5, UseUsed
  <2>2. UNCHANGED <<grave, freed>>
    BY <2>1 DEF Used, Built, memory
  <2>3. CASE clears' = 0 /\ Held(running')
    BY <1>1, <2>2, <2>3 DEF RunningKept, Held, Owned, RetiredApart
  <2> QED
    BY <1>2, <2>1, <2>2, <2>3 DEF Used
<1>6. CASE UNCHANGED vars
  BY <1>2, <1>6 DEF vars, memory
<1> QED
  BY <1>4, <1>5, <1>6 DEF Next

-----------------------------------------------------------------------------
(* Who owns what holds in every behaviour.                                 *)
LEMMA OwnedAlways ==
  Spec => []Owned
<1>1. Init => Owned
  BY InitOwned DEF IInv
<1>2. Owned /\ [Next]_vars => Owned'
  BY NextOwned
<1> QED
  BY <1>1, <1>2, PTL DEF Spec

(* StoreMirrorsNative of Menus: what the driver and the tray read of a     *)
(* menu is what the platform shows of it.                                  *)
THEOREM StoreMirrors ==
  Spec => []StoreMirrorsNative
<1>1. Owned => StoreMirrorsNative
  BY DEF Owned
<1> QED
  BY <1>1, OwnedAlways, PTL

(* ClosuresAccounted of Menus: no closure that was retired or freed can be *)
(* reached, and none is lost while the table has room.                     *)
LEMMA Accounted ==
  ASSUME Owned
  PROVE  ClosuresAccounted
<1>1. \A m \in MenuHandles : \A b \in BoxesIn(m) : Held(b)
  BY BoxesInIs DEF Held
<1>2. \A c \in commands : Held(c.box)
  BY DEF Owned, CommandsKnown, Held
<1>3. \A m \in MenuHandles : \A d \in Displayed(m) : Held(d[2])
  BY DisplayedIs DEF Held
<1>4. \A a \in accels : Held(a.box)
  BY DEF Owned, AccelsOwned, Held
<1>5. \A b \in Reachable : Held(b) /\ b # 0
  <2> SUFFICES ASSUME NEW b \in Reachable
               PROVE  Held(b) /\ b # 0
    OBVIOUS
  <2> DEFINE A == UNION {BoxesIn(m) : m \in MenuHandles}
             B == {c.box : c \in commands}
             C == UNION {{d[2] : d \in Displayed(m)} : m \in MenuHandles}
             D == {a.box : a \in accels}
  <2>1. b \in (A \cup B \cup C \cup D) \ {0}
    BY DEF Reachable
  <2>2. b \in A => Held(b)
    BY <1>1
  <2>3. b \in B => Held(b)
    BY <1>2
  <2>4. b \in C => Held(b)
    BY <1>3
  <2>5. b \in D => Held(b)
    BY <1>4
  <2> HIDE DEF A, B, C, D
  <2> QED
    BY <2>1, <2>2, <2>3, <2>4, <2>5
<1>6. \A b : Held(b) /\ b # 0 => b \notin grave \cup freed
  BY DEF Held, Owned, RetiredApart
<1>7. grave \cap freed = {}
  BY DEF Owned, RetiredApart
<1>8. ASSUME Len(store) < Slots, NEW m \in MenuHandles
      PROVE  {d[2] : d \in Displayed(m)} \subseteq BoxesIn(m) \cup {0}
  <2>1. Displayed(m) = Recorded(m)
    BY <1>8 DEF Owned, StoreMirrorsNative
  <2> QED
    BY <2>1, BoxesInIs
<1> QED
  BY <1>5, <1>6, <1>7, <1>8 DEF ClosuresAccounted

(* ClosuresAccounted of Menus: no table, native item, command or           *)
(* accelerator leads to a closure that was retired or freed                *)
(* (aether_ui_menu_items_forget), and none is lost as long as the store    *)
(* has room.                                                               *)
THEOREM NoClosureReachableAfterRetired ==
  Spec => []ClosuresAccounted
BY Accounted, OwnedAlways, PTL

(* ClosuresHold of Menus, of an application whose closures clear menus at  *)
(* most once a run (aether_ui_menu_items_forget keeps what was retired     *)
(* until the next clear, and no longer).                                   *)
THEOREM ClosuresKept ==
  ASSUME ClearsPerRun <= 1
  PROVE  Spec => []ClosuresHold
<1>1. Init => IInv
  BY InitOwned
<1>2. IInv /\ [Next]_vars => IInv'
  BY NextOwned, NextRunningKept DEF IInv
<1>3. IInv => ClosuresHold
  <2> SUFFICES ASSUME IInv
               PROVE  ClosuresHold
    OBVIOUS
  <2>1. 0 \notin freed
    BY DEF IInv, Owned, Typed, RetiredApart
  <2>2. RunningNotFreed
    BY <2>1 DEF IInv, RunningKept, RunningNotFreed
  <2> QED
    BY <2>2, Accounted DEF IInv, ClosuresHold
<1> QED
  BY <1>1, <1>2, <1>3, PTL DEF Spec

(* ClickRunsItsItem of Menus: on GTK and Win32 a click runs the closure of *)
(* the item clicked, or none when it is gone by then.                      *)
LEMMA ChooseRunsItsItem ==
  ASSUME Owned, backend # "android", NEW i, Choose(i)
  PROVE  running' \in {0, Visible[i].box}
<1>1. backend \in {"gtk", "win32"} /\ shown.menu \in MenuHandles
  BY DEF Owned, Typed, Choose
<1>2. Visible[i] = native[shown.menu][i] /\ i \in Places(shown.menu)
  BY DEF Choose, Visible, Places
<1>3. Visible[i] \in ItemsOf(shown.menu)
  BY <1>2 DEF ItemsOf
<1>4. CASE backend = "gtk"
  <2>1. running' = Dispatched(Visible[i].id)
    BY <1>4 DEF Choose, Run
  <2> QED
    BY <1>1, <1>3, <2>1, DispatchedIsTheItems
<1>5. CASE backend = "win32"
  BY <1>5 DEF Choose, Idle
<1> QED
  BY <1>1, <1>4, <1>5

(* Win32's command that arrives late runs its item's closure or none.      *)
LEMMA CommandRunsItsItem ==
  ASSUME Owned, CommandArrives
  PROVE  running' \in {0, chosen.box}
<1>1. chosen # NoItem /\ running' = Dispatched(chosen.id)
  BY DEF CommandArrives, Run
<1>2. \A c \in commands : c.id = chosen.id => c.box = chosen.box
  BY <1>1 DEF Owned, CommandsKnown, ChosenKnown
<1> QED
  BY <1>1, <1>2, DispatchedFacts

(* Over every step: whatever was rebuilt between Win32's click and its     *)
(* command, and whatever ids GTK's actions have by then.                   *)
THEOREM ClickRuns ==
  Spec => ClickRunsItsItem
<1>1. Owned /\ [Next]_vars
        => [backend # "android" =>
              /\ \A i \in 1 .. 2 * MaxItems : Choose(i) => running' \in {0, Visible[i].box}
              /\ CommandArrives => running' \in {0, chosen.box}]_vars
  BY ChooseRunsItsItem, CommandRunsItsItem
<1> QED
  BY <1>1, OwnedAlways, PTL DEF Spec, ClickRunsItsItem

-----------------------------------------------------------------------------
(***************************************************************************)
(* The tray: a host that has fetched the newest revision, and was not made *)
(* to keep it by AboutToShow, shows the snapshot clicks are looked up in.  *)
(***************************************************************************)
HostKnows ==
  /\ tray \in [menu : MenuHandles \cup {0}, sealed : BOOLEAN]
  /\ sni = [conn |-> sni.conn, revision |-> sni.revision, items |-> sni.items]
  /\ sni.conn \in BOOLEAN /\ sni.revision \in Nat \ {0}
  /\ host = [layout |-> host.layout, revision |-> host.revision, told |-> host.told,
             asked |-> host.asked]
  /\ host.asked \in BOOLEAN /\ host.revision \in 0 .. sni.revision
  /\ ~sni.conn => host.revision = 0
  /\ host.revision = sni.revision /\ ~host.asked => host.layout = sni.items

(* At the start the host knows nothing.                                    *)
LEMMA TrayInitInv ==
  ASSUME TrayInit
  PROVE  Owned /\ HostKnows
<1>1. Owned
  BY InitOwned DEF TrayInit, IInv
<1>2. HostKnows
  BY DEF TrayInit, HostKnows
<1> QED
  BY <1>1, <1>2

(* What an event runs is the closure of an item that bears the label.      *)
LEMMA ActivateHeld ==
  ASSUME Owned, HostKnows, NEW l
  PROVE  \/ Activate(l) = 0
         \/ <<l, Activate(l)>> \in Displayed(tray.menu) /\ Held(Activate(l))
<1> DEFINE m == tray.menu
<1>1. CASE tray.sealed \/ m = 0
  BY <1>1 DEF Activate
<1>2. CASE ~(tray.sealed \/ m = 0)
  <2>1. m \in MenuHandles
    BY <1>2 DEF HostKnows
  <2>2. Activate(l) = IF Slot(m, l) = 0 THEN 0 ELSE store[Slot(m, l)].box
    BY <1>2 DEF Activate
  <2> HIDE DEF m
  <2>3. CASE Slot(m, l) # 0
    <3>1. Slot(m, l) \in Items(m) /\ store[Slot(m, l)].label = l
      BY <2>1, <2>3, SlotFacts DEF Owned
    <3>2. PICK x \in ItemsOf(m) : x.label = l /\ x.box = store[Slot(m, l)].box
      BY <2>1, <3>1, StoredHeld
    <3>3. <<l, Activate(l)>> \in Displayed(m) /\ Held(Activate(l))
      BY <2>1, <2>2, <2>3, <3>2, DisplayedIs DEF Held
    <3> QED
      BY <3>3 DEF m
  <2> QED
    BY <2>2, <2>3
<1> QED
  BY <1>1, <1>2

(* A host's event runs an item of the menu.                                *)
LEMMA EventUsed ==
  ASSUME Owned, HostKnows, NEW id, Event(id)
  PROVE  Used
<1>1. Held(Activate(sni.items[id]))
  BY ActivateHeld DEF Held
<1>2. UNCHANGED <<Built, commands, shown, chosen>> /\ Run(Activate(sni.items[id]))
  BY DEF Event
<1> QED
  BY <1>1, <1>2 DEF Used, Run

(* Another menu for the tray is a new snapshot.                            *)
LEMMA SetMenuKnows ==
  ASSUME HostKnows, NEW m \in MenuHandles, SetMenu(m)
  PROVE  HostKnows'
<1>1. /\ tray' = [tray EXCEPT !.menu = m]
      /\ sni' = [sni EXCEPT !.revision = @ + 1, !.items = Snapshot(m)]
      /\ host' = [host EXCEPT !.told = @ \/ sni.conn]
  BY DEF SetMenu
<1>2. tray' \in [menu : MenuHandles \cup {0}, sealed : BOOLEAN]
  BY <1>1 DEF HostKnows
<1>3. /\ sni' = [conn |-> sni.conn, revision |-> sni.revision + 1, items |-> Snapshot(m)]
      /\ sni.revision \in Nat \ {0} /\ sni.conn \in BOOLEAN
  BY <1>1 DEF HostKnows
<1>4. host' = [layout |-> host.layout, revision |-> host.revision, told |-> host'.told,
               asked |-> host.asked]
  BY <1>1 DEF HostKnows
<1>5. host.revision \in 0 .. sni.revision /\ host.asked \in BOOLEAN
      /\ (~sni.conn => host.revision = 0)
  BY DEF HostKnows
<1> QED
  BY <1>2, <1>3, <1>4, <1>5 DEF HostKnows

(* The bus, the seal and the host's own calls.                             *)
LEMMA TrayStepKnows ==
  ASSUME HostKnows, Seal \/ BusAcquired \/ GetLayout \/ AboutToShow
  PROVE  HostKnows'
<1>1. CASE Seal
  BY <1>1 DEF Seal, HostKnows
<1>2. CASE BusAcquired
  <2>1. /\ sni' = [conn |-> TRUE, revision |-> sni.revision, items |-> Snapshot(tray.menu)]
        /\ UNCHANGED <<tray, host>> /\ host.revision = 0
    BY <1>2 DEF BusAcquired, HostKnows
  <2> QED
    BY <2>1 DEF HostKnows
<1>3. CASE GetLayout
  <2>1. /\ host' = [layout |-> sni.items, revision |-> sni.revision, told |-> FALSE,
                    asked |-> FALSE]
        /\ UNCHANGED <<tray, sni>> /\ sni.conn
    BY <1>3 DEF GetLayout
  <2>2. /\ host'.layout = sni.items /\ host'.revision = sni.revision /\ host'.asked = FALSE
        /\ host'.told = FALSE
    BY <2>1
  <2>3. sni.revision \in 0 .. sni.revision
    BY DEF HostKnows
  <2> QED
    BY <2>1, <2>2, <2>3 DEF HostKnows
<1>4. CASE AboutToShow
  <2>1. /\ sni' = [conn |-> sni.conn, revision |-> sni.revision,
                   items |-> Snapshot(tray.menu)]
        /\ host' = [layout |-> host.layout, revision |-> host.revision,
                    told |-> host.told, asked |-> TRUE]
        /\ UNCHANGED tray
    BY <1>4 DEF AboutToShow, HostKnows
  <2> QED
    BY <2>1 DEF HostKnows
<1> QED
  BY <1>1, <1>2, <1>3, <1>4

(* Every step of menus, tray and host.                                     *)
LEMMA TrayNextInv ==
  ASSUME Owned, HostKnows, [TrayNext]_<<vars, trayVars>>
  PROVE  Owned' /\ HostKnows'
<1>1. ASSUME UNCHANGED trayVars
      PROVE  HostKnows'
  BY <1>1 DEF trayVars, HostKnows
<1>2. ASSUME UNCHANGED vars
      PROVE  Owned'
  BY <1>2, NextOwned
<1>3. CASE \E m \in MenuHandles : SetMenu(m)
  BY <1>2, <1>3, SetMenuKnows DEF SetMenu
<1>4. CASE Seal \/ BusAcquired \/ GetLayout \/ AboutToShow
  BY <1>2, <1>4, TrayStepKnows DEF Seal, BusAcquired, GetLayout, AboutToShow
<1>5. CASE \E id \in 1 .. SnapshotMax : Event(id)
  <2>1. PICK id \in 1 .. SnapshotMax : Event(id)
    BY <1>5
  <2>2. UNCHANGED trayVars
    BY <2>1 DEF Event
  <2> QED
    BY <1>1, <2>1, <2>2, EventUsed, UsedOwned
<1>6. CASE Next /\ UNCHANGED trayVars
  BY <1>1, <1>6, NextOwned
<1>7. CASE UNCHANGED <<vars, trayVars>>
  BY <1>1, <1>2, <1>7
<1> QED
  BY <1>3, <1>4, <1>5, <1>6, <1>7 DEF TrayNext

(* ClickRunsShownLabel of TrayMenu: a click in a host with the newest      *)
(* layout runs an item that bears the label shown, or nothing.             *)
THEOREM TrayClickRunsShownLabel ==
  TraySafeSpec => ClickRunsShownLabel
<1>1. TrayInit => Owned /\ HostKnows
  BY TrayInitInv
<1>2. Owned /\ HostKnows /\ [TrayNext]_<<vars, trayVars>> => (Owned /\ HostKnows)'
  BY TrayNextInv
<1>3. ASSUME Owned, HostKnows, NEW id \in 1 .. SnapshotMax, Event(id),
             host.revision = sni.revision, ~host.asked
      PROVE  RanAsShown(id)
  <2>1. host.layout = sni.items /\ running' = Activate(host.layout[id])
    BY <1>3 DEF HostKnows, Event, Run
  <2> QED
    BY <2>1, ActivateHeld, <1>3 DEF RanAsShown
<1>4. Owned /\ HostKnows /\ [TrayNext]_<<vars, trayVars>>
        => [\A id \in 1 .. SnapshotMax :
              Event(id) /\ host.revision = sni.revision /\ ~host.asked
                => RanAsShown(id)]_<<vars, trayVars>>
  BY <1>3
<1> QED
  BY <1>1, <1>2, <1>4, PTL DEF TraySafeSpec, ClickRunsShownLabel

=============================================================================
