----------------------------- MODULE DriverProofs -----------------------------
(***************************************************************************)
(* For any widgets and any number of requests and acts, on each backend: a *)
(* closure that the platform's own event runs is not freed under its call, *)
(* a listing is of one moment, a driven action is the person's own, and a  *)
(* refusal changed nothing.                                                *)
(*                                                                         *)
(* The threads' discipline carries all four: a request that is serviced on *)
(* the UI thread finds it free and keeps it until a closure of its own     *)
(* runs, the driver's calls are only under way while the request waits to  *)
(* be answered, and what is freed, or to be, is of a widget that is gone.  *)
(***************************************************************************)
EXTENDS Driver, TLAPS

Widget == [kind : Kinds, live : BOOLEAN, sealed : BOOLEAN, banner : BOOLEAN, value : {0, 1}]
Closures == {"click", "change", "submit", "dblclick", "drop", "scroll", "drag", "menu",
             "secondary"}
Result == [result : 0 .. 4, ran : SUBSET Closures, value : {0, 1}, posted : BOOLEAN]

(* What a widget of each kind may carry.                                   *)
LEMMA AttachedClosures ==
  ASSUME NEW k \in Kinds
  PROVE  Attached(k) \subseteq Closures
BY DEF Kinds, Attached, Closures

(* What the dispatchers make of a widget: done, something may run and the  *)
(* value may change; refused, nothing does.                                *)
LEMMA OutcomeFacts ==
  ASSUME NEW w \in Widget
  PROVE  /\ Nothing(w) = [result |-> 0, ran |-> {}, value |-> w.value, posted |-> FALSE]
         /\ Nothing(w) \in Result
         /\ \A r \in 0 .. 4 :
              /\ Refuse(w, r) = [result |-> r, ran |-> {}, value |-> w.value, posted |-> FALSE]
              /\ Refuse(w, r) \in Result
         /\ \A S : \A v \in {0, 1} :
              /\ Does(w, S, v) = [result |-> 0, ran |-> S \cap Attached(w.kind), value |-> v,
                                  posted |-> FALSE]
              /\ Does(w, S, v) \in Result
<1>1. w.kind \in Kinds /\ w.value \in {0, 1}
  BY DEF Widget
<1>2. Attached(w.kind) \subseteq Closures
  BY <1>1, AttachedClosures
<1> QED
  BY <1>1, <1>2 DEF Nothing, Refuse, Does, Outcome, Result

(* What a verb did, as far as its reply and its closures go.               *)
Sound(b, v, w, o) ==
  /\ o \in Result
  /\ o.result # 0 => o.ran = {} /\ o.value = w.value
  /\ v \in OwnReply => o.value = w.value
  /\ o.posted => b = "win32" /\ o.ran = {}
  /\ b = "gtk" /\ o.ran # {} => w.live \/ w.kind = "row"

(* GTK's dispatcher, for every verb it is sent.                            *)
LEMMA GtkSound ==
  ASSUME NEW w \in Widget, NEW x \in {0, 1}, NEW v \in Verbs,
         v \notin GtkUnchecked => w.live,
         v = "scroll_by" => w.live
  PROVE  Sound("gtk", v, w, GtkPerform(v, w, x))
<1>1. /\ w.kind \in Kinds /\ w.value \in {0, 1} /\ w.live \in BOOLEAN
  BY DEF Widget
<1>2. Flip(w) \in {0, 1}
  BY <1>1 DEF Flip
<1>3. CASE v = "click"
  BY <1>1, <1>2, <1>3, OutcomeFacts DEF GtkPerform, GtkClick, Sound, OwnReply, GtkUnchecked
<1>4. CASE v = "toggle"
  BY <1>1, <1>2, <1>4, OutcomeFacts DEF GtkPerform, GtkToggle, Sound, OwnReply, GtkUnchecked
<1>5. CASE v = "set_text"
  BY <1>1, <1>5, OutcomeFacts DEF GtkPerform, GtkSetText, Sound, OwnReply, GtkUnchecked
<1>6. CASE v = "set_value"
  BY <1>1, <1>6, OutcomeFacts DEF GtkPerform, GtkSetValue, IfMoved, Sound, OwnReply, GtkUnchecked
<1>7. CASE v = "scroll_by"
  BY <1>1, <1>7, OutcomeFacts DEF GtkPerform, ScrollBy, IfMoved, Sound, OwnReply
<1>8. CASE v = "drag"
  BY <1>1, <1>8, OutcomeFacts DEF GtkPerform, GtkDrag, OrMissing, Sound, OwnReply
<1>9. CASE v = "submit"
  BY <1>1, <1>9, OutcomeFacts DEF GtkPerform, GtkSubmit, OrMissing, Sound, OwnReply
<1>10. CASE v = "secondary_click"
  BY <1>1, <1>10, OutcomeFacts DEF GtkPerform, Secondary, Sound, OwnReply, Attached, Kinds
<1>11. CASE v = "context_menu"
  BY <1>1, <1>11, OutcomeFacts DEF GtkPerform, ContextItem, Sound, OwnReply
<1>12. CASE v \notin {"click", "toggle", "set_text", "set_value", "scroll_by", "drag", "submit",
                      "secondary_click", "context_menu"}
  <2>1. GtkPerform(v, w, x) = Shows(w)
    BY <1>12 DEF GtkPerform
  <2> QED
    BY <1>1, <2>1, OutcomeFacts DEF Shows, Sound
<1> QED
  BY <1>3, <1>4, <1>5, <1>6, <1>7, <1>8, <1>9, <1>10, <1>11, <1>12

(* Win32's dispatcher.                                                     *)
LEMMA Win32Sound ==
  ASSUME NEW w \in Widget, NEW x \in {0, 1}, NEW v \in Verbs
  PROVE  Sound("win32", v, w, Win32Perform(v, w, x))
<1>1. /\ w.kind \in Kinds /\ w.value \in {0, 1} /\ w.live \in BOOLEAN
  BY DEF Widget
<1>2. Flip(w) \in {0, 1}
  BY <1>1 DEF Flip
<1>3. CASE v = "click"
  <2>1. Win32Perform(v, w, x) = Win32Click(w)
    BY <1>3 DEF Win32Perform
  <2> QED
    BY <1>1, <1>2, <1>3, <2>1, OutcomeFacts DEF Win32Click, Sound, OwnReply
<1>4. CASE v = "toggle"
  <2>1. Win32Perform(v, w, x) = Win32Toggle(w)
    BY <1>4 DEF Win32Perform
  <2> QED
    BY <1>1, <1>2, <1>4, <2>1, OutcomeFacts DEF Win32Toggle, Sound, OwnReply
<1>5. CASE v = "set_text"
  <2>1. Win32Perform(v, w, x) = Win32SetText(w, x)
    BY <1>5 DEF Win32Perform
  <2> QED
    BY <1>1, <1>2, <1>5, <2>1, OutcomeFacts DEF Win32SetText, Sound, OwnReply
<1>6. CASE v = "set_value"
  <2>1. Win32Perform(v, w, x) = Win32SetValue(w, x)
    BY <1>6 DEF Win32Perform
  <2> QED
    BY <1>1, <1>2, <1>6, <2>1, OutcomeFacts DEF Win32SetValue, IfMoved, Moved, Sound, OwnReply
<1>7. CASE v = "scroll_by"
  <2>1. Win32Perform(v, w, x) = ScrollBy(w, x)
    BY <1>7 DEF Win32Perform
  <2> QED
    BY <1>1, <1>2, <1>7, <2>1, OutcomeFacts DEF ScrollBy, IfMoved, Sound, OwnReply
<1>8. CASE v = "drag"
  <2>1. Win32Perform(v, w, x) = Win32Drag(w)
    BY <1>8 DEF Win32Perform
  <2> QED
    BY <1>1, <1>2, <1>8, <2>1, OutcomeFacts DEF Win32Drag, OrMissing, Sound, OwnReply
<1>9. CASE v = "submit"
  <2>1. Win32Perform(v, w, x) = Win32Submit(w)
    BY <1>9 DEF Win32Perform
  <2>2. CASE w.kind = "field"
    <3>1. Win32Submit(w) = [result |-> 0, ran |-> {}, value |-> w.value, posted |-> TRUE]
      BY <2>2 DEF Win32Submit, Nothing, Outcome
    <3> QED
      BY <1>1, <2>1, <3>1 DEF Sound, Result
  <2>3. CASE w.kind # "field"
    BY <1>1, <1>9, <2>1, <2>3, OutcomeFacts DEF Win32Submit, Sound, OwnReply
  <2> QED
    BY <2>2, <2>3
<1>10. CASE v = "secondary_click"
  <2>1. Win32Perform(v, w, x) = Secondary(w)
    BY <1>10 DEF Win32Perform
  <2> QED
    BY <1>1, <1>2, <1>10, <2>1, OutcomeFacts DEF Secondary, Sound, OwnReply
<1>11. CASE v = "context_menu"
  <2>1. Win32Perform(v, w, x) = ContextItem(w)
    BY <1>11 DEF Win32Perform
  <2> QED
    BY <1>1, <1>2, <1>11, <2>1, OutcomeFacts DEF ContextItem, Sound, OwnReply
<1>12. CASE v \notin {"click", "toggle", "set_text", "set_value", "scroll_by", "drag", "submit",
                      "secondary_click", "context_menu"}
  <2>1. Win32Perform(v, w, x) = Shows(w)
    BY <1>12 DEF Win32Perform
  <2> QED
    BY <1>1, <2>1, OutcomeFacts DEF Shows, Sound
<1> QED
  BY <1>3, <1>4, <1>5, <1>6, <1>7, <1>8, <1>9, <1>10, <1>11, <1>12

(* Android's dispatcher and its direct verbs.                              *)
LEMMA AndroidSound ==
  ASSUME NEW w \in Widget, NEW x \in {0, 1}, NEW v \in Verbs
  PROVE  Sound("android", v, w, AndroidPerform(v, w, x))
<1>1. /\ w.kind \in Kinds /\ w.value \in {0, 1} /\ w.live \in BOOLEAN
  BY DEF Widget
<1>2. Flip(w) \in {0, 1}
  BY <1>1 DEF Flip
<1>3. CASE v = "click"
  <2>1. AndroidPerform(v, w, x) = AndroidClick(w)
    BY <1>3 DEF AndroidPerform
  <2> QED
    BY <1>1, <1>2, <1>3, <2>1, OutcomeFacts DEF AndroidClick, Sound, OwnReply
<1>4. CASE v = "toggle"
  <2>1. AndroidPerform(v, w, x) = AndroidToggle(w)
    BY <1>4 DEF AndroidPerform
  <2> QED
    BY <1>1, <1>2, <1>4, <2>1, OutcomeFacts DEF AndroidToggle, AndroidClick, Sound, OwnReply
<1>5. CASE v = "set_text"
  <2>1. AndroidPerform(v, w, x) = AndroidSetText(w, x)
    BY <1>5 DEF AndroidPerform
  <2> QED
    BY <1>1, <1>2, <1>5, <2>1, OutcomeFacts DEF AndroidSetText, Sound, OwnReply
<1>6. CASE v = "set_value"
  <2>1. AndroidPerform(v, w, x) = AndroidSetValue(w, x)
    BY <1>6 DEF AndroidPerform
  <2> QED
    BY <1>1, <1>2, <1>6, <2>1, OutcomeFacts DEF AndroidSetValue, IfMoved, Moved, Sound, OwnReply
<1>7. CASE v = "scroll_by"
  <2>1. AndroidPerform(v, w, x) = ScrollBy(w, x)
    BY <1>7 DEF AndroidPerform
  <2> QED
    BY <1>1, <1>2, <1>7, <2>1, OutcomeFacts DEF ScrollBy, IfMoved, Sound, OwnReply
<1>8. CASE v = "drag"
  <2>1. AndroidPerform(v, w, x) = AndroidDrag(w)
    BY <1>8 DEF AndroidPerform
  <2> QED
    BY <1>1, <1>2, <1>8, <2>1, OutcomeFacts DEF AndroidDrag, OrMissing, Sound, OwnReply
<1>9. CASE v = "submit"
  <2>1. AndroidPerform(v, w, x) = AndroidSubmit(w)
    BY <1>9 DEF AndroidPerform
  <2> QED
    BY <1>1, <1>2, <1>9, <2>1, OutcomeFacts DEF AndroidSubmit, OrMissing, Sound, OwnReply
<1>10. CASE v = "secondary_click"
  <2>1. AndroidPerform(v, w, x) = Secondary(w)
    BY <1>10 DEF AndroidPerform
  <2> QED
    BY <1>1, <1>2, <1>10, <2>1, OutcomeFacts DEF Secondary, Sound, OwnReply
<1>11. CASE v = "context_menu"
  <2>1. AndroidPerform(v, w, x) = ContextItem(w)
    BY <1>11 DEF AndroidPerform
  <2> QED
    BY <1>1, <1>2, <1>11, <2>1, OutcomeFacts DEF ContextItem, Sound, OwnReply
<1>12. CASE v \notin {"click", "toggle", "set_text", "set_value", "scroll_by", "drag", "submit",
                      "secondary_click", "context_menu"}
  <2>1. AndroidPerform(v, w, x) = Shows(w)
    BY <1>12 DEF AndroidPerform
  <2> QED
    BY <1>1, <2>1, OutcomeFacts DEF Shows, Sound
<1> QED
  BY <1>3, <1>4, <1>5, <1>6, <1>7, <1>8, <1>9, <1>10, <1>11, <1>12

(* The checks before a verb.                                               *)
LEMMA CheckFacts ==
  ASSUME NEW b \in Backend3, NEW v \in Verbs, NEW w \in Widget
  PROVE  /\ Check(b, v, w) \in {0, 1, 2, 3}
         /\ Check(b, v, w) = 0 =>
              /\ b = "win32" => w.live
              /\ b = "gtk" /\ v \notin GtkUnchecked => w.live
         /\ v \in CheckedVerbs /\ (w.live => w.sealed \/ w.banner) =>
              Check(b, v, w) \in {1, 2, 3}
<1>1. w.live \in BOOLEAN /\ w.sealed \in BOOLEAN /\ w.banner \in BOOLEAN
  BY DEF Widget
<1>2. /\ Checked(w) \in {0, 1, 2, 3} /\ (Checked(w) = 0 <=> w.live /\ ~w.sealed /\ ~w.banner)
      /\ LiveOnly(w) \in {0, 3} /\ (LiveOnly(w) = 0 <=> w.live)
  BY <1>1 DEF Checked, LiveOnly
<1>3. CASE b = "gtk"
  <2>1. Check(b, v, w) = GtkCheck(v, w)
    BY <1>3 DEF Check
  <2> QED
    BY <1>2, <1>3, <2>1 DEF GtkCheck, GtkUnchecked, CheckedVerbs
<1>4. CASE b = "win32"
  <2>1. Check(b, v, w) = Win32Check(v, w)
    BY <1>4 DEF Check
  <2> QED
    BY <1>2, <1>4, <2>1 DEF Win32Check, CheckedVerbs
<1>5. CASE b = "android"
  <2>1. Check(b, v, w) = AndroidCheck(v, w)
    BY <1>5 DEF Check
  <2> QED
    BY <1>2, <1>5, <2>1 DEF AndroidCheck, CheckedVerbs
<1> QED
  BY <1>3, <1>4, <1>5 DEF Backend3

(* What a dispatch makes of a verb.                                        *)
LEMMA PerformSound ==
  ASSUME NEW b \in Backend3, NEW verb \in Verbs, NEW w \in Widget, NEW x \in {0, 1}
  PROVE  /\ Sound(b, verb, w, Perform(b, verb, w, x))
         /\ b = "win32" /\ Perform(b, verb, w, x).ran # {} => w.live
<1> DEFINE v == Routed(verb, w)
           r == IF Routable(v, w) THEN Check(b, v, w) ELSE 4
<1>1. /\ v \in Verbs /\ (verb \in OwnReply => v = verb)
      /\ (v # verb => verb \notin OwnReply /\ v = "scroll_by")
  BY DEF Routed, Verbs, Enveloped, OwnReply
<1>2. Perform(b, verb, w, x) =
        CASE r # 0 -> Refuse(w, r)
          [] r = 0 /\ b = "gtk" -> GtkPerform(v, w, x)
          [] r = 0 /\ b = "win32" -> Win32Perform(v, w, x)
          [] r = 0 /\ b = "android" -> AndroidPerform(v, w, x)
  BY DEF Perform
<1>3. r = 0 => Routable(v, w) /\ Check(b, v, w) = 0
  OBVIOUS
<1>4. r \in 0 .. 4
  BY <1>1, CheckFacts
<1>5. r = 0 /\ v = "scroll_by" => w.live
  BY <1>3 DEF Routable
<1> HIDE DEF v, r
<1>6. CASE r # 0
  <2>1. Perform(b, verb, w, x) = Refuse(w, r)
    BY <1>2, <1>6
  <2> QED
    BY <1>4, <2>1, OutcomeFacts DEF Sound
<1>7. CASE r = 0 /\ b = "gtk"
  <2>1. Perform(b, verb, w, x) = GtkPerform(v, w, x)
    BY <1>2, <1>7
  <2>2. v \notin GtkUnchecked => w.live
    BY <1>1, <1>3, <1>7, CheckFacts
  <2>3. Sound(b, v, w, GtkPerform(v, w, x))
    BY <1>1, <1>5, <1>7, <2>2, GtkSound
  <2> QED
    BY <1>1, <1>7, <2>1, <2>3 DEF Sound
<1>8. CASE r = 0 /\ b = "win32"
  <2>1. Perform(b, verb, w, x) = Win32Perform(v, w, x)
    BY <1>2, <1>8
  <2>2. w.live
    BY <1>1, <1>3, <1>8, CheckFacts
  <2>3. Sound(b, v, w, Win32Perform(v, w, x))
    BY <1>1, <1>8, Win32Sound
  <2> QED
    BY <1>1, <1>8, <2>1, <2>2, <2>3 DEF Sound
<1>9. CASE r = 0 /\ b = "android"
  <2>1. Perform(b, verb, w, x) = AndroidPerform(v, w, x)
    BY <1>2, <1>9
  <2>2. Sound(b, v, w, AndroidPerform(v, w, x))
    BY <1>1, <1>9, AndroidSound
  <2> QED
    BY <1>1, <1>9, <2>1, <2>2 DEF Sound
<1> QED
  BY <1>6, <1>7, <1>8, <1>9 DEF Backend3

(* A verb that is checked everywhere is refused what is gone, the banner   *)
(* or sealed.                                                              *)
LEMMA CheckedRefused ==
  ASSUME NEW b \in Backend3, NEW verb \in Verbs, NEW w \in Widget, NEW x \in {0, 1},
         Routed(verb, w) \in CheckedVerbs, w.live => w.sealed \/ w.banner
  PROVE  Status(verb, Perform(b, verb, w, x)) \in {403, 404}
<1> DEFINE v == Routed(verb, w)
<1>1. v = verb /\ verb \in Enveloped /\ verb # "scroll_by"
  BY DEF Routed, CheckedVerbs, Enveloped
<1>2. Check(b, v, w) \in {1, 2, 3}
  BY <1>1, CheckFacts
<1>3. Routable(v, w)
  BY <1>1 DEF Routable
<1>4. Perform(b, verb, w, x) = Refuse(w, Check(b, v, w))
  BY <1>2, <1>3 DEF Perform
<1>5. Refuse(w, Check(b, v, w)).result = Check(b, v, w)
  BY <1>2, OutcomeFacts
<1> HIDE DEF v
<1>6. Status(verb, Perform(b, verb, w, x)) = EnvelopeStatus(Check(b, v, w))
  BY <1>1, <1>4, <1>5 DEF Status, Enveloped, OwnReply, Direct
<1> QED
  BY <1>2, <1>6 DEF EnvelopeStatus

(* A driven click, toggle or text runs what a person's act runs.           *)
RunsByHand(b, verb, w, ran) ==
  /\ verb = "click" => ran = Tap(b, w)
  /\ verb = "toggle" => ran \in {{}, Tap(b, w)}
  /\ verb = "set_text" /\ w.kind # "button" => (ran # {}) = (w.kind = "field")

(* A driven click, toggle or text that is done runs what the widget's own  *)
(* event runs.                                                             *)
LEMMA PerformByHand ==
  ASSUME NEW b \in Backend3, NEW verb \in {"click", "toggle", "set_text"}, NEW w \in Widget,
         NEW x \in {0, 1}, Perform(b, verb, w, x).result = 0
  PROVE  RunsByHand(b, verb, w, Perform(b, verb, w, x).ran)
<1>1. Routed(verb, w) = verb /\ Routable(verb, w) /\ verb \in Verbs
  BY DEF Routed, Routable, Verbs, Enveloped
<1>2. Check(b, verb, w) = 0
  <2>1. Check(b, verb, w) # 0 => Perform(b, verb, w, x) = Refuse(w, Check(b, verb, w))
    BY <1>1 DEF Perform
  <2>2. Check(b, verb, w) \in 0 .. 4
    BY <1>1, CheckFacts
  <2> QED
    BY <2>1, <2>2, OutcomeFacts
<1>3. /\ b = "gtk" => Perform(b, verb, w, x) = GtkPerform(verb, w, x)
      /\ b = "win32" => Perform(b, verb, w, x) = Win32Perform(verb, w, x)
      /\ b = "android" => Perform(b, verb, w, x) = AndroidPerform(verb, w, x)
  BY <1>1, <1>2 DEF Perform
<1>4. /\ w.kind \in Kinds /\ w.value \in {0, 1} /\ Flip(w) \in {0, 1}
      /\ Attached("toggle") = {"change"} /\ "change" \in Attached("field")
      /\ "change" \notin Attached("text")
  BY DEF Widget, Flip, Attached
<1>5. /\ GtkPerform("click", w, x) = GtkClick(w) /\ Win32Perform("click", w, x) = Win32Click(w)
      /\ AndroidPerform("click", w, x) = AndroidClick(w)
      /\ GtkPerform("toggle", w, x) = GtkToggle(w)
      /\ Win32Perform("toggle", w, x) = Win32Toggle(w)
      /\ AndroidPerform("toggle", w, x) = AndroidToggle(w)
      /\ GtkPerform("set_text", w, x) = GtkSetText(w, x)
      /\ Win32Perform("set_text", w, x) = Win32SetText(w, x)
      /\ AndroidPerform("set_text", w, x) = AndroidSetText(w, x)
  BY DEF GtkPerform, Win32Perform, AndroidPerform
<1>6. Tap(b, w) = IF w.kind = "toggle" THEN {"change"} ELSE {"click"} \cap Attached(w.kind)
  BY DEF Tap, GtkSignals, Win32Commands, AndroidEvents, Backend3
<1>7. CASE verb = "click"
  <2>1. Perform(b, verb, w, x) = IF w.kind = "toggle" THEN Does(w, {"change"}, Flip(w))
                                 ELSE Does(w, {"click"}, w.value)
    BY <1>3, <1>5, <1>7 DEF GtkClick, Win32Click, AndroidClick, Backend3
  <2>2. Perform(b, verb, w, x).ran = Tap(b, w)
    <3>1. CASE w.kind = "toggle"
      <4>1. Does(w, {"change"}, Flip(w)).ran = {"change"}
        BY <1>4, <3>1, OutcomeFacts
      <4> QED
        BY <1>6, <2>1, <3>1, <4>1
    <3>2. CASE w.kind # "toggle"
      <4>1. Does(w, {"click"}, w.value).ran = {"click"} \cap Attached(w.kind)
        BY <1>4, OutcomeFacts
      <4> QED
        BY <1>6, <2>1, <3>2, <4>1
    <3> QED
      BY <3>1, <3>2
  <2> QED
    BY <1>7, <2>2 DEF RunsByHand
<1>8. CASE verb = "toggle"
  <2>1. Perform(b, verb, w, x) = IF w.kind = "toggle" THEN Does(w, {"change"}, Flip(w))
                                 ELSE Nothing(w)
    BY <1>3, <1>5, <1>8 DEF GtkToggle, Win32Toggle, AndroidToggle, AndroidClick, Backend3
  <2> QED
    BY <1>4, <1>6, <1>8, <2>1, OutcomeFacts DEF RunsByHand
<1>9. CASE verb = "set_text"
  <2>1. w.kind # "button" =>
          Perform(b, verb, w, x) = IF w.kind \in {"text", "field"} THEN Does(w, {"change"}, x)
                                   ELSE Nothing(w)
    BY <1>3, <1>5, <1>9 DEF GtkSetText, Win32SetText, AndroidSetText, Backend3
  <2> QED
    BY <1>4, <1>9, <2>1, OutcomeFacts DEF RunsByHand
<1> QED
  BY <1>7, <1>8, <1>9

-------------------------------------------------------------------------------
(* What a request asks.                                                    *)
LEMMA RequestFacts ==
  ASSUME NEW r \in Requests
  PROVE  /\ r.mods \in BOOLEAN
         /\ r.verb = "widgets" <=> r = NoReq
         /\ r # NoReq => r.verb \in Verbs /\ r.w \in Handles /\ r.arg \in {0, 1}
<1>1. CASE r = NoReq
  BY <1>1 DEF NoReq
<1>2. CASE r # NoReq
  <2>1. WithValue \subseteq Verbs /\ "click" \in Verbs /\ "widgets" \notin Verbs
    BY DEF WithValue, Verbs, Enveloped, OwnReply, Direct
  <2>2. \/ \E v \in Verbs, h \in Handles : r = [verb |-> v, w |-> h, arg |-> 0, mods |-> FALSE]
        \/ \E v \in WithValue, h \in Handles :
             r = [verb |-> v, w |-> h, arg |-> 1, mods |-> FALSE]
        \/ \E h \in Handles : r = [verb |-> "click", w |-> h, arg |-> 0, mods |-> TRUE]
    BY <1>2 DEF Requests
  <2>3. ASSUME NEW v \in Verbs, NEW h \in Handles, NEW a \in {0, 1}, NEW k \in BOOLEAN,
               r = [verb |-> v, w |-> h, arg |-> a, mods |-> k]
        PROVE  r.mods \in BOOLEAN /\ r.verb \in Verbs /\ r.w \in Handles /\ r.arg \in {0, 1}
    BY <2>3
  <2>4. r.mods \in BOOLEAN /\ r.verb \in Verbs /\ r.w \in Handles /\ r.arg \in {0, 1}
    BY <2>1, <2>2, <2>3
  <2> QED
    BY <1>2, <2>1, <2>4
<1> QED
  BY <1>1, <1>2

Places == {"accept", "hopping", "recv", "list", "route", "answer"}
CallType ==
  [box : Handles \cup {0}, by : {"none", "driver", "person", "post"}, emission : BOOLEAN,
   mods : BOOLEAN]

Typed ==
  /\ backend \in Backend3 /\ override \in BOOLEAN
  /\ widgets \in [Handles -> Widget]
  /\ calls \in [Threads -> CallType]
  /\ posted \in Seq(Handles) /\ (backend # "win32" => posted = <<>>)
  /\ http = [at |-> http.at, req |-> http.req, seen |-> http.seen, left |-> http.left,
             outcome |-> http.outcome]
  /\ http.at \in Places /\ http.req \in Requests
  /\ http.at \in {"route", "answer"} => http.req # NoReq

(* Where a request is serviced on the UI thread, that thread is free until *)
(* the request's own closure runs; and the driver's calls are only under   *)
(* way while its request waits to be answered.                             *)
ThreadsApart ==
  /\ Hop => calls["server"] = Idle
  /\ Hop /\ http.at \in {"recv", "list", "route"} => calls["ui"] = Idle
  /\ \A t \in Threads : calls[t].by = "driver" => http.at = "answer"

(* The driver's modifiers are set for its own request, and seen by its own *)
(* calls.                                                                  *)
ModifiersApart ==
  Hop => /\ override => http.at \in {"route", "answer"} /\ http.req.mods
         /\ ModifiersOfTheClickOnly

(* Boxes buried or freed are of widgets that are gone, and a closure that  *)
(* a GTK signal emits, or that Win32's UI thread runs, is not freed.       *)
BoxesOfTheGone ==
  /\ grave \cup freed \subseteq Handles
  /\ \A h \in grave \cup freed : ~widgets[h].live
  /\ backend = "android" => grave \cup freed = {}
  /\ backend = "gtk" => /\ calls["ui"].emission => calls["ui"].box \notin freed
                        /\ calls["ui"].by \in {"person", "post"} => calls["ui"].emission
  /\ backend = "win32" => calls["ui"].box \notin freed

(* What a listing has read is of the tree as it is, laid out since the     *)
(* driver last changed it.                                                 *)
ListedAsItIs ==
  /\ http.at # "list" => http.seen = {}
  /\ Hop => \A s \in http.seen : s[1] = version
  /\ DrivenEffectsLaidOut
  /\ backend = "gtk" /\ http.at \in {"recv", "list"} => owed \cap Verbs = {}
  /\ backend = "android" =>
       owed \cap Verbs \subseteq Direct \cup IF http.at = "answer" THEN {http.req.verb} ELSE {}

IInv ==
  Typed /\ ThreadsApart /\ ModifiersApart /\ BoxesOfTheGone /\ ListedAsItIs /\ DrivenAsByHand

(* The server waits with no request.                                       *)
LEMMA WaitingFacts ==
  /\ NoReq \in Requests
  /\ Waiting = [at |-> "accept", req |-> NoReq, seen |-> {}, left |-> {}, outcome |-> 0]
BY DEF Requests, Waiting

(* A widget whose value, life or seal changes is of the same kind.         *)
LEMMA WidgetChanged ==
  ASSUME widgets \in [Handles -> Widget], NEW h \in Handles
  PROVE  /\ \A v \in {0, 1} :
              /\ [widgets EXCEPT ![h].value = v] \in [Handles -> Widget]
              /\ \A k \in Handles :
                   /\ [widgets EXCEPT ![h].value = v][k].kind = widgets[k].kind
                   /\ [widgets EXCEPT ![h].value = v][k].live = widgets[k].live
         /\ /\ [widgets EXCEPT ![h].live = FALSE] \in [Handles -> Widget]
            /\ \A k \in Handles :
                 /\ [widgets EXCEPT ![h].live = FALSE][k].kind = widgets[k].kind
                 /\ [widgets EXCEPT ![h].live = FALSE][k].live => k # h /\ widgets[k].live
         /\ /\ [widgets EXCEPT ![h].sealed = TRUE] \in [Handles -> Widget]
            /\ \A k \in Handles :
                 /\ [widgets EXCEPT ![h].sealed = TRUE][k].kind = widgets[k].kind
                 /\ [widgets EXCEPT ![h].sealed = TRUE][k].live = widgets[k].live
<1>1. \A k \in Handles : widgets[k] \in Widget
  OBVIOUS
<1>2. ASSUME NEW w \in Widget
      PROVE  /\ \A v \in {0, 1} : /\ [w EXCEPT !.value = v] \in Widget
                                  /\ [w EXCEPT !.value = v].kind = w.kind
                                  /\ [w EXCEPT !.value = v].live = w.live
             /\ [w EXCEPT !.live = FALSE] \in Widget
             /\ [w EXCEPT !.live = FALSE].kind = w.kind /\ ~[w EXCEPT !.live = FALSE].live
             /\ [w EXCEPT !.sealed = TRUE] \in Widget
             /\ [w EXCEPT !.sealed = TRUE].kind = w.kind
             /\ [w EXCEPT !.sealed = TRUE].live = w.live
  BY DEF Widget
<1> DEFINE changed(w) == [widgets EXCEPT ![h] = w]
<1>3. ASSUME NEW w \in Widget
      PROVE  /\ changed(w) \in [Handles -> Widget] /\ changed(w)[h] = w
             /\ \A k \in Handles \ {h} : changed(w)[k] = widgets[k]
  OBVIOUS
<1>4. /\ \A v \in {0, 1} :
           [widgets EXCEPT ![h].value = v] = changed([widgets[h] EXCEPT !.value = v])
      /\ [widgets EXCEPT ![h].live = FALSE] = changed([widgets[h] EXCEPT !.live = FALSE])
      /\ [widgets EXCEPT ![h].sealed = TRUE] = changed([widgets[h] EXCEPT !.sealed = TRUE])
  OBVIOUS
<1> HIDE DEF changed
<1>5. ASSUME NEW v \in {0, 1}
      PROVE  /\ [widgets EXCEPT ![h].value = v] \in [Handles -> Widget]
             /\ \A k \in Handles :
                  /\ [widgets EXCEPT ![h].value = v][k].kind = widgets[k].kind
                  /\ [widgets EXCEPT ![h].value = v][k].live = widgets[k].live
  <2> DEFINE w == [widgets[h] EXCEPT !.value = v]
  <2>1. w \in Widget /\ w.kind = widgets[h].kind /\ w.live = widgets[h].live
    BY <1>1, <1>2
  <2>2. [widgets EXCEPT ![h].value = v] = changed(w)
    BY <1>4
  <2> HIDE DEF w
  <2> QED
    BY <1>3, <2>1, <2>2
<1>6. /\ [widgets EXCEPT ![h].live = FALSE] \in [Handles -> Widget]
      /\ \A k \in Handles :
           /\ [widgets EXCEPT ![h].live = FALSE][k].kind = widgets[k].kind
           /\ [widgets EXCEPT ![h].live = FALSE][k].live => k # h /\ widgets[k].live
  <2> DEFINE w == [widgets[h] EXCEPT !.live = FALSE]
  <2>1. w \in Widget /\ w.kind = widgets[h].kind /\ ~w.live /\ w.live \in BOOLEAN
    BY <1>1, <1>2 DEF Widget
  <2>2. [widgets EXCEPT ![h].live = FALSE] = changed(w)
    BY <1>4
  <2>3. \A k \in Handles : widgets[k].live \in BOOLEAN
    BY <1>1 DEF Widget
  <2> HIDE DEF w
  <2>4. changed(w) \in [Handles -> Widget] /\ changed(w)[h] = w
        /\ \A k \in Handles \ {h} : changed(w)[k] = widgets[k]
    BY <1>3, <2>1
  <2>5. ASSUME NEW k \in Handles
        PROVE  /\ changed(w)[k].kind = widgets[k].kind
               /\ changed(w)[k].live => k # h /\ widgets[k].live
    <3>1. CASE k = h
      BY <2>1, <2>4, <3>1
    <3>2. CASE k # h
      BY <2>4, <3>2
    <3> QED
      BY <3>1, <3>2
  <2> QED
    BY <2>2, <2>4, <2>5
<1>7. /\ [widgets EXCEPT ![h].sealed = TRUE] \in [Handles -> Widget]
      /\ \A k \in Handles :
           /\ [widgets EXCEPT ![h].sealed = TRUE][k].kind = widgets[k].kind
           /\ [widgets EXCEPT ![h].sealed = TRUE][k].live = widgets[k].live
  <2> DEFINE w == [widgets[h] EXCEPT !.sealed = TRUE]
  <2>1. w \in Widget /\ w.kind = widgets[h].kind /\ w.live = widgets[h].live
    BY <1>1, <1>2
  <2>2. [widgets EXCEPT ![h].sealed = TRUE] = changed(w)
    BY <1>4
  <2> HIDE DEF w
  <2> QED
    BY <1>3, <2>1, <2>2
<1> QED
  BY <1>5, <1>6, <1>7

(* A widget's value says nothing of what the registry holds.               *)
LEMMA ValueChanged ==
  ASSUME widgets \in [Handles -> Widget], NEW h \in Handles, NEW v \in {0, 1},
         widgets' = [widgets EXCEPT ![h].value = v]
  PROVE  /\ widgets' \in [Handles -> Widget]
         /\ \A k \in Handles : /\ widgets'[k].kind = widgets[k].kind
                               /\ widgets'[k].live = widgets[k].live
<1> DEFINE w == [widgets[h] EXCEPT !.value = v]
<1>1. w \in Widget /\ w.kind = widgets[h].kind /\ w.live = widgets[h].live
  BY DEF Widget
<1>2. widgets' = [widgets EXCEPT ![h] = w]
  OBVIOUS
<1> HIDE DEF w
<1>3. widgets' \in [Handles -> Widget] /\ widgets'[h] = w
  BY <1>1, <1>2
<1>4. \A k \in Handles \ {h} : widgets'[k] = widgets[k]
  BY <1>2
<1> QED
  BY <1>1, <1>3, <1>4

(* What was run by hand stays so, as kinds do not change.                  *)
LEMMA ByHandKept ==
  ASSUME Typed, DrivenAsByHand, backend' = backend, http' = http,
         \A k \in Handles : widgets'[k].kind = widgets[k].kind
  PROVE  DrivenAsByHand'
<1> SUFFICES ASSUME http.at = "answer"
             PROVE  DrivenAsByHand'
  BY DEF DrivenAsByHand
<1>1. http.req.w \in Handles /\ Target.kind \in Kinds
  BY RequestFacts DEF Typed, Target, Widget
<1>2. Target'.kind = Target.kind
  BY <1>1 DEF Target
<1>3. Tap(backend, Target)' = Tap(backend, Target)
  BY <1>2 DEF Tap, GtkSignals, Win32Commands, AndroidEvents
<1> QED
  BY <1>2, <1>3 DEF DrivenAsByHand

(* The drain frees only what is of widgets that are gone.                  *)
LEMMA DrainGraveyardInv ==
  ASSUME IInv, DrainGraveyard
  PROVE  IInv'
<1>1. Typed'
  BY DriverAssumption, RequestFacts DEF IInv, Typed, CallType, Places, Idle, DrainGraveyard, UiFree
<1>2. ThreadsApart'
  BY DriverAssumption, RequestFacts DEF IInv, ThreadsApart, Typed, Hop, HopBackends, Threads, Idle, CallType, DrainGraveyard, UiFree
<1>3. ModifiersApart'
  BY DriverAssumption, RequestFacts DEF IInv, ModifiersApart, Typed, ThreadsApart, ModifiersOfTheClickOnly, Hop, HopBackends, Threads, Idle, CallType, DrainGraveyard, UiFree
<1>4. BoxesOfTheGone'
  BY DriverAssumption, RequestFacts DEF IInv, BoxesOfTheGone, Typed, ThreadsApart, Threads, Idle, CallType, Hop, HopBackends, DrainGraveyard, UiFree
<1>5. ListedAsItIs'
  BY DriverAssumption, RequestFacts DEF IInv, ListedAsItIs, Typed, ThreadsApart, DrivenEffectsLaidOut, Hop, HopBackends, Threads, DrainGraveyard, UiFree
<1>6. DrivenAsByHand'
  BY DriverAssumption, RequestFacts DEF IInv, DrivenAsByHand, Typed, ThreadsApart, Target, DrainGraveyard, UiFree
<1> QED
  BY <1>1, <1>2, <1>3, <1>4, <1>5, <1>6 DEF IInv

(* The innermost call of a thread ends.                                    *)
LEMMA ClosureReturnsInv ==
  ASSUME IInv, NEW t \in Threads, ClosureReturns(t)
  PROVE  IInv'
<1>1. Typed'
  BY DriverAssumption, RequestFacts DEF IInv, Typed, CallType, Places, Idle, ClosureReturns
<1>2. ThreadsApart'
  BY DriverAssumption, RequestFacts DEF IInv, ThreadsApart, Typed, Hop, HopBackends, Threads, Idle, CallType, ClosureReturns
<1>3. ModifiersApart'
  BY DriverAssumption, RequestFacts DEF IInv, ModifiersApart, Typed, ThreadsApart, ModifiersOfTheClickOnly, Hop, HopBackends, Threads, Idle, CallType, ClosureReturns
<1>4. BoxesOfTheGone'
  BY DriverAssumption, RequestFacts DEF IInv, BoxesOfTheGone, Typed, ThreadsApart, Threads, Idle, CallType, Hop, HopBackends, ClosureReturns
<1>5. ListedAsItIs'
  BY DriverAssumption, RequestFacts DEF IInv, ListedAsItIs, Typed, ThreadsApart, DrivenEffectsLaidOut, Hop, HopBackends, Threads, ClosureReturns
<1>6. DrivenAsByHand'
  BY DriverAssumption, RequestFacts DEF IInv, DrivenAsByHand, Typed, ThreadsApart, Target, ClosureReturns
<1> QED
  BY <1>1, <1>2, <1>3, <1>4, <1>5, <1>6 DEF IInv

(* A person's click is a call with no modifiers of the driver's.           *)
LEMMA PersonClicksInv ==
  ASSUME IInv, NEW h \in Handles, PersonClicks(h)
  PROVE  IInv'
<1>1. Typed'
  <2> DEFINE v == IF widgets[h].value \in {0, 1} /\ widgets[h].kind = "toggle"
                  THEN 1 - widgets[h].value ELSE widgets[h].value
  <2>1. v \in {0, 1} /\ widgets' = [widgets EXCEPT ![h].value = v]
    BY DEF PersonClicks, IInv, Typed, Widget
  <2> HIDE DEF v
  <2>2. widgets' \in [Handles -> Widget]
    BY <2>1, WidgetChanged DEF IInv, Typed
  <2>3. calls' \in [Threads -> CallType]
    BY DEF PersonClicks, Call, IInv, Typed, CallType, Threads
  <2> QED
    BY <2>2, <2>3 DEF IInv, Typed, PersonClicks
<1>2. ThreadsApart'
  BY DriverAssumption, RequestFacts DEF IInv, ThreadsApart, Typed, Hop, HopBackends, Threads, Idle, CallType, PersonClicks, Act, Call, UiFree, OnUi
<1>3. ModifiersApart'
  BY DriverAssumption, RequestFacts DEF IInv, ModifiersApart, Typed, ThreadsApart, ModifiersOfTheClickOnly, Hop, HopBackends, Threads, Idle, CallType, PersonClicks, Act, Call, UiFree, OnUi
<1>4. BoxesOfTheGone'
  BY DriverAssumption, RequestFacts DEF IInv, BoxesOfTheGone, Typed, ThreadsApart, Threads, Idle, CallType, Hop, HopBackends, PersonClicks, Act, Call, UiFree, OnUi
<1>5. ListedAsItIs'
  BY DriverAssumption, RequestFacts DEF IInv, ListedAsItIs, Typed, ThreadsApart, DrivenEffectsLaidOut, Hop, HopBackends, Threads, PersonClicks, Act, Call, UiFree, OnUi
<1>6. DrivenAsByHand'
  <2> DEFINE v == IF widgets[h].value \in {0, 1} /\ widgets[h].kind = "toggle"
                  THEN 1 - widgets[h].value ELSE widgets[h].value
  <2>1. v \in {0, 1} /\ widgets' = [widgets EXCEPT ![h].value = v]
    BY DEF PersonClicks, IInv, Typed, Widget
  <2> HIDE DEF v
  <2> QED
    BY <2>1, WidgetChanged, ByHandKept DEF IInv, Typed, PersonClicks
<1> QED
  BY <1>1, <1>2, <1>3, <1>4, <1>5, <1>6 DEF IInv

(* A seal changes no value, life or call.                                  *)
LEMMA SealWidgetInv ==
  ASSUME IInv, NEW h \in Handles, SealWidget(h)
  PROVE  IInv'
<1>1. Typed'
  BY WidgetChanged DEF IInv, Typed, SealWidget
<1>2. ThreadsApart'
  BY DriverAssumption, RequestFacts DEF IInv, ThreadsApart, Typed, Hop, HopBackends, Threads, Idle, CallType, SealWidget
<1>3. ModifiersApart'
  BY DriverAssumption, RequestFacts DEF IInv, ModifiersApart, Typed, ThreadsApart, ModifiersOfTheClickOnly, Hop, HopBackends, Threads, Idle, CallType, SealWidget
<1>4. BoxesOfTheGone'
  BY DriverAssumption, RequestFacts DEF IInv, BoxesOfTheGone, Typed, ThreadsApart, Threads, Idle, CallType, Hop, HopBackends, SealWidget
<1>5. ListedAsItIs'
  BY DriverAssumption, RequestFacts DEF IInv, ListedAsItIs, Typed, ThreadsApart, DrivenEffectsLaidOut, Hop, HopBackends, Threads, SealWidget
<1>6. DrivenAsByHand'
  BY WidgetChanged, ByHandKept DEF IInv, Typed, SealWidget
<1> QED
  BY <1>1, <1>2, <1>3, <1>4, <1>5, <1>6 DEF IInv

(* The platform's frame pays what layout is owed.                          *)
LEMMA FrameLaysOutInv ==
  ASSUME IInv, FrameLaysOut
  PROVE  IInv'
<1>1. Typed'
  BY DriverAssumption, RequestFacts DEF IInv, Typed, CallType, Places, Idle, FrameLaysOut
<1>2. ThreadsApart'
  BY DriverAssumption, RequestFacts DEF IInv, ThreadsApart, Typed, Hop, HopBackends, Threads, Idle, CallType, FrameLaysOut
<1>3. ModifiersApart'
  BY DriverAssumption, RequestFacts DEF IInv, ModifiersApart, Typed, ThreadsApart, ModifiersOfTheClickOnly, Hop, HopBackends, Threads, Idle, CallType, FrameLaysOut
<1>4. BoxesOfTheGone'
  BY DriverAssumption, RequestFacts DEF IInv, BoxesOfTheGone, Typed, ThreadsApart, Threads, Idle, CallType, Hop, HopBackends, FrameLaysOut
<1>5. ListedAsItIs'
  BY DriverAssumption, RequestFacts DEF IInv, ListedAsItIs, Typed, ThreadsApart, DrivenEffectsLaidOut, Hop, HopBackends, Threads, FrameLaysOut
<1>6. DrivenAsByHand'
  BY DriverAssumption, RequestFacts DEF IInv, DrivenAsByHand, Typed, ThreadsApart, Target, FrameLaysOut
<1> QED
  BY <1>1, <1>2, <1>3, <1>4, <1>5, <1>6 DEF IInv

(* A request starts with nothing seen and no outcome.                      *)
LEMMA AcceptInv ==
  ASSUME IInv, NEW r \in Requests, Accept(r)
  PROVE  IInv'
<1>1. Typed'
  BY DriverAssumption, RequestFacts, WaitingFacts DEF IInv, Typed, CallType, Places, Idle, Accept, Waiting, tree
<1>2. ThreadsApart'
  BY DriverAssumption, RequestFacts, WaitingFacts DEF IInv, ThreadsApart, Typed, Hop, HopBackends, Threads, Idle, CallType, Accept, Waiting, tree
<1>3. ModifiersApart'
  BY DriverAssumption, RequestFacts, WaitingFacts DEF IInv, ModifiersApart, Typed, ThreadsApart, ModifiersOfTheClickOnly, Hop, HopBackends, Threads, Idle, CallType, Accept, Waiting, tree
<1>4. BoxesOfTheGone'
  BY DriverAssumption, RequestFacts, WaitingFacts DEF IInv, BoxesOfTheGone, Typed, ThreadsApart, Threads, Idle, CallType, Hop, HopBackends, Accept, Waiting, tree
<1>5. ListedAsItIs'
  BY DriverAssumption, RequestFacts, WaitingFacts DEF IInv, ListedAsItIs, Typed, ThreadsApart, DrivenEffectsLaidOut, Hop, HopBackends, Threads, Accept, Waiting, tree
<1>6. DrivenAsByHand'
  BY DriverAssumption, RequestFacts, WaitingFacts DEF IInv, DrivenAsByHand, Typed, ThreadsApart, Target, Accept, Waiting, tree
<1> QED
  BY <1>1, <1>2, <1>3, <1>4, <1>5, <1>6 DEF IInv

(* A request that hops takes the UI thread only when it is free.           *)
LEMMA HoppedInv ==
  ASSUME IInv, Hopped
  PROVE  IInv'
<1>1. Typed'
  BY DriverAssumption, RequestFacts DEF IInv, Typed, CallType, Places, Idle, Hopped, HopSettles
<1>2. ThreadsApart'
  BY DriverAssumption, RequestFacts DEF IInv, ThreadsApart, Typed, Hop, HopBackends, Threads, Idle, CallType, Hopped, HopSettles
<1>3. ModifiersApart'
  BY DriverAssumption, RequestFacts DEF IInv, ModifiersApart, Typed, ThreadsApart, ModifiersOfTheClickOnly, Hop, HopBackends, Threads, Idle, CallType, Hopped, HopSettles
<1>4. BoxesOfTheGone'
  BY DriverAssumption, RequestFacts DEF IInv, BoxesOfTheGone, Typed, ThreadsApart, Threads, Idle, CallType, Hop, HopBackends, Hopped, HopSettles
<1>5. ListedAsItIs'
  BY DriverAssumption, RequestFacts DEF IInv, ListedAsItIs, Typed, ThreadsApart, DrivenEffectsLaidOut, Hop, HopBackends, Threads, Hopped, HopSettles
<1>6. DrivenAsByHand'
  BY DriverAssumption, RequestFacts DEF IInv, DrivenAsByHand, Typed, ThreadsApart, Target, Hopped, HopSettles
<1> QED
  BY <1>1, <1>2, <1>3, <1>4, <1>5, <1>6 DEF IInv

(* What is received is what was sent.                                      *)
LEMMA ReceivedInv ==
  ASSUME IInv, Received
  PROVE  IInv'
<1>1. Typed'
  BY DriverAssumption, RequestFacts DEF IInv, Typed, CallType, Places, Idle, Received, tree
<1>2. ThreadsApart'
  BY DriverAssumption, RequestFacts DEF IInv, ThreadsApart, Typed, Hop, HopBackends, Threads, Idle, CallType, Received, tree
<1>3. ModifiersApart'
  BY DriverAssumption, RequestFacts DEF IInv, ModifiersApart, Typed, ThreadsApart, ModifiersOfTheClickOnly, Hop, HopBackends, Threads, Idle, CallType, Received, tree
<1>4. BoxesOfTheGone'
  BY DriverAssumption, RequestFacts DEF IInv, BoxesOfTheGone, Typed, ThreadsApart, Threads, Idle, CallType, Hop, HopBackends, Received, tree
<1>5. ListedAsItIs'
  BY DriverAssumption, RequestFacts DEF IInv, ListedAsItIs, Typed, ThreadsApart, DrivenEffectsLaidOut, Hop, HopBackends, Threads, Received, tree
<1>6. DrivenAsByHand'
  BY DriverAssumption, RequestFacts DEF IInv, DrivenAsByHand, Typed, ThreadsApart, Target, Received, tree
<1> QED
  BY <1>1, <1>2, <1>3, <1>4, <1>5, <1>6 DEF IInv

(* A client that is gone leaves the server waiting.                        *)
LEMMA DisconnectedInv ==
  ASSUME IInv, Disconnected
  PROVE  IInv'
<1>1. Typed'
  BY DriverAssumption, RequestFacts, WaitingFacts DEF IInv, Typed, CallType, Places, Idle, Disconnected, Waiting, tree
<1>2. ThreadsApart'
  BY DriverAssumption, RequestFacts, WaitingFacts DEF IInv, ThreadsApart, Typed, Hop, HopBackends, Threads, Idle, CallType, Disconnected, Waiting, tree
<1>3. ModifiersApart'
  BY DriverAssumption, RequestFacts, WaitingFacts DEF IInv, ModifiersApart, Typed, ThreadsApart, ModifiersOfTheClickOnly, Hop, HopBackends, Threads, Idle, CallType, Disconnected, Waiting, tree
<1>4. BoxesOfTheGone'
  BY DriverAssumption, RequestFacts, WaitingFacts DEF IInv, BoxesOfTheGone, Typed, ThreadsApart, Threads, Idle, CallType, Hop, HopBackends, Disconnected, Waiting, tree
<1>5. ListedAsItIs'
  BY DriverAssumption, RequestFacts, WaitingFacts DEF IInv, ListedAsItIs, Typed, ThreadsApart, DrivenEffectsLaidOut, Hop, HopBackends, Threads, Disconnected, Waiting, tree
<1>6. DrivenAsByHand'
  BY DriverAssumption, RequestFacts, WaitingFacts DEF IInv, DrivenAsByHand, Typed, ThreadsApart, Target, Disconnected, Waiting, tree
<1> QED
  BY <1>1, <1>2, <1>3, <1>4, <1>5, <1>6 DEF IInv

(* A listing reads one more widget of the same tree.                       *)
LEMMA ListOneInv ==
  ASSUME IInv, ListOne
  PROVE  IInv'
<1>1. Typed'
  BY DriverAssumption, RequestFacts DEF IInv, Typed, CallType, Places, Idle, ListOne, ReadSettles
<1>2. ThreadsApart'
  BY DriverAssumption, RequestFacts DEF IInv, ThreadsApart, Typed, Hop, HopBackends, Threads, Idle, CallType, ListOne, ReadSettles
<1>3. ModifiersApart'
  BY DriverAssumption, RequestFacts DEF IInv, ModifiersApart, Typed, ThreadsApart, ModifiersOfTheClickOnly, Hop, HopBackends, Threads, Idle, CallType, ListOne, ReadSettles
<1>4. BoxesOfTheGone'
  BY DriverAssumption, RequestFacts DEF IInv, BoxesOfTheGone, Typed, ThreadsApart, Threads, Idle, CallType, Hop, HopBackends, ListOne, ReadSettles
<1>5. ListedAsItIs'
  <2>1. PICK h \in http.left : http' = [http EXCEPT !.left = @ \ {h},
                                           !.seen = @ \cup {<<version, ReadSettles>>}]
    BY DEF ListOne
  <2>2. /\ http'.at = http.at /\ http'.seen = http.seen \cup {<<version, ReadSettles>>}
        /\ http.at = "list" /\ version' = version /\ backend' = backend
        /\ owed' = ReadSettles /\ ReadSettles = IF backend = "win32" THEN {} ELSE owed
    BY <2>1 DEF ListOne, IInv, Typed, ReadSettles
  <2>3. ReadSettles \cap Verbs \subseteq IF backend = "android" THEN Direct ELSE {}
    BY <2>2 DEF IInv, Typed, Backend3, ListedAsItIs
  <2>4. DrivenEffectsLaidOut'
    <3>1. <<version, ReadSettles>>[2] = ReadSettles
      OBVIOUS
    <3> QED
      BY <2>2, <2>3, <3>1 DEF DrivenEffectsLaidOut, IInv, ListedAsItIs
  <2>5. Hop' => \A s \in http'.seen : s[1] = version'
    BY <2>2 DEF Hop, IInv, ListedAsItIs
  <2> QED
    BY <2>2, <2>4, <2>5 DEF IInv, ListedAsItIs
<1>6. DrivenAsByHand'
  BY DriverAssumption, RequestFacts DEF IInv, DrivenAsByHand, Typed, ThreadsApart, Target, ListOne, ReadSettles
<1> QED
  BY <1>1, <1>2, <1>3, <1>4, <1>5, <1>6 DEF IInv

(* A listing that is complete is answered.                                 *)
LEMMA ListedInv ==
  ASSUME IInv, Listed
  PROVE  IInv'
<1>1. Typed'
  BY DriverAssumption, RequestFacts, WaitingFacts DEF IInv, Typed, CallType, Places, Idle, Listed, Waiting, tree
<1>2. ThreadsApart'
  BY DriverAssumption, RequestFacts, WaitingFacts DEF IInv, ThreadsApart, Typed, Hop, HopBackends, Threads, Idle, CallType, Listed, Waiting, tree
<1>3. ModifiersApart'
  BY DriverAssumption, RequestFacts, WaitingFacts DEF IInv, ModifiersApart, Typed, ThreadsApart, ModifiersOfTheClickOnly, Hop, HopBackends, Threads, Idle, CallType, Listed, Waiting, tree
<1>4. BoxesOfTheGone'
  BY DriverAssumption, RequestFacts, WaitingFacts DEF IInv, BoxesOfTheGone, Typed, ThreadsApart, Threads, Idle, CallType, Hop, HopBackends, Listed, Waiting, tree
<1>5. ListedAsItIs'
  BY DriverAssumption, RequestFacts, WaitingFacts DEF IInv, ListedAsItIs, Typed, ThreadsApart, DrivenEffectsLaidOut, Hop, HopBackends, Threads, Listed, Waiting, tree
<1>6. DrivenAsByHand'
  BY DriverAssumption, RequestFacts, WaitingFacts DEF IInv, DrivenAsByHand, Typed, ThreadsApart, Target, Listed, Waiting, tree
<1> QED
  BY <1>1, <1>2, <1>3, <1>4, <1>5, <1>6 DEF IInv

(* Modifiers wait for the next click and show in no call.                  *)
LEMMA SetModifiersInv ==
  ASSUME IInv, SetModifiers
  PROVE  IInv'
<1>1. Typed'
  BY DriverAssumption, RequestFacts DEF IInv, Typed, CallType, Places, Idle, SetModifiers, tree
<1>2. ThreadsApart'
  BY DriverAssumption, RequestFacts DEF IInv, ThreadsApart, Typed, Hop, HopBackends, Threads, Idle, CallType, SetModifiers, tree
<1>3. ModifiersApart'
  BY DriverAssumption, RequestFacts DEF IInv, ModifiersApart, Typed, ThreadsApart, ModifiersOfTheClickOnly, Hop, HopBackends, Threads, Idle, CallType, SetModifiers, tree
<1>4. BoxesOfTheGone'
  BY DriverAssumption, RequestFacts DEF IInv, BoxesOfTheGone, Typed, ThreadsApart, Threads, Idle, CallType, Hop, HopBackends, SetModifiers, tree
<1>5. ListedAsItIs'
  BY DriverAssumption, RequestFacts DEF IInv, ListedAsItIs, Typed, ThreadsApart, DrivenEffectsLaidOut, Hop, HopBackends, Threads, SetModifiers, tree
<1>6. DrivenAsByHand'
  BY DriverAssumption, RequestFacts DEF IInv, DrivenAsByHand, Typed, ThreadsApart, Target, SetModifiers, tree
<1> QED
  BY <1>1, <1>2, <1>3, <1>4, <1>5, <1>6 DEF IInv

(* The answer ends the request, with no call of the driver's under way.    *)
LEMMA AnswerInv ==
  ASSUME IInv, Answer
  PROVE  IInv'
<1>1. Typed'
  BY DriverAssumption, RequestFacts, WaitingFacts DEF IInv, Typed, CallType, Places, Idle, Answer, Waiting, Unset, ActionSettles, Busy
<1>2. ThreadsApart'
  BY DriverAssumption, RequestFacts, WaitingFacts DEF IInv, ThreadsApart, Typed, Hop, HopBackends, Threads, Idle, CallType, Answer, Waiting, Unset, ActionSettles, Busy
<1>3. ModifiersApart'
  BY DriverAssumption, RequestFacts, WaitingFacts DEF IInv, ModifiersApart, Typed, ThreadsApart, ModifiersOfTheClickOnly, Hop, HopBackends, Threads, Idle, CallType, Answer, Waiting, Unset, ActionSettles, Busy
<1>4. BoxesOfTheGone'
  BY DriverAssumption, RequestFacts, WaitingFacts DEF IInv, BoxesOfTheGone, Typed, ThreadsApart, Threads, Idle, CallType, Hop, HopBackends, Answer, Waiting, Unset, ActionSettles, Busy
<1>5. ListedAsItIs'
  BY DriverAssumption, RequestFacts, WaitingFacts DEF IInv, ListedAsItIs, Typed, ThreadsApart, DrivenEffectsLaidOut, Hop, HopBackends, Threads, Answer, Waiting, Unset, ActionSettles, Busy
<1>6. DrivenAsByHand'
  BY DriverAssumption, RequestFacts, WaitingFacts DEF IInv, DrivenAsByHand, Typed, ThreadsApart, Target, Answer, Waiting, Unset, ActionSettles, Busy
<1> QED
  BY <1>1, <1>2, <1>3, <1>4, <1>5, <1>6 DEF IInv

(* A posted closure that returns answers its request.                      *)
LEMMA PostedReturnInv ==
  ASSUME IInv, PostedReturn
  PROVE  IInv'
<1>1. Typed'
  <2>1. Head(posted) \in Handles /\ posted' \in Seq(Handles) /\ backend = "win32"
    BY DEF IInv, Typed, PostedReturn
  <2>2. [box |-> Head(posted), by |-> "post", emission |-> FALSE, mods |-> override] \in CallType
    BY <2>1 DEF IInv, Typed, CallType
  <2>3. calls' \in [Threads -> CallType]
    BY <2>2 DEF PostedReturn, Call, IInv, Typed, Threads
  <2> QED
    BY <2>1, <2>3 DEF IInv, Typed, PostedReturn, tree
<1>2. ThreadsApart'
  <2>1. backend = "win32" /\ ~Hop /\ Head(posted) \in Handles
    BY DEF IInv, Typed, PostedReturn, Hop, HopBackends
  <2>2. \A t \in Threads : calls'[t].by = "driver" => calls[t].by = "driver"
    BY <2>1 DEF PostedReturn, Call, IInv, Typed, CallType, Threads
  <2> QED
    BY <2>1, <2>2 DEF IInv, ThreadsApart, PostedReturn, tree, Hop
<1>3. ModifiersApart'
  BY DriverAssumption, RequestFacts DEF IInv, ModifiersApart, Typed, ThreadsApart, ModifiersOfTheClickOnly, Hop, HopBackends, Threads, Idle, CallType, PostedReturn, Call, UiFree, OnUi, tree
<1>4. BoxesOfTheGone'
  BY DriverAssumption, RequestFacts DEF IInv, BoxesOfTheGone, Typed, ThreadsApart, Threads, Idle, CallType, Hop, HopBackends, PostedReturn, Call, UiFree, OnUi, tree
<1>5. ListedAsItIs'
  BY DriverAssumption, RequestFacts DEF IInv, ListedAsItIs, Typed, ThreadsApart, DrivenEffectsLaidOut, Hop, HopBackends, Threads, PostedReturn, Call, UiFree, OnUi, tree
<1>6. DrivenAsByHand'
  BY DriverAssumption, RequestFacts DEF IInv, DrivenAsByHand, Typed, ThreadsApart, Target, PostedReturn, Call, UiFree, OnUi, tree
<1> QED
  BY <1>1, <1>2, <1>3, <1>4, <1>5, <1>6 DEF IInv

(* A widget goes: its box is freed at once only where no signal of it is   *)
(* being emitted.                                                          *)
LEMMA RemoveFacts ==
  ASSUME IInv, NEW h \in Handles, NEW who, Remove(h, who), backend' = backend, calls' = calls
  PROVE  /\ widgets' \in [Handles -> Widget]
         /\ \A k \in Handles : widgets'[k].kind = widgets[k].kind
         /\ BoxesOfTheGone'
<1>1. widgets' = [widgets EXCEPT ![h].live = FALSE] /\ widgets \in [Handles -> Widget]
  BY DEF Remove, IInv, Typed
<1>2. /\ widgets' \in [Handles -> Widget]
      /\ \A k \in Handles : /\ widgets'[k].kind = widgets[k].kind
                            /\ widgets'[k].live => k # h /\ widgets[k].live
  BY <1>1, WidgetChanged
<1>3. BoxesOfTheGone /\ backend \in Backend3
  BY DEF IInv, Typed
<1>8. ASSUME grave' \cup freed' \subseteq grave \cup freed \cup {h}
      PROVE  /\ grave' \cup freed' \subseteq Handles
             /\ \A k \in grave' \cup freed' : ~widgets'[k].live
  <2>1. ~widgets'[h].live /\ \A k \in Handles : ~widgets[k].live => ~widgets'[k].live
    BY <1>2
  <2>2. /\ grave \cup freed \subseteq Handles
        /\ \A k \in grave \cup freed : ~widgets[k].live
    BY <1>3 DEF BoxesOfTheGone
  <2>3. \A k \in grave' \cup freed' : k = h \/ k \in grave \cup freed
    BY <1>8
  <2> QED
    BY <2>1, <2>2, <2>3
<1>7. calls'["ui"] = calls["ui"] /\ backend' = backend
  OBVIOUS
<1>4. CASE backend = "gtk"
  <2>1. GtkRelease(h)
    BY <1>4 DEF Remove
  <2>2. "ui" \in Threads
    BY DEF Threads
  <2>3. ASSUME calls["ui"].emission
        PROVE  calls["ui"].box \notin freed'
    <3>1. calls["ui"].box \notin freed
      BY <1>3, <1>4, <2>3 DEF BoxesOfTheGone
    <3>2. CASE calls["ui"].box = h
      BY <2>1, <2>2, <2>3, <3>1, <3>2 DEF GtkRelease
    <3>3. CASE calls["ui"].box # h
      BY <2>1, <3>1, <3>3 DEF GtkRelease
    <3> QED
      BY <3>2, <3>3
  <2>4. calls["ui"].by \in {"person", "post"} => calls["ui"].emission
    BY <1>3, <1>4 DEF BoxesOfTheGone
  <2>5. grave' \cup freed' \subseteq grave \cup freed \cup {h}
    BY <2>1 DEF GtkRelease
  <2>6. /\ grave' \cup freed' \subseteq Handles
        /\ \A k \in grave' \cup freed' : ~widgets'[k].live
    BY <1>8, <2>5
  <2> QED
    BY <1>2, <1>4, <1>7, <2>3, <2>4, <2>6 DEF BoxesOfTheGone
<1>5. CASE backend = "win32"
  <2>1. grave' = grave \cup {h} /\ freed' = freed
    BY <1>5 DEF Remove, Win32Release
  <2>2. calls["ui"].box \notin freed
    BY <1>3, <1>5 DEF BoxesOfTheGone
  <2>5. grave' \cup freed' \subseteq grave \cup freed \cup {h}
    BY <2>1
  <2>6. /\ grave' \cup freed' \subseteq Handles
        /\ \A k \in grave' \cup freed' : ~widgets'[k].live
    BY <1>8, <2>5
  <2> QED
    BY <1>2, <1>5, <1>7, <2>1, <2>2, <2>6 DEF BoxesOfTheGone
<1>6. CASE backend = "android"
  <2>1. grave' = grave /\ freed' = freed
    BY <1>6 DEF Remove, AndroidRelease
  <2>2. grave \cup freed = {}
    BY <1>3, <1>6 DEF BoxesOfTheGone
  <2> QED
    BY <1>2, <1>6, <1>7, <2>1, <2>2 DEF BoxesOfTheGone
<1> QED
  BY <1>2, <1>3, <1>4, <1>5, <1>6 DEF Backend3

(* A closure that removes its own widget has its box put in the graveyard, *)
(* not freed.                                                              *)
LEMMA ClosureRebuildsInv ==
  ASSUME IInv, NEW t \in Threads, ClosureRebuilds(t)
  PROVE  IInv'
<1> DEFINE h == calls[t].box
           who == IF calls[t].by = "driver" THEN http.req.verb ELSE "app"
<1>1. /\ h \in Handles /\ Remove(h, who)
      /\ UNCHANGED <<backend, calls, override, http, posted, bounds>>
  BY DEF ClosureRebuilds, IInv, Typed, CallType
<1>2. owed' = owed \cup {who}
  BY <1>1 DEF Remove
<1>3. Hop => http.at \notin {"recv", "list", "route"}
  BY DEF ClosureRebuilds, IInv, ThreadsApart, Idle, Threads
<1>4. "app" \notin Verbs /\ (who \in Verbs => http.at = "answer" /\ who = http.req.verb)
  BY DEF Verbs, Enveloped, OwnReply, Direct, IInv, ThreadsApart
<1> HIDE DEF h, who
<1>5. /\ widgets' \in [Handles -> Widget] /\ BoxesOfTheGone'
      /\ \A k \in Handles : widgets'[k].kind = widgets[k].kind
  BY <1>1, RemoveFacts
<1>6. Typed' /\ ThreadsApart' /\ ModifiersApart'
  BY <1>1, <1>5
     DEF IInv, Typed, ThreadsApart, ModifiersApart, ModifiersOfTheClickOnly, Hop
<1>7. ListedAsItIs'
  BY <1>1, <1>2, <1>3, <1>4
     DEF IInv, Typed, ListedAsItIs, DrivenEffectsLaidOut, Hop, HopBackends
<1>8. DrivenAsByHand'
  BY <1>1, <1>5, ByHandKept DEF IInv
<1> QED
  BY <1>5, <1>6, <1>7, <1>8 DEF IInv

(* The application removes a widget when the UI thread is free.            *)
LEMMA AppRemovesInv ==
  ASSUME IInv, NEW h \in Handles, AppRemoves(h)
  PROVE  IInv'
<1>1. /\ Remove(h, "app") /\ UiFree
      /\ UNCHANGED <<backend, calls, override, http, posted>>
  BY DEF AppRemoves
<1>2. owed' = owed \cup {"app"} /\ "app" \notin Verbs
  BY <1>1 DEF Remove, Verbs, Enveloped, OwnReply, Direct
<1>3. Hop => http.at \notin {"recv", "list", "route"}
  BY <1>1 DEF UiFree, OnUi
<1>4. /\ widgets' \in [Handles -> Widget] /\ BoxesOfTheGone'
      /\ \A k \in Handles : widgets'[k].kind = widgets[k].kind
  BY <1>1, RemoveFacts
<1>5. Typed' /\ ThreadsApart' /\ ModifiersApart'
  BY <1>1, <1>4
     DEF IInv, Typed, ThreadsApart, ModifiersApart, ModifiersOfTheClickOnly, Hop
<1>6. ListedAsItIs'
  BY <1>1, <1>2, <1>3
     DEF IInv, Typed, ListedAsItIs, DrivenEffectsLaidOut, Hop, HopBackends
<1>7. DrivenAsByHand'
  BY <1>1, <1>4, ByHandKept DEF IInv
<1> QED
  BY <1>4, <1>5, <1>6, <1>7 DEF IInv

(* An action's effect on its widget, and the closure it starts: of a live  *)
(* widget wherever a box of a dead one could be freed already.             *)
LEMMA ApplyInv ==
  ASSUME IInv, http.at = "route", NEW t \in Threads, Hop => t = "ui", NEW o \in Result,
         NEW emission \in BOOLEAN, Apply(t, o, emission),
         o.ran # {} /\ backend = "win32" => Target.live,
         o.ran # {} /\ backend = "gtk" /\ emission => Target.live,
         UNCHANGED <<backend, version, owed, grave, freed, override>>,
         posted' \in Seq(Handles), backend # "win32" => posted' = <<>>,
         o.result = 0 /\ http.req.verb \in {"click", "toggle", "set_text"} =>
           RunsByHand(backend, http.req.verb, Target, o.ran)
  PROVE  IInv'
<1> DEFINE h == http.req.w
           new == [box |-> h, by |-> "driver", emission |-> emission, mods |-> override]
<1>1. h \in Handles /\ Target = widgets[h] /\ widgets \in [Handles -> Widget]
      /\ o.value \in {0, 1}
  BY RequestFacts DEF IInv, Typed, Target, Result
<1>2. /\ widgets' = [widgets EXCEPT ![h].value = o.value]
      /\ calls' = IF o.ran # {} THEN [calls EXCEPT ![t] = new] ELSE calls
      /\ http' = [http EXCEPT !.at = "answer", !.outcome = o]
  BY DEF Apply, Call
<1>3. /\ http'.at = "answer" /\ http'.outcome = o /\ http'.req = http.req
      /\ http'.seen = http.seen /\ http'.left = http.left
      /\ http' = [at |-> http'.at, req |-> http'.req, seen |-> http'.seen, left |-> http'.left,
                  outcome |-> http'.outcome]
  BY <1>2 DEF IInv, Typed
<1>4. new \in CallType
  BY <1>1 DEF CallType, IInv, Typed
<1>5. /\ new.box = h /\ new.by = "driver" /\ new.emission = emission /\ new.mods = override
  OBVIOUS
<1>6. /\ widgets' \in [Handles -> Widget]
      /\ \A k \in Handles : /\ widgets'[k].kind = widgets[k].kind
                            /\ widgets'[k].live = widgets[k].live
  BY <1>1, <1>2, ValueChanged
<1> HIDE DEF h, new
<1>7. /\ calls' \in [Threads -> CallType]
      /\ \A u \in Threads : \/ calls'[u] = calls[u]
                            \/ u = t /\ o.ran # {} /\ calls'[u] = new
  BY <1>2, <1>4 DEF IInv, Typed
<1>8. Typed'
  BY <1>3, <1>6, <1>7 DEF IInv, Typed, Places
<1>9. ThreadsApart'
  BY <1>3, <1>7 DEF IInv, ThreadsApart, Threads, Hop
<1>10. ModifiersApart'
  BY <1>3, <1>5, <1>7 DEF IInv, ModifiersApart, ModifiersOfTheClickOnly, Hop
<1>11. BoxesOfTheGone'
  <2>1. calls'["ui"] = calls["ui"] \/ (o.ran # {} /\ calls'["ui"] = new)
    BY <1>7 DEF Threads
  <2> QED
    BY <1>1, <1>5, <1>6, <2>1 DEF IInv, BoxesOfTheGone
<1>12. ListedAsItIs'
  BY <1>3 DEF IInv, ListedAsItIs, DrivenEffectsLaidOut, Hop
<1>13. DrivenAsByHand'
  <2>1. Target' = widgets'[h] /\ Target'.kind = Target.kind
    BY <1>1, <1>3, <1>6 DEF Target, h
  <2>2. Tap(backend, Target)' = Tap(backend, Target)
    BY <2>1 DEF Tap, GtkSignals, Win32Commands, AndroidEvents
  <2> QED
    BY <1>3, <2>1, <2>2 DEF DrivenAsByHand, RunsByHand
<1> QED
  BY <1>8, <1>9, <1>10, <1>11, <1>12, <1>13 DEF IInv

(* A verb on the UI thread: its outcome, its calls and what it posts.      *)
LEMMA DispatchedInv ==
  ASSUME IInv, Dispatched
  PROVE  IInv'
<1> DEFINE o == Perform(backend, http.req.verb, Target, http.req.arg)
           emission == backend = "gtk" /\ Target.kind # "row"
<1>1. /\ http.at = "route" /\ http.req.verb \in Verbs \ Direct /\ http.req.w \in Handles
      /\ http.req.arg \in {0, 1} /\ Target \in Widget /\ backend \in Backend3
  BY RequestFacts DEF Dispatched, IInv, Typed, Target
<1>2. /\ Sound(backend, http.req.verb, Target, o)
      /\ backend = "win32" /\ o.ran # {} => Target.live
  BY <1>1, PerformSound
<1>3. o.result = 0 /\ http.req.verb \in {"click", "toggle", "set_text"} =>
        RunsByHand(backend, http.req.verb, Target, o.ran)
  BY <1>1, PerformByHand
<1>4. /\ Apply("ui", o, emission)
      /\ posted' = IF o.posted THEN Append(posted, http.req.w) ELSE posted
      /\ UNCHANGED <<backend, version, owed, grave, freed, override>>
  BY DEF Dispatched
<1> HIDE DEF o
<1>5. posted' \in Seq(Handles) /\ (backend # "win32" => posted' = <<>>)
  BY <1>1, <1>2, <1>4 DEF Sound, IInv, Typed
<1>6. o.ran # {} /\ backend = "gtk" /\ emission => Target.live
  BY <1>2 DEF Sound
<1>7. emission \in BOOLEAN /\ o \in Result /\ "ui" \in Threads
  BY <1>2 DEF Sound, Threads
<1> HIDE DEF emission
<1> QED
  BY <1>1, <1>2, <1>3, <1>4, <1>5, <1>6, <1>7, ApplyInv

(* double_click, drop, scroll and undo run a live widget's closure only.   *)
LEMMA DirectFacts ==
  ASSUME NEW v \in Direct, NEW w \in Widget
  PROVE  /\ FireDirect(v, w) \in Result /\ FireDirect(v, w).value = w.value
         /\ FireDirect(v, w).ran # {} => w.live
<1>1. w.kind \in Kinds /\ w.value \in {0, 1}
  BY DEF Widget
<1>2. \E c : FireDirect(v, w) = Fire(w, c) \/ FireDirect(v, w) = Nothing(w)
  BY DEF FireDirect, Direct
<1> QED
  BY <1>1, <1>2, OutcomeFacts DEF Fire

(* A verb that runs closures on the HTTP thread.                           *)
LEMMA CalledDirectlyInv ==
  ASSUME IInv, CalledDirectly
  PROVE  IInv'
<1> DEFINE t == IF http.req.verb \in Win32Hops THEN "ui" ELSE Here
           o == FireDirect(http.req.verb, Target)
<1>1. /\ http.at = "route" /\ http.req.verb \in Direct /\ Target \in Widget
  BY RequestFacts DEF CalledDirectly, IInv, Typed, Target
<1>2. o \in Result /\ (o.ran # {} => Target.live)
  BY <1>1, DirectFacts
<1>3. /\ Apply(t, o, FALSE)
      /\ UNCHANGED <<backend, version, owed, grave, freed, override, posted>>
  BY DEF CalledDirectly
<1>4. t \in Threads /\ (Hop => t = "ui")
  BY DEF Here, Threads
<1>5. http.req.verb \notin {"click", "toggle", "set_text"}
  BY <1>1 DEF Direct
<1>6. posted' \in Seq(Handles) /\ (backend # "win32" => posted' = <<>>)
  BY <1>3 DEF IInv, Typed
<1> HIDE DEF t, o
<1> QED
  BY <1>1, <1>2, <1>3, <1>4, <1>5, <1>6, ApplyInv

(* Nothing is under way at the start.                                      *)
LEMMA InitInv ==
  ASSUME Init
  PROVE  IInv
<1>1. PICK kinds \in [Handles -> KindsTried], banner \in {0, 1} :
        widgets = [h \in Handles |-> [kind |-> kinds[h], live |-> TRUE, sealed |-> FALSE,
                                      banner |-> h = banner, value |-> 0]]
  BY DEF Init
<1>2. widgets \in [Handles -> Widget] /\ backend \in Backend3
  BY <1>1, DriverAssumption DEF Init, Widget
<1>3. /\ http.at = "accept" /\ http.req = NoReq /\ http.seen = {}
      /\ http = [at |-> http.at, req |-> http.req, seen |-> http.seen, left |-> http.left,
                 outcome |-> http.outcome]
  BY WaitingFacts DEF Init
<1>4. \A t \in Threads : calls[t] = Idle
  BY DEF Init
<1>5. Typed
  <2>1. Idle \in CallType
    BY DEF Idle, CallType
  <2>2. calls \in [Threads -> CallType] /\ override \in BOOLEAN
    BY <2>1 DEF Init
  <2>3. posted \in Seq(Handles) /\ posted = <<>>
    BY DEF Init
  <2> QED
    BY <1>2, <1>3, <2>2, <2>3, WaitingFacts DEF Typed, Places
<1>6. ThreadsApart /\ ModifiersApart
  BY <1>3, <1>4
     DEF Init, ThreadsApart, ModifiersApart, ModifiersOfTheClickOnly, Idle, Threads
<1>7. BoxesOfTheGone
  BY <1>4 DEF Init, BoxesOfTheGone, Idle, Threads
<1>8. ListedAsItIs /\ DrivenAsByHand
  BY <1>3 DEF Init, ListedAsItIs, DrivenEffectsLaidOut, DrivenAsByHand
<1> QED
  BY <1>5, <1>6, <1>7, <1>8 DEF IInv

(* Every step of the two threads, of a person and of the application.      *)
LEMMA NextInv ==
  ASSUME IInv, [Next]_vars
  PROVE  IInv'
<1>1. CASE ServerStep
  BY <1>1, HoppedInv, ListOneInv, ListedInv, SetModifiersInv, DispatchedInv,
     CalledDirectlyInv, AnswerInv
     DEF ServerStep
<1>2. CASE \E t \in Threads : ClosureRebuilds(t) \/ ClosureReturns(t)
  BY <1>2, ClosureRebuildsInv, ClosureReturnsInv
<1>3. CASE \E h \in Handles : PersonClicks(h) \/ AppRemoves(h) \/ SealWidget(h)
  BY <1>3, PersonClicksInv, AppRemovesInv, SealWidgetInv
<1>4. CASE UNCHANGED vars
  <2>1. /\ Typed' /\ ThreadsApart' /\ ModifiersApart' /\ BoxesOfTheGone'
    BY <1>4 DEF vars, IInv, Typed, ThreadsApart, ModifiersApart, ModifiersOfTheClickOnly,
                BoxesOfTheGone, Hop
  <2>2. ListedAsItIs' /\ DrivenAsByHand'
    BY <1>4, ByHandKept DEF vars, IInv, ListedAsItIs, DrivenEffectsLaidOut, Hop
  <2> QED
    BY <2>1, <2>2 DEF IInv
<1> QED
  BY <1>1, <1>2, <1>3, <1>4, AcceptInv, ReceivedInv, DisconnectedInv, DrainGraveyardInv,
     FrameLaysOutInv, PostedReturnInv
     DEF Next

(* So it holds throughout.                                                 *)
LEMMA Invariance == SafeSpec => []IInv
<1>1. Init => IInv
  BY InitInv
<1>2. IInv /\ [Next]_vars => IInv'
  BY NextInv
<1> QED
  BY <1>1, <1>2, PTL DEF SafeSpec

-------------------------------------------------------------------------------
(* NotFreedInEvent of Driver: a closure that a platform's own event runs,  *)
(* or Win32's run loop, may remove its widget and is still there when it   *)
(* goes on, on each of the three backends.                                 *)
THEOREM NotFreedInEventAlways ==
  SafeSpec => []NotFreedInEvent
<1>1. IInv => NotFreedInEvent
  BY DriverAssumption DEF IInv, Typed, BoxesOfTheGone, NotFreedInEvent, Backend3
<1> QED
  BY <1>1, Invariance, PTL

(* ListingIsOneMoment of Driver: what one GET /widgets reads is of one     *)
(* tree, and of one that was laid out since the driver last changed it.    *)
THEOREM ListingAlways ==
  SafeSpec => []ListingIsOneMoment
<1>1. IInv => ListingIsOneMoment
  BY DEF IInv, ListedAsItIs, ListingIsOneMoment, OneVersionPerListing
<1> QED
  BY <1>1, Invariance, PTL

(* DrivenIsTheAction of Driver: a driven click, toggle or text runs what a *)
(* person's runs, and no call but the driver's own sees its modifiers.     *)
THEOREM DrivenAlways ==
  SafeSpec => []DrivenIsTheAction
<1>1. IInv => DrivenIsTheAction
  BY DEF IInv, ModifiersApart, ModifiersOfTheClickOnly, DrivenIsTheAction
<1> QED
  BY <1>1, Invariance, PTL

(* What a verb's outcome does to the widgets and calls, once it is said to *)
(* the client that it was refused: nothing.                                *)
LEMMA RefusedDoesNothing ==
  ASSUME IInv, NEW t \in Threads, NEW o \in Result, NEW emission, Apply(t, o, emission),
         http.at = "route", o.ran = {}, o.value = Target.value
  PROVE  widgets' = widgets /\ calls' = calls
<1>1. http.req.w \in Handles /\ widgets \in [Handles -> Widget]
  BY RequestFacts DEF IInv, Typed
<1>2. widgets' = [widgets EXCEPT ![http.req.w].value = widgets[http.req.w].value]
  BY DEF Apply, Target
<1>3. \A w \in Widget : [w EXCEPT !.value = w.value] = w
  BY DEF Widget
<1>4. widgets' = [widgets EXCEPT ![http.req.w] = widgets[http.req.w]]
  BY <1>1, <1>2, <1>3
<1> QED
  BY <1>1, <1>4 DEF Apply

(* What a status of 403 or 404 says of the outcome, by the route the verb  *)
(* takes.                                                                  *)
LEMMA StatusFacts ==
  ASSUME NEW v \in Verbs, NEW o \in Result, Status(v, o) \in {403, 404}
  PROVE  /\ v \in Enveloped => o.result # 0
         /\ v \in OwnReply => o.ran = {}
         /\ v \notin Direct
<1>1. CASE v \in Enveloped
  BY <1>1 DEF Status, EnvelopeStatus, Enveloped, OwnReply, Direct
<1>2. CASE v \in OwnReply
  BY <1>2 DEF Status, Enveloped, OwnReply, Direct
<1>3. CASE v \in Direct
  BY <1>3 DEF Status, Enveloped, OwnReply, Direct
<1> QED
  BY <1>1, <1>2, <1>3 DEF Verbs, Enveloped, OwnReply, Direct

(* RefusalIsTrue of Driver: a request answered 403 or 404 changed no       *)
(* widget and ran no closure, and a verb every backend checks is answered  *)
(* so when its widget is gone, sealed or the banner.                       *)
THEOREM RefusalAlways ==
  SafeSpec => RefusalIsTrue
<1> DEFINE refused == Status(http.req.verb, http'.outcome) \in {403, 404}
           Truthful ==
             /\ refused => widgets' = widgets /\ calls' = calls
             /\ Routed(http.req.verb, Target) \in CheckedVerbs
                /\ (Target.live => Target.sealed \/ Target.banner) => refused
<1>1. ASSUME IInv, Dispatched
      PROVE  Truthful
  <2> DEFINE o == Perform(backend, http.req.verb, Target, http.req.arg)
  <2>1. /\ http.at = "route" /\ http.req.verb \in Verbs \ Direct
        /\ http.req.arg \in {0, 1} /\ Target \in Widget /\ backend \in Backend3
    BY <1>1, RequestFacts DEF Dispatched, IInv, Typed, Target
  <2>2. Sound(backend, http.req.verb, Target, o)
    BY <2>1, PerformSound
  <2>3. Apply("ui", o, backend = "gtk" /\ Target.kind # "row") /\ http'.outcome = o
    BY <1>1 DEF Dispatched, Apply, IInv, Typed
  <2>4. Routed(http.req.verb, Target) \in CheckedVerbs
        /\ (Target.live => Target.sealed \/ Target.banner) => refused
    BY <2>1, <2>3, CheckedRefused
  <2> HIDE DEF o
  <2>5. ASSUME refused
        PROVE  widgets' = widgets /\ calls' = calls
    <3>1. Status(http.req.verb, o) \in {403, 404}
      BY <2>3, <2>5
    <3>2. o.ran = {} /\ o.value = Target.value
      BY <2>1, <2>2, <3>1, StatusFacts DEF Sound, Verbs
    <3> QED
      BY <1>1, <2>1, <2>2, <2>3, <3>2, RefusedDoesNothing DEF Sound, Threads
  <2> QED
    BY <2>4, <2>5
<1>2. ASSUME IInv, CalledDirectly
      PROVE  Truthful
  <2>1. http.req.verb \in Direct /\ http.req.verb \in Verbs /\ Target \in Widget
    BY <1>2, RequestFacts DEF CalledDirectly, IInv, Typed, Target, Verbs
  <2>2. http'.outcome = FireDirect(http.req.verb, Target)
    BY <1>2 DEF CalledDirectly, Apply, IInv, Typed
  <2>3. ~refused
    BY <2>1, <2>2, DirectFacts, StatusFacts
  <2>4. Routed(http.req.verb, Target) \notin CheckedVerbs
    BY <2>1 DEF Routed, Direct, CheckedVerbs
  <2> QED
    BY <2>3, <2>4
<1> HIDE DEF Truthful, refused
<1>3. ASSUME IInv, [Next]_vars, http.at = "route", http'.at = "answer"
      PROVE  Dispatched \/ CalledDirectly
  <2>1. http' # http
    BY <1>3
  <2>2. \A r : ~Accept(r)
    BY <1>3 DEF Accept
  <2>3. ~Received /\ ~Disconnected /\ ~Hopped /\ ~ListOne /\ ~Listed /\ ~Answer
    BY <1>3 DEF Received, Disconnected, Hopped, ListOne, Listed, Answer
  <2>4. ~SetModifiers /\ ~DrainGraveyard /\ ~FrameLaysOut /\ ~PostedReturn
    BY <2>1 DEF SetModifiers, DrainGraveyard, FrameLaysOut, PostedReturn
  <2>5. /\ \A t : ~ClosureRebuilds(t) /\ ~ClosureReturns(t)
        /\ \A h : ~PersonClicks(h) /\ ~AppRemoves(h) /\ ~SealWidget(h)
    BY <2>1 DEF ClosureRebuilds, ClosureReturns, PersonClicks, AppRemoves, SealWidget
  <2> QED
    BY <1>3, <2>1, <2>2, <2>3, <2>4, <2>5 DEF Next, ServerStep, vars
<1>4. IInv /\ [Next]_vars => [http.at = "route" /\ http'.at = "answer" => Truthful]_vars
  BY <1>1, <1>2, <1>3
<1>5. SafeSpec => [][http.at = "route" /\ http'.at = "answer" => Truthful]_vars
  BY <1>4, Invariance, PTL DEF SafeSpec
<1> QED
  BY <1>5 DEF RefusalIsTrue, Truthful, refused

===============================================================================
