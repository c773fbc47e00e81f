------------------------------ MODULE LoopProofs ------------------------------
(***************************************************************************)
(* Of what the run loop brings to the application: completions of          *)
(* background jobs, ticks of timers, what is done to its windows and       *)
(* overlays, and key presses.                                              *)
(*                                                                         *)
(* Jobs, for every number of calls, table size, set of widgets, owners and *)
(* threads: as long as the ids do not wrap around, the job table holds     *)
(* exactly the jobs in flight, work is told of nobody else's cancellation, *)
(* and background_for keeps the contract of JobContract.  None of the      *)
(* three is inductive.  A slot is freed and flagged by looking an id up,   *)
(* so that it is the right call's slot rests on every call having an id of *)
(* its own; that the next id is new rests on the counter being below the   *)
(* number of every call still to come.  That keep is still right when the  *)
(* completion calls done or dropped rests on the UI thread being inside    *)
(* that completion, where nothing cancels or destroys.                     *)
(*                                                                         *)
(* Timers, for any number of them and ticks nested to any depth: what      *)
(* becomes of a box depends on whether its timer is in a tick, and on what *)
(* its backend knows of that.  That a one-shot ticks once rests on its     *)
(* being dead as soon as it has fired.                                     *)
(*                                                                         *)
(* Windows and overlays, for any of them: an overlay's content rests on    *)
(* its window's being there, and that a pressed overlay closes on what     *)
(* on_dismiss may have done to it meanwhile.  That GTK's loop ends with    *)
(* the last window rests on the count of uses being two for each window of *)
(* the application, where each was made while it ran.                      *)
(*                                                                         *)
(* Keys, for any of them: that a chord is two presses in a row rests on the*)
(* prefix that is armed being the press before, with what expires it and   *)
(* what keeps it over a press that never reaches the chords. A press is    *)
(* followed from layer to layer on each backend: a layer that took it is   *)
(* the only one in the log.                                                *)
(*                                                                         *)
(* Drags, for stacks of any items: what a drop moves rests on the index a  *)
(* drag remembers being the pressed child's, as long as its stack was not  *)
(* rebuilt; where it moves it, on a child's two gaps being its own place.  *)
(***************************************************************************)
EXTENDS BackgroundJobs, Shell, SweepingProofs, FiniteSetTheorems, SequenceTheorems

-----------------------------------------------------------------------------
(* Background jobs.                                                        *)

(* The counter does not come around within the execution: at most IdMax    *)
(* calls are made.                                                         *)
NoWrap == MaxCalls <= IdMax

InUi == {"begun", "checked", "ended"}

(* The UI thread is in the middle of at most one call, which has a job.    *)
OneAtATime ==
  \A c \in Calls : /\ ui = c <=> phase[c] \in InUi
                   /\ c \in Plain => phase[c] \notin InUi

(* Ids are given in order, each to one call.                               *)
IdsInOrder ==
  /\ \A c \in Calls : job[c] <= g_bg_next_id
  /\ \A c \in Calls : phase[c] = "new" => g_bg_next_id < c
  /\ \A c, d \in Calls : job[c] = job[d] /\ job[c] > 0 => c = d

(* TableHoldsInFlight without the cardinalities.                           *)
OneSlotEach ==
  /\ \A c \in InFlight : job[c] > 0 /\ \E s \in Slots : g_bg_jobs[s].id = job[c]
  /\ \A s \in Slots : g_bg_jobs[s].id > 0 =>
       \E c \in InFlight : job[c] = g_bg_jobs[s].id
  /\ \A s, t \in Slots :
       g_bg_jobs[s].id = g_bg_jobs[t].id /\ g_bg_jobs[s].id > 0 => s = t

(* The flag of a slot is that of the call whose job it holds.              *)
FlagsAsAsked ==
  /\ \A s \in Slots, c \in Calls :
       g_bg_jobs[s].id > 0 /\ job[c] = g_bg_jobs[s].id =>
         (g_bg_jobs[s].cancelled <=> c \in asked)
  /\ \A c \in asked : phase[c] # "new" /\ c \notin Plain

(* The completion's decision still stands.                                 *)
KeepStands ==
  \A c \in Calls : phase[c] \in {"checked", "ended"} =>
    (keep <=> c \notin asked /\ OwnerAlive(c))

IInv ==
  /\ TypeOK /\ OneAtATime /\ IdsInOrder /\ OneSlotEach /\ FlagsAsAsked
  /\ KeepStands /\ ToldOnlyIfAsked

-----------------------------------------------------------------------------
(* A search for the first slot of some set finds one of the set.           *)
LEMMA FirstIn ==
  ASSUME NEW S \in SUBSET Slots, S # {}
  PROVE  First(S) \in S
<1> DEFINE R == {ss \in Nat \X Nat : ss[1] < ss[2]}
<1>1. IsWellFoundedOn(R, Nat)
  BY NatLessThanWellFounded DEF OpToRel
<1>2. \A x, y \in Nat : y < x => <<y, x>> \in R
  OBVIOUS
<1>3. S \subseteq Nat
  BY DEF Slots
<1> HIDE DEF R
<1>4. PICK x \in S : \A y \in S : ~ (<<y, x>> \in R)
  BY <1>1, <1>3, WFMin
<1>5. \A y \in S : ~ (y < x)
  BY <1>2, <1>3, <1>4, Zenon
<1>6. \A y \in S : x <= y
  BY <1>3, <1>5
<1> QED
  BY <1>6 DEF First

(* bg_job_find goes to the only slot with the id, if there is one.         *)
LEMMA FindIsIt ==
  ASSUME IInv, NEW j \in 0 .. IdMax, NEW s \in Slots, j > 0,
         g_bg_jobs[s].id = j
  PROVE  Found(j) /\ Find(j) = s
<1>1. s \in Used(j) /\ Used(j) \in SUBSET Slots
  BY DEF Used
<1>2. First(Used(j)) \in Used(j)
  BY <1>1, FirstIn
<1>3. \A t \in Slots : g_bg_jobs[t].id = j => t = s
  BY DEF IInv, OneSlotEach
<1> QED
  BY <1>1, <1>2, <1>3 DEF Found, Find, Used

(* aether_ui_bg_job_end frees the job's slot and touches no other.         *)
LEMMA EndedIs ==
  ASSUME IInv, NEW j \in 0 .. IdMax
  PROVE  JobEnded(j) = [s \in Slots |->
           IF j > 0 /\ g_bg_jobs[s].id = j THEN FreeSlot ELSE g_bg_jobs[s]]
<1>1. g_bg_jobs = [s \in Slots |-> g_bg_jobs[s]]
  BY DEF IInv, TypeOK
<1>2. CASE \E s \in Slots : j > 0 /\ g_bg_jobs[s].id = j
  <2>1. PICK s \in Slots : j > 0 /\ g_bg_jobs[s].id = j
    BY <1>2
  <2>2. Found(j) /\ Find(j) = s
    BY <2>1, FindIsIt
  <2>3. \A t \in Slots : g_bg_jobs[t].id = j <=> t = s
    BY <2>1 DEF IInv, OneSlotEach
  <2> QED
    BY <1>1, <2>1, <2>2, <2>3 DEF JobEnded
<1>3. CASE ~ \E s \in Slots : j > 0 /\ g_bg_jobs[s].id = j
  <2>1. ~ Found(j)
    BY <1>3 DEF Found, Used
  <2> QED
    BY <1>1, <1>3, <2>1 DEF JobEnded
<1> QED
  BY <1>2, <1>3

(* The cancel flag of a call in flight is up when the application asked.   *)
LEMMA FlagIs ==
  ASSUME IInv, NEW c \in InFlight
  PROVE  CancelFlag(job[c]) <=> c \in asked
<1>1. c \in Calls /\ job[c] \in 0 .. IdMax
  BY DEF IInv, TypeOK, InFlight
<1>2. PICK s \in Slots : g_bg_jobs[s].id = job[c]
  BY DEF IInv, OneSlotEach
<1>3. job[c] > 0
  BY DEF IInv, OneSlotEach
<1>4. Found(job[c]) /\ Find(job[c]) = s
  BY <1>1, <1>2, <1>3, FindIsIt
<1>5. g_bg_jobs[s].cancelled <=> c \in asked
  BY <1>1, <1>2, <1>3 DEF IInv, FlagsAsAsked
<1> QED
  BY <1>4, <1>5, Zenon DEF CancelFlag

-----------------------------------------------------------------------------
(* An empty table, no id given and no call made.                           *)
LEMMA InitIInv == JobsInit => IInv
<1> SUFFICES ASSUME JobsInit PROVE IInv
  OBVIOUS
<1>1. InFlight = {}
  BY DEF JobsInit, InFlight
<1>2. TypeOK
  <2>1. FreeSlot \in Slot
    BY TableAssumption DEF Slot, FreeSlot
  <2>2. keep \in BOOLEAN /\ asked \subseteq Calls /\ told \subseteq Calls
    BY DEF JobsInit
  <2>3. g_bg_jobs \in [Slots -> Slot] /\ \A s \in Slots : g_bg_jobs[s] = FreeSlot
    BY <2>1 DEF JobsInit
  <2>4. phase \in [Calls -> Phases]
    BY DEF JobsInit, Phases
  <2>5. job \in [Calls -> 0 .. IdMax] /\ g_bg_next_id \in 0 .. IdMax
    BY TableAssumption DEF JobsInit
  <2>6. ui \in {0} \cup Calls /\ alive \subseteq Widgets
    BY DEF JobsInit
  <2> QED
    BY <2>2, <2>3, <2>4, <2>5, <2>6 DEF TypeOK
<1>3. OneAtATime /\ IdsInOrder /\ KeepStands /\ ToldOnlyIfAsked
  BY CallsAssumption
  DEF JobsInit, OneAtATime, InUi, IdsInOrder, KeepStands, ToldOnlyIfAsked, Calls
<1>4. OneSlotEach /\ FlagsAsAsked
  BY <1>1 DEF JobsInit, OneSlotEach, FlagsAsAsked, FreeSlot
<1> QED
  BY <1>2, <1>3, <1>4 DEF IInv

(* A step of a call that stays in the table, or stays out of it, leaves    *)
(* the table and the ids right.                                            *)
LEMMA TableUntouched ==
  ASSUME IInv, UNCHANGED <<g_bg_jobs, g_bg_next_id, job, asked, told>>,
         TypeOK', OneAtATime', KeepStands', InFlight' = InFlight,
         \A c \in Calls : phase'[c] = "new" => phase[c] = "new"
  PROVE  IInv'
<1>1. IdsInOrder'
  BY DEF IInv, IdsInOrder
<1>2. OneSlotEach'
  BY DEF IInv, OneSlotEach
<1>3. FlagsAsAsked'
  <2>1. \A c \in asked : c \in Calls /\ phase[c] # "new" /\ c \notin Plain
    BY DEF IInv, FlagsAsAsked, TypeOK
  <2>2. \A c \in asked' : phase'[c] # "new" /\ c \notin Plain
    BY <2>1
  <2> QED
    BY <2>2, Zenon DEF IInv, FlagsAsAsked
<1>4. ToldOnlyIfAsked'
  BY DEF IInv, ToldOnlyIfAsked
<1> QED
  BY <1>1, <1>2, <1>3, <1>4 DEF IInv

(* Outside background_for and the completion, no call is inside one.       *)
LEMMA UiIsFree ==
  ASSUME IInv, UiFree
  PROVE  \A c \in Calls : phase[c] \notin InUi
BY CallsAssumption DEF IInv, OneAtATime, UiFree, Calls

(* worker.run accepts: begun becomes queued, still in flight.              *)
LEMMA RunAcceptedIInv ==
  ASSUME IInv, NEW c \in Calls, RunAccepted(c)
  PROVE  IInv'
<1>1. /\ phase' = [phase EXCEPT ![c] = "queued"]
      /\ phase[c] = "begun" /\ ui = c /\ ui' = 0
      /\ UNCHANGED <<g_bg_jobs, g_bg_next_id, job, keep, alive, asked, told>>
  BY DEF RunAccepted
<1>2. TypeOK /\ OneAtATime /\ KeepStands
  BY DEF IInv
<1>3. TypeOK'
  BY <1>1, <1>2 DEF TypeOK, Phases
<1>4. OneAtATime'
  BY <1>1, <1>2, CallsAssumption DEF TypeOK, OneAtATime, InUi, Calls
<1>5. KeepStands'
  BY <1>1, <1>2 DEF TypeOK, KeepStands, OwnerAlive
<1>6. InFlight' = InFlight
  BY <1>1, <1>2 DEF TypeOK, InFlight
<1> QED
  BY <1>1, <1>2, <1>3, <1>4, <1>5, <1>6, TableUntouched DEF TypeOK

(* A plain call starts: it is never in flight in the sense of the table.   *)
LEMMA BackgroundIInv ==
  ASSUME IInv, NEW c \in Calls, Background(c)
  PROVE  IInv'
<1>1. PICK result \in {"queued", "refused"} :
        phase' = [phase EXCEPT ![c] = result]
  BY DEF Background
<1>2. /\ phase[c] = "new" /\ c \in Plain
      /\ UNCHANGED <<g_bg_jobs, g_bg_next_id, job, ui, keep, alive, asked, told>>
  BY DEF Background, NextCall
<1>3. TypeOK /\ OneAtATime /\ KeepStands
  BY DEF IInv
<1>4. TypeOK'
  BY <1>1, <1>2, <1>3 DEF TypeOK, Phases
<1>5. OneAtATime'
  BY <1>1, <1>2, <1>3 DEF TypeOK, OneAtATime, InUi
<1>6. KeepStands'
  BY <1>1, <1>2, <1>3 DEF TypeOK, KeepStands, OwnerAlive
<1>7. InFlight' = InFlight
  BY <1>1, <1>2, <1>3 DEF TypeOK, InFlight
<1> QED
  BY <1>1, <1>2, <1>3, <1>4, <1>5, <1>6, <1>7, TableUntouched DEF TypeOK

(* The pool moves a call from queued to working or from working to posted. *)
LEMMA PoolStepIInv ==
  ASSUME IInv, NEW c \in Calls, PoolStep(c)
  PROVE  IInv'
<1>1. /\ \/ phase[c] = "queued" /\ phase' = [phase EXCEPT ![c] = "working"]
         \/ phase[c] = "working" /\ phase' = [phase EXCEPT ![c] = "posted"]
      /\ UNCHANGED <<g_bg_jobs, g_bg_next_id, job, ui, keep, alive, asked, told>>
  BY DEF PoolStep, WorkStarts, WorkReturns
<1>2. TypeOK /\ OneAtATime /\ KeepStands
  BY DEF IInv
<1>3. TypeOK'
  BY <1>1, <1>2 DEF TypeOK, Phases
<1>4. OneAtATime'
  BY <1>1, <1>2 DEF TypeOK, OneAtATime, InUi
<1>5. KeepStands'
  BY <1>1, <1>2 DEF TypeOK, KeepStands, OwnerAlive
<1>6. InFlight' = InFlight
  BY <1>1, <1>2 DEF TypeOK, InFlight
<1> QED
  BY <1>1, <1>2, <1>3, <1>4, <1>5, <1>6, TableUntouched DEF TypeOK

(* The completion decides with the table and the registry of the moment,   *)
(* which say what the application asked and whether the owner lives.       *)
LEMMA CompletionChecksIInv ==
  ASSUME IInv, NEW c \in Calls, CompletionChecks(c)
  PROVE  IInv'
<1>1. /\ phase[c] = "posted" /\ c \notin Plain /\ UiFree /\ ui = 0
      /\ keep' = Wanted(c)
      /\ phase' = [phase EXCEPT ![c] = "checked"]
      /\ ui' = c
      /\ UNCHANGED <<g_bg_jobs, g_bg_next_id, job, alive, asked, told>>
  BY DEF CompletionChecks, UiFree
<1>2. TypeOK /\ OneAtATime
  BY DEF IInv
<1>3. \A d \in Calls : phase[d] \notin InUi
  BY <1>1, UiIsFree
<1>4. c \in InFlight
  BY <1>1 DEF InFlight
<1>5. keep' <=> c \notin asked /\ OwnerAlive(c)
  BY <1>1, <1>4, FlagIs DEF Wanted
<1>6. TypeOK'
  <2>1. keep' \in BOOLEAN
    BY <1>1, Zenon DEF Wanted
  <2> QED
    BY <1>1, <1>2, <2>1 DEF TypeOK, Phases
<1>7. OneAtATime'
  BY <1>1, <1>2, <1>3 DEF TypeOK, OneAtATime, InUi
<1>8. KeepStands'
  <2> SUFFICES ASSUME NEW d \in Calls, phase'[d] \in {"checked", "ended"}
               PROVE  (keep' <=> d \notin asked' /\ OwnerAlive(d)')
    BY DEF KeepStands
  <2>1. d = c
    BY <1>1, <1>2, <1>3 DEF TypeOK, InUi
  <2>2. asked' = asked /\ (OwnerAlive(c)' <=> OwnerAlive(c))
    BY <1>1 DEF OwnerAlive
  <2> QED
    BY <2>1, <2>2, <1>5
<1>9. InFlight' = InFlight
  BY <1>1, <1>2 DEF TypeOK, InFlight
<1> QED
  BY <1>1, <1>2, <1>6, <1>7, <1>8, <1>9, TableUntouched DEF TypeOK

(* The completion calls done or dropped, with its job ended already.       *)
LEMMA CompletionCallsIInv ==
  ASSUME IInv, NEW c \in Calls, CompletionCalls(c)
  PROVE  IInv'
<1>1. /\ phase[c] = "ended" /\ ui = c /\ ui' = 0
      /\ phase' = [phase EXCEPT ![c] = IF keep THEN "done" ELSE "dropped"]
      /\ UNCHANGED <<g_bg_jobs, g_bg_next_id, job, keep, alive, asked, told>>
  BY DEF CompletionCalls
<1>2. TypeOK /\ OneAtATime /\ KeepStands
  BY DEF IInv
<1>3. phase'[c] \in {"done", "dropped"} /\ \A d \in Calls \ {c} : phase'[d] = phase[d]
  BY <1>1, <1>2 DEF TypeOK
<1>4. TypeOK'
  BY <1>1, <1>2 DEF TypeOK, Phases
<1>5. OneAtATime'
  BY <1>1, <1>2, <1>3, CallsAssumption DEF TypeOK, OneAtATime, InUi, Calls
<1>6. KeepStands'
  BY <1>1, <1>2, <1>3 DEF TypeOK, KeepStands, OwnerAlive
<1>7. InFlight' = InFlight
  BY <1>1, <1>3 DEF InFlight
<1> QED
  BY <1>1, <1>2, <1>3, <1>4, <1>5, <1>6, <1>7, TableUntouched DEF TypeOK

(* A plain completion runs done.                                           *)
LEMMA PlainDoneIInv ==
  ASSUME IInv, NEW c \in Calls, PlainDone(c)
  PROVE  IInv'
<1>1. /\ phase[c] = "posted" /\ c \in Plain
      /\ phase' = [phase EXCEPT ![c] = "done"]
      /\ UNCHANGED <<g_bg_jobs, g_bg_next_id, job, ui, keep, alive, asked, told>>
  BY DEF PlainDone
<1>2. TypeOK /\ OneAtATime /\ KeepStands
  BY DEF IInv
<1>3. TypeOK'
  BY <1>1, <1>2 DEF TypeOK, Phases
<1>4. OneAtATime'
  BY <1>1, <1>2 DEF TypeOK, OneAtATime, InUi
<1>5. KeepStands'
  BY <1>1, <1>2 DEF TypeOK, KeepStands, OwnerAlive
<1>6. InFlight' = InFlight
  BY <1>1, <1>2 DEF TypeOK, InFlight
<1> QED
  BY <1>1, <1>2, <1>3, <1>4, <1>5, <1>6, TableUntouched DEF TypeOK

-----------------------------------------------------------------------------
(* Ending the job of a call that leaves the table frees its slot and no    *)
(* other: the table still holds exactly what is in flight.                 *)
LEMMA EndingIsRight ==
  ASSUME IInv, NEW c \in InFlight,
         g_bg_jobs' = JobEnded(job[c]),
         InFlight' = InFlight \ {c},
         \A d \in Calls : phase'[d] = "new" => phase[d] = "new",
         \A d \in Calls \ {c} : job'[d] = job[d],
         job'[c] \in {0, job[c]},
         UNCHANGED <<g_bg_next_id, asked, told>>
  PROVE  /\ g_bg_jobs' \in [Slots -> Slot]
         /\ \A s \in Slots : g_bg_jobs'[s].id = 0 => g_bg_jobs'[s] = FreeSlot
         /\ IdsInOrder' /\ OneSlotEach' /\ FlagsAsAsked' /\ ToldOnlyIfAsked'
<1>1. /\ TypeOK /\ IdsInOrder /\ OneSlotEach /\ FlagsAsAsked
      /\ c \in Calls /\ job[c] \in 0 .. IdMax /\ job[c] > 0
  BY DEF IInv, TypeOK, InFlight, OneSlotEach
<1>2. g_bg_jobs' = [s \in Slots |->
        IF g_bg_jobs[s].id = job[c] THEN FreeSlot ELSE g_bg_jobs[s]]
  BY <1>1, EndedIs
<1>3. FreeSlot \in Slot /\ FreeSlot.id = 0
  BY TableAssumption DEF FreeSlot, Slot
<1>4. \A s \in Slots : g_bg_jobs[s] \in Slot /\ g_bg_jobs[s].id \in 0 .. IdMax
  BY <1>1 DEF TypeOK, Slot
<1>5. \A s \in Slots : /\ g_bg_jobs'[s].id > 0 => /\ g_bg_jobs'[s] = g_bg_jobs[s]
                                                  /\ g_bg_jobs[s].id # job[c]
                       /\ g_bg_jobs[s].id # job[c] => g_bg_jobs'[s] = g_bg_jobs[s]
  BY <1>2, <1>3
<1>6. \A d \in Calls : /\ job[d] \in 0 .. IdMax
                       /\ job'[d] > 0 => job'[d] = job[d]
                       /\ job'[d] \in {0, job[d]}
  BY <1>1 DEF TypeOK
<1>7. IdsInOrder'
  BY <1>1, <1>6 DEF IdsInOrder, TypeOK
<1>8. OneSlotEach'
  <2>1. ASSUME NEW d \in InFlight'
        PROVE  job'[d] > 0 /\ \E s \in Slots : g_bg_jobs'[s].id = job'[d]
    <3>1. d \in InFlight /\ d \in Calls /\ d # c
      BY <2>1 DEF InFlight
    <3>2. job[d] > 0 /\ job'[d] = job[d]
      BY <1>1, <3>1 DEF OneSlotEach
    <3>3. PICK s \in Slots : g_bg_jobs[s].id = job[d]
      BY <1>1, <3>1 DEF OneSlotEach
    <3>4. job[d] # job[c]
      BY <1>1, <3>1, <3>2 DEF IdsInOrder
    <3> QED
      BY <1>5, <3>2, <3>3, <3>4
  <2>2. ASSUME NEW s \in Slots, g_bg_jobs'[s].id > 0
        PROVE  \E d \in InFlight' : job'[d] = g_bg_jobs'[s].id
    <3>1. g_bg_jobs'[s] = g_bg_jobs[s] /\ g_bg_jobs[s].id # job[c]
      BY <1>5, <2>2
    <3>2. PICK d \in InFlight : job[d] = g_bg_jobs[s].id
      BY <1>1, <2>2, <3>1 DEF OneSlotEach
    <3>3. d \in InFlight' /\ d \in Calls \ {c}
      BY <3>1, <3>2 DEF InFlight
    <3> QED
      BY <3>1, <3>2, <3>3
  <2>3. ASSUME NEW s \in Slots, NEW t \in Slots,
               g_bg_jobs'[s].id = g_bg_jobs'[t].id, g_bg_jobs'[s].id > 0
        PROVE  s = t
    BY <1>1, <1>5, <2>3 DEF OneSlotEach
  <2> QED
    BY <2>1, <2>2, <2>3 DEF OneSlotEach
<1>9. FlagsAsAsked'
  <2>1. ASSUME NEW s \in Slots, NEW d \in Calls,
               g_bg_jobs'[s].id > 0, job'[d] = g_bg_jobs'[s].id
        PROVE  g_bg_jobs'[s].cancelled <=> d \in asked'
    <3>1. g_bg_jobs'[s] = g_bg_jobs[s] /\ job'[d] = job[d]
      BY <1>5, <1>6, <2>1
    <3> QED
      BY <1>1, <2>1, <3>1 DEF FlagsAsAsked
  <2>2. \A d \in asked' : phase'[d] # "new" /\ d \notin Plain
    BY <1>1 DEF FlagsAsAsked, TypeOK
  <2> QED
    BY <2>1, <2>2 DEF FlagsAsAsked
<1>10. g_bg_jobs' \in [Slots -> Slot]
  BY <1>2, <1>3, <1>4
<1>11. \A s \in Slots : g_bg_jobs'[s].id = 0 => g_bg_jobs'[s] = FreeSlot
  BY <1>1, <1>2 DEF TypeOK
<1>12. ToldOnlyIfAsked'
  BY DEF IInv, ToldOnlyIfAsked
<1> QED
  BY <1>7, <1>8, <1>9, <1>10, <1>11, <1>12

(* worker.run refuses: the job ends at once and the call has no id.        *)
LEMMA RunFailedIInv ==
  ASSUME IInv, NEW c \in Calls, RunFailed(c)
  PROVE  IInv'
<1>1. /\ phase[c] = "begun" /\ ui = c /\ ui' = 0
      /\ phase' = [phase EXCEPT ![c] = "refused"]
      /\ g_bg_jobs' = JobEnded(job[c])
      /\ job' = [job EXCEPT ![c] = 0]
      /\ UNCHANGED <<g_bg_next_id, keep, alive, asked, told>>
  BY DEF RunFailed, EndRefused
<1>2. TypeOK /\ OneAtATime /\ KeepStands
  BY DEF IInv
<1>3. c \in InFlight /\ InFlight' = InFlight \ {c}
  BY <1>1, <1>2 DEF TypeOK, OneAtATime, InUi, InFlight
<1>4. /\ g_bg_jobs' \in [Slots -> Slot]
      /\ \A s \in Slots : g_bg_jobs'[s].id = 0 => g_bg_jobs'[s] = FreeSlot
      /\ IdsInOrder' /\ OneSlotEach' /\ FlagsAsAsked' /\ ToldOnlyIfAsked'
  BY <1>1, <1>2, <1>3, EndingIsRight DEF TypeOK
<1>5. TypeOK'
  BY <1>1, <1>2, <1>4, TableAssumption DEF TypeOK, Phases
<1>6. OneAtATime'
  BY <1>1, <1>2, CallsAssumption DEF TypeOK, OneAtATime, InUi, Calls
<1>7. KeepStands'
  BY <1>1, <1>2 DEF TypeOK, KeepStands, OwnerAlive
<1> QED
  BY <1>4, <1>5, <1>6, <1>7 DEF IInv

(* The completion ends its job before it calls done or dropped.            *)
LEMMA CompletionEndsIInv ==
  ASSUME IInv, NEW c \in Calls, CompletionEnds(c)
  PROVE  IInv'
<1>1. /\ phase[c] = "checked" /\ ui = c
      /\ phase' = [phase EXCEPT ![c] = "ended"]
      /\ g_bg_jobs' = JobEnded(job[c])
      /\ UNCHANGED <<g_bg_next_id, job, ui, keep, alive, asked, told>>
  BY DEF CompletionEnds
<1>2. TypeOK /\ OneAtATime /\ KeepStands
  BY DEF IInv
<1>3. c \in InFlight /\ InFlight' = InFlight \ {c}
  BY <1>1, <1>2 DEF TypeOK, OneAtATime, InUi, InFlight
<1>4. /\ g_bg_jobs' \in [Slots -> Slot]
      /\ \A s \in Slots : g_bg_jobs'[s].id = 0 => g_bg_jobs'[s] = FreeSlot
      /\ IdsInOrder' /\ OneSlotEach' /\ FlagsAsAsked' /\ ToldOnlyIfAsked'
  BY <1>1, <1>2, <1>3, EndingIsRight DEF TypeOK
<1>5. TypeOK'
  BY <1>1, <1>2, <1>4 DEF TypeOK, Phases
<1>6. OneAtATime'
  BY <1>1, <1>2 DEF TypeOK, OneAtATime, InUi
<1>7. KeepStands'
  BY <1>1, <1>2 DEF TypeOK, KeepStands, OwnerAlive
<1> QED
  BY <1>4, <1>5, <1>6, <1>7 DEF IInv

-----------------------------------------------------------------------------
(* background_for finds the table full and changes nothing else.           *)
LEMMA JobRefusedIInv ==
  ASSUME IInv, NEW c \in Calls, JobBegin(c), Used(0) = {}
  PROVE  IInv'
<1>1. /\ phase[c] = "new" /\ phase' = [phase EXCEPT ![c] = "refused"]
      /\ UNCHANGED <<g_bg_jobs, g_bg_next_id, job, ui, keep, alive, asked, told>>
  BY DEF JobBegin, NextCall
<1>2. TypeOK /\ OneAtATime /\ KeepStands
  BY DEF IInv
<1>3. TypeOK'
  BY <1>1, <1>2 DEF TypeOK, Phases
<1>4. OneAtATime'
  BY <1>1, <1>2 DEF TypeOK, OneAtATime, InUi
<1>5. KeepStands'
  BY <1>1, <1>2 DEF TypeOK, KeepStands, OwnerAlive
<1>6. InFlight' = InFlight
  BY <1>1, <1>2 DEF TypeOK, InFlight
<1> QED
  BY <1>1, <1>2, <1>3, <1>4, <1>5, <1>6, TableUntouched DEF TypeOK

(* background_for takes the first free slot under an id that no call has.  *)
LEMMA JobBegunIInv ==
  ASSUME IInv, NoWrap, NEW c \in Calls, JobBegin(c), Used(0) # {}
  PROVE  IInv'
<1> DEFINE id   == g_bg_next_id + 1
           slot == First(Used(0))
<1>1. /\ TypeOK /\ OneAtATime /\ IdsInOrder /\ OneSlotEach /\ FlagsAsAsked
      /\ KeepStands
      /\ UiFree /\ ui = 0 /\ NextCall(c) /\ phase[c] = "new" /\ c \notin Plain
  BY DEF IInv, JobBegin, NextCall, UiFree
<1>2. /\ c \in Nat /\ c <= MaxCalls /\ MaxCalls <= IdMax
      /\ g_bg_next_id \in 0 .. IdMax /\ g_bg_next_id < c
      /\ IdMax \in Nat /\ MaxCalls \in Nat
  BY <1>1, CallsAssumption, TableAssumption
  DEF Calls, NoWrap, TypeOK, IdsInOrder
<1>3. NextId = id /\ id \in 1 .. IdMax /\ id <= c
  BY <1>2 DEF NextId
<1>4. slot \in Slots /\ g_bg_jobs[slot].id = 0
  <2>1. Used(0) \in SUBSET Slots
    BY DEF Used
  <2> QED
    BY <2>1, FirstIn DEF Used
<1>5. /\ g_bg_next_id' = id
      /\ g_bg_jobs' = [g_bg_jobs EXCEPT ![slot] = [id |-> id, cancelled |-> FALSE]]
      /\ job' = [job EXCEPT ![c] = id]
      /\ phase' = [phase EXCEPT ![c] = "begun"]
      /\ ui' = c
      /\ UNCHANGED <<keep, alive, asked, told>>
  BY <1>3 DEF JobBegin
<1> HIDE DEF slot
<1>6. /\ g_bg_jobs'[slot].id = id /\ g_bg_jobs'[slot].cancelled = FALSE
      /\ \A s \in Slots \ {slot} : g_bg_jobs'[s] = g_bg_jobs[s]
      /\ [id |-> id, cancelled |-> FALSE] \in Slot
      /\ \A s \in Slots : g_bg_jobs[s].id \in 0 .. IdMax
  BY <1>1, <1>3, <1>4, <1>5 DEF TypeOK, Slot
<1>7. /\ job'[c] = id
      /\ \A d \in Calls \ {c} : job'[d] = job[d]
      /\ \A d \in Calls : job[d] \in 0 .. IdMax /\ job[d] <= g_bg_next_id
                          /\ job[d] # id
  BY <1>1, <1>2, <1>3, <1>5 DEF TypeOK, IdsInOrder
<1>8. \A s \in Slots : g_bg_jobs[s].id # id
  <2> SUFFICES ASSUME NEW s \in Slots, g_bg_jobs[s].id = id PROVE FALSE
    OBVIOUS
  <2>1. PICK d \in InFlight : job[d] = g_bg_jobs[s].id
    BY <1>1, <1>3 DEF OneSlotEach
  <2> QED
    BY <1>7, <2>1 DEF InFlight
<1>9. c \notin InFlight /\ InFlight' = InFlight \cup {c}
  BY <1>1, <1>5 DEF TypeOK, InFlight
<1>10. \A d \in Calls : phase[d] \notin InUi
  BY <1>1, UiIsFree
<1>11. TypeOK'
  <2>1. g_bg_jobs' \in [Slots -> Slot]
    BY <1>1, <1>4, <1>5, <1>6 DEF TypeOK
  <2>2. \A s \in Slots : g_bg_jobs'[s].id = 0 => g_bg_jobs'[s] = FreeSlot
    BY <1>1, <1>3, <1>6 DEF TypeOK
  <2>3. g_bg_next_id' \in 0 .. IdMax /\ job' \in [Calls -> 0 .. IdMax]
    BY <1>1, <1>2, <1>3, <1>5 DEF TypeOK
  <2>4. phase' \in [Calls -> Phases] /\ ui' \in {0} \cup Calls
    BY <1>1, <1>5 DEF TypeOK, Phases
  <2> QED
    BY <1>1, <1>5, <2>1, <2>2, <2>3, <2>4 DEF TypeOK
<1>12. OneAtATime'
  BY <1>1, <1>5, <1>10 DEF TypeOK, OneAtATime, InUi
<1>13. IdsInOrder'
  <2>1. \A d \in Calls : job'[d] <= g_bg_next_id'
    BY <1>2, <1>5, <1>7
  <2>2. ASSUME NEW d \in Calls, phase'[d] = "new"
        PROVE  g_bg_next_id' < d
    <3>1. d # c /\ phase[d] = "new"
      BY <1>1, <1>5, <2>2 DEF TypeOK
    <3>2. c < d
      BY <1>1, <1>2, <3>1, CallsAssumption DEF NextCall, Calls
    <3> QED
      BY <1>2, <1>3, <1>5, <3>2, CallsAssumption DEF Calls
  <2>3. \A d, e \in Calls : job'[d] = job'[e] /\ job'[d] > 0 => d = e
    BY <1>1, <1>7 DEF IdsInOrder
  <2> QED
    BY <2>1, <2>2, <2>3 DEF IdsInOrder
<1>14. OneSlotEach'
  <2>1. ASSUME NEW d \in InFlight'
        PROVE  job'[d] > 0 /\ \E s \in Slots : g_bg_jobs'[s].id = job'[d]
    <3>1. CASE d = c
      BY <1>3, <1>4, <1>6, <1>7, <3>1
    <3>2. CASE d # c
      <4>1. d \in InFlight /\ d \in Calls
        BY <1>9, <2>1, <3>2 DEF InFlight
      <4>2. PICK s \in Slots : g_bg_jobs[s].id = job[d]
        BY <1>1, <4>1 DEF OneSlotEach
      <4>3. job[d] > 0
        BY <1>1, <4>1 DEF OneSlotEach
      <4>4. s # slot
        BY <1>4, <4>2, <4>3
      <4> QED
        BY <1>6, <1>7, <3>2, <4>1, <4>2, <4>3, <4>4
    <3> QED
      BY <3>1, <3>2
  <2>2. ASSUME NEW s \in Slots, g_bg_jobs'[s].id > 0
        PROVE  \E d \in InFlight' : job'[d] = g_bg_jobs'[s].id
    <3>1. CASE s = slot
      BY <1>6, <1>7, <1>9, <3>1
    <3>2. CASE s # slot
      <4>1. g_bg_jobs'[s] = g_bg_jobs[s]
        BY <1>6, <3>2
      <4>2. PICK d \in InFlight : job[d] = g_bg_jobs[s].id
        BY <1>1, <2>2, <4>1 DEF OneSlotEach
      <4> QED
        BY <1>7, <1>9, <4>1, <4>2 DEF InFlight
    <3> QED
      BY <3>1, <3>2
  <2>3. ASSUME NEW s \in Slots, NEW t \in Slots,
               g_bg_jobs'[s].id = g_bg_jobs'[t].id, g_bg_jobs'[s].id > 0
        PROVE  s = t
    BY <1>1, <1>6, <1>8, <2>3 DEF OneSlotEach
  <2> QED
    BY <2>1, <2>2, <2>3 DEF OneSlotEach
<1>15. FlagsAsAsked'
  <2>1. c \notin asked
    BY <1>1 DEF FlagsAsAsked
  <2>2. ASSUME NEW s \in Slots, NEW d \in Calls,
               g_bg_jobs'[s].id > 0, job'[d] = g_bg_jobs'[s].id
        PROVE  g_bg_jobs'[s].cancelled <=> d \in asked'
    <3>1. CASE s = slot
      <4>1. d = c
        BY <1>6, <1>7, <2>2, <3>1
      <4> QED
        BY <1>5, <1>6, <2>1, <3>1, <4>1
    <3>2. CASE s # slot
      <4>1. g_bg_jobs'[s] = g_bg_jobs[s] /\ d # c
        BY <1>6, <1>7, <1>8, <2>2, <3>2
      <4> QED
        BY <1>1, <1>5, <1>7, <2>2, <4>1 DEF FlagsAsAsked
    <3> QED
      BY <3>1, <3>2
  <2>3. \A d \in asked' : phase'[d] # "new" /\ d \notin Plain
    BY <1>1, <1>5 DEF FlagsAsAsked, TypeOK
  <2> QED
    BY <2>2, <2>3 DEF FlagsAsAsked
<1>16. KeepStands'
  <2>1. \A d \in Calls : phase'[d] \notin {"checked", "ended"}
    BY <1>1, <1>5, <1>10 DEF TypeOK, InUi
  <2> QED
    BY <2>1 DEF KeepStands
<1>17. ToldOnlyIfAsked'
  BY <1>5 DEF IInv, ToldOnlyIfAsked
<1> QED
  BY <1>11, <1>12, <1>13, <1>14, <1>15, <1>16, <1>17 DEF IInv

-----------------------------------------------------------------------------
(* background_cancel flags the slot of a call in flight, and with the id   *)
(* of any other call, 0 or stale, does nothing.                            *)
LEMMA CancelIs ==
  ASSUME IInv, NEW c \in Calls, CancelJob(c)
  PROVE  /\ c \in InFlight =>
              \E s \in Slots :
                /\ g_bg_jobs[s].id = job[c] /\ job[c] > 0
                /\ g_bg_jobs' = [g_bg_jobs EXCEPT ![s].cancelled = TRUE]
                /\ asked' = asked \cup {c}
         /\ c \notin InFlight => UNCHANGED <<g_bg_jobs, asked>>
<1>1. job[c] \in 0 .. IdMax
  BY DEF IInv, TypeOK
<1>2. CASE c \in InFlight
  <2>1. PICK s \in Slots : g_bg_jobs[s].id = job[c] /\ job[c] > 0
    BY <1>2 DEF IInv, OneSlotEach
  <2>2. Found(job[c]) /\ Find(job[c]) = s
    BY <1>1, <2>1, FindIsIt
  <2> QED
    BY <1>2, <2>1, <2>2 DEF CancelJob
<1>3. CASE c \notin InFlight
  <2>1. \A s \in Slots : ~ (job[c] > 0 /\ g_bg_jobs[s].id = job[c])
    <3> SUFFICES ASSUME NEW s \in Slots, job[c] > 0, g_bg_jobs[s].id = job[c]
                 PROVE  FALSE
      OBVIOUS
    <3>1. PICK d \in InFlight : job[d] = job[c]
      BY DEF IInv, OneSlotEach
    <3>2. d = c
      BY <3>1 DEF IInv, IdsInOrder, InFlight
    <3> QED
      BY <1>3, <3>1, <3>2
  <2>2. ~ Found(job[c])
    BY <2>1 DEF Found, Used
  <2> QED
    BY <1>3, <2>2 DEF CancelJob
<1> QED
  BY <1>2, <1>3

(* A cancel finds the slot of the job it names, or none.                   *)
LEMMA CancelIInv ==
  ASSUME IInv, NEW c \in Calls, CancelJob(c)
  PROVE  IInv'
<1>1. /\ TypeOK /\ OneAtATime /\ IdsInOrder /\ OneSlotEach /\ FlagsAsAsked
      /\ KeepStands /\ UiFree /\ phase[c] # "new" /\ c \notin Plain
      /\ UNCHANGED <<g_bg_next_id, phase, job, ui, keep, alive, told>>
  BY DEF IInv, CancelJob
<1>2. \A d \in Calls : phase[d] \notin {"checked", "ended"}
  BY <1>1, UiIsFree DEF InUi
<1>3. OneAtATime' /\ IdsInOrder' /\ KeepStands' /\ InFlight' = InFlight
  BY <1>1, <1>2 DEF OneAtATime, InUi, IdsInOrder, KeepStands, InFlight
<1>4. CASE c \in InFlight
  <2>1. PICK s \in Slots :
          /\ g_bg_jobs[s].id = job[c] /\ job[c] > 0
          /\ g_bg_jobs' = [g_bg_jobs EXCEPT ![s].cancelled = TRUE]
          /\ asked' = asked \cup {c}
    BY <1>4, CancelIs
  <2>2. /\ g_bg_jobs' \in [Slots -> Slot]
        /\ g_bg_jobs'[s].id = job[c] /\ g_bg_jobs'[s].cancelled = TRUE
        /\ \A t \in Slots : g_bg_jobs'[t].id = g_bg_jobs[t].id
        /\ \A t \in Slots \ {s} : g_bg_jobs'[t] = g_bg_jobs[t]
    BY <1>1, <2>1 DEF TypeOK, Slot
  <2>3. TypeOK'
    BY <1>1, <2>1, <2>2 DEF TypeOK
  <2>4. OneSlotEach'
    BY <1>1, <1>3, <2>2 DEF OneSlotEach
  <2>5. FlagsAsAsked'
    <3>1. ASSUME NEW t \in Slots, NEW d \in Calls,
                 g_bg_jobs'[t].id > 0, job'[d] = g_bg_jobs'[t].id
          PROVE  g_bg_jobs'[t].cancelled <=> d \in asked'
      <4>1. t = s <=> d = c
        BY <1>1, <2>1, <2>2, <3>1 DEF OneSlotEach, IdsInOrder
      <4>2. CASE t = s
        BY <2>1, <2>2, <4>1, <4>2
      <4>3. CASE t # s
        <5>1. g_bg_jobs[t].cancelled <=> d \in asked
          BY <1>1, <2>2, <3>1 DEF FlagsAsAsked
        <5> QED
          BY <2>1, <2>2, <4>1, <4>3, <5>1
      <4> QED
        BY <4>2, <4>3
    <3>2. \A d \in asked' : phase'[d] # "new" /\ d \notin Plain
      BY <1>1, <2>1 DEF FlagsAsAsked
    <3> QED
      BY <3>1, <3>2 DEF FlagsAsAsked
  <2>6. ToldOnlyIfAsked'
    BY <1>1, <2>1 DEF IInv, ToldOnlyIfAsked
  <2> QED
    BY <1>3, <2>3, <2>4, <2>5, <2>6 DEF IInv
<1>5. CASE c \notin InFlight
  <2>1. UNCHANGED <<g_bg_jobs, asked>>
    BY <1>5, CancelIs
  <2>2. TypeOK'
    BY <1>1, <2>1 DEF TypeOK
  <2> QED
    BY <1>1, <1>3, <2>1, <2>2, TableUntouched
<1> QED
  BY <1>4, <1>5

(* A widget goes, while no completion is between its decision and its call.*)
LEMMA DestroyIInv ==
  ASSUME IInv, NEW w \in Widgets, Destroy(w)
  PROVE  IInv'
<1>1. /\ TypeOK /\ OneAtATime /\ UiFree /\ alive' = alive \ {w}
      /\ UNCHANGED <<g_bg_jobs, g_bg_next_id, phase, job, ui, keep, asked, told>>
  BY DEF IInv, Destroy
<1>2. \A d \in Calls : phase[d] \notin {"checked", "ended"}
  BY <1>1, UiIsFree DEF InUi
<1>3. TypeOK' /\ OneAtATime' /\ InFlight' = InFlight
  BY <1>1 DEF TypeOK, OneAtATime, InUi, InFlight
<1>4. KeepStands'
  BY <1>1, <1>2 DEF KeepStands
<1> QED
  BY <1>1, <1>3, <1>4, TableUntouched

(* The work learns of a cancellation: it is the one of its own call.       *)
LEMMA WorkPollsIInv ==
  ASSUME IInv, NEW c \in Calls, WorkPolls(c)
  PROVE  IInv'
<1>1. /\ phase[c] = "working" /\ c \notin Plain /\ CancelFlag(job[c])
      /\ told' = told \cup {c}
      /\ UNCHANGED <<g_bg_jobs, g_bg_next_id, phase, job, ui, keep, alive, asked>>
  BY DEF WorkPolls
<1>2. c \in asked
  BY <1>1, FlagIs DEF InFlight
<1>3. InFlight' = InFlight
  BY <1>1 DEF InFlight
<1>4. TypeOK' /\ OneAtATime' /\ ToldOnlyIfAsked'
  BY <1>1, <1>2 DEF IInv, TypeOK, OneAtATime, InUi, ToldOnlyIfAsked
<1>5. IdsInOrder' /\ OneSlotEach'
  BY <1>1, <1>3 DEF IInv, IdsInOrder, OneSlotEach
<1>6. FlagsAsAsked'
  BY <1>1, Zenon DEF IInv, FlagsAsAsked
<1>7. KeepStands'
  BY <1>1 DEF IInv, KeepStands, OwnerAlive
<1> QED
  BY <1>4, <1>5, <1>6, <1>7 DEF IInv

(* Every step keeps the invariant.                                         *)
LEMMA NextIInv ==
  ASSUME NoWrap, IInv, [JobsNext]_jobVars
  PROVE  IInv'
<1>1. ASSUME NEW c \in Calls, JobBegin(c) PROVE IInv'
  BY <1>1, JobRefusedIInv, JobBegunIInv
<1>2. ASSUME NEW c \in Calls, Background(c) PROVE IInv'
  BY <1>2, BackgroundIInv
<1>3. ASSUME NEW c \in Calls, CancelJob(c) PROVE IInv'
  BY <1>3, CancelIInv
<1>4. ASSUME NEW c \in Calls, UiStep(c) PROVE IInv'
  BY <1>4, RunAcceptedIInv, RunFailedIInv, CompletionChecksIInv,
     CompletionEndsIInv, CompletionCallsIInv, PlainDoneIInv DEF UiStep
<1>5. ASSUME NEW c \in Calls, PoolStep(c) PROVE IInv'
  BY <1>5, PoolStepIInv
<1>6. ASSUME NEW c \in Calls, WorkPolls(c) PROVE IInv'
  BY <1>6, WorkPollsIInv
<1>7. ASSUME NEW w \in Widgets, Destroy(w) PROVE IInv'
  BY <1>7, DestroyIInv
<1>8. ASSUME UNCHANGED jobVars PROVE IInv'
  <2>1. InFlight' = InFlight /\ UNCHANGED jobVars
    BY <1>8 DEF jobVars, InFlight
  <2>2. TypeOK' /\ OneAtATime' /\ KeepStands'
    BY <2>1 DEF jobVars, IInv, TypeOK, OneAtATime, InUi, KeepStands, OwnerAlive
  <2> QED
    BY <2>1, <2>2, TableUntouched DEF jobVars
<1> QED
  BY <1>1, <1>2, <1>3, <1>4, <1>5, <1>6, <1>7, <1>8 DEF JobsNext

(* The invariant counts as TableHoldsInFlight does.                        *)
LEMMA IInvTable == IInv => TableHoldsInFlight
<1> SUFFICES ASSUME IInv PROVE TableHoldsInFlight
  OBVIOUS
<1>1. ASSUME NEW c \in InFlight
      PROVE  job[c] > 0 /\ Cardinality(Used(job[c])) = 1
  <2>1. PICK s \in Slots : g_bg_jobs[s].id = job[c] /\ job[c] > 0
    BY DEF IInv, OneSlotEach
  <2>2. Used(job[c]) = {s}
    BY <2>1 DEF IInv, OneSlotEach, Used
  <2> QED
    BY <2>1, <2>2, FS_Singleton
<1>2. ASSUME NEW s \in Slots, g_bg_jobs[s].id > 0
      PROVE  Cardinality({c \in InFlight : job[c] = g_bg_jobs[s].id}) = 1
  <2>1. PICK d \in InFlight : job[d] = g_bg_jobs[s].id
    BY <1>2 DEF IInv, OneSlotEach
  <2>2. {c \in InFlight : job[c] = g_bg_jobs[s].id} = {d}
    BY <1>2, <2>1 DEF IInv, IdsInOrder, InFlight
  <2> QED
    BY <2>2, FS_Singleton
<1> QED
  BY <1>1, <1>2 DEF TableHoldsInFlight

(* In every execution in which the ids do not wrap, the job table holds    *)
(* exactly the jobs in flight, one slot each: no refusal, failed start or  *)
(* completion leaks a slot or frees another call's.                        *)
THEOREM TableIsInFlight ==
  ASSUME NoWrap
  PROVE  JobsSafeSpec => [](TypeOK /\ TableHoldsInFlight)
<1>1. IInv /\ [JobsNext]_jobVars => IInv'
  BY NextIInv
<1>2. IInv => TypeOK /\ TableHoldsInFlight
  BY IInvTable DEF IInv
<1> QED
  BY InitIInv, <1>1, <1>2, PTL DEF JobsSafeSpec

(* In every such execution, work that background_cancelled tells it is     *)
(* cancelled belongs to a call the application cancelled: a stale id never *)
(* sets, and a reused slot never shows, another call's flag.               *)
THEOREM NoForeignCancel ==
  ASSUME NoWrap
  PROVE  JobsSafeSpec => []ToldOnlyIfAsked
<1>1. IInv /\ [JobsNext]_jobVars => IInv'
  BY NextIInv
<1>2. IInv => ToldOnlyIfAsked
  BY DEF IInv
<1> QED
  BY InitIInv, <1>1, <1>2, PTL DEF JobsSafeSpec

-----------------------------------------------------------------------------
outcome == [c \in Calls |-> Outcome(c)]

(* A step of one call changes the outcome of that call alone.              *)
LEMMA OutcomeStep ==
  ASSUME IInv, NEW c \in Calls, NEW p, phase' = [phase EXCEPT ![c] = p]
  PROVE  /\ outcome[c] = Outcome(c)
         /\ Outcome(c)' = Outcome(c) => outcome' = outcome
         /\ outcome' = [outcome EXCEPT ![c] = Outcome(c)']
<1>1. \A d \in Calls \ {c} : phase'[d] = phase[d]
  BY DEF IInv, TypeOK
<1>2. \A d \in Calls \ {c} : outcome'[d] = outcome[d]
  BY <1>1 DEF outcome, Outcome
<1> QED
  BY <1>2 DEF outcome

(* The contract starts with no call made, and so does the code.            *)
LEMMA InitContract == JobsInit => Contract!Init
BY DEF JobsInit, Contract!Init, Outcome

(* A call refused or accepted, at whatever moment of background_for.       *)
LEMMA StartsContract ==
  ASSUME IInv, NEW c \in Calls, NEW p \in {"refused", "queued"},
         phase' = [phase EXCEPT ![c] = p], phase[c] \in {"new", "begun"},
         UNCHANGED <<asked, alive>>
  PROVE  Contract!Next
<1>1. outcome[c] = "new" /\ Outcome(c)' \in {"refused", "accepted"}
  BY OutcomeStep DEF Outcome, IInv, TypeOK
<1>2. outcome' = [outcome EXCEPT ![c] = Outcome(c)']
  BY OutcomeStep
<1>3. Contract!Refuse(c) \/ Contract!Accept(c)
  BY <1>1, <1>2 DEF Contract!Refuse, Contract!Accept, outcome
<1> QED
  BY <1>3 DEF Contract!Next

(* A step inside an accepted call, or before it is accepted: unseen.       *)
LEMMA UnseenContract ==
  ASSUME IInv, NEW c \in Calls, NEW p,
         phase' = [phase EXCEPT ![c] = p],
         \/ phase[c] = "new" /\ p = "begun"
         \/ /\ phase[c] \in {"queued", "working", "posted", "checked"}
            /\ p \in {"working", "posted", "checked", "ended"},
         UNCHANGED <<asked, alive>>
  PROVE  UNCHANGED Contract!vars
<1>1. Outcome(c)' = Outcome(c)
  BY DEF Outcome, IInv, TypeOK
<1>2. outcome' = outcome
  BY <1>1, OutcomeStep
<1> QED
  BY <1>2 DEF Contract!vars, outcome

(* A completion runs done exactly when the contract wants it.              *)
LEMMA FinishesContract ==
  ASSUME IInv, NEW c \in Calls, NEW p \in {"done", "dropped"},
         phase' = [phase EXCEPT ![c] = p], phase[c] \in {"posted", "ended"},
         p = "done" <=> (c \notin asked /\ OwnerAlive(c)),
         UNCHANGED <<asked, alive>>
  PROVE  Contract!Next
<1>1. outcome[c] = "accepted" /\ Outcome(c)' = p
  BY OutcomeStep DEF Outcome, IInv, TypeOK
<1>2. outcome' = [outcome EXCEPT ![c] = p]
  BY <1>1, OutcomeStep
<1>3. p = IF Contract!Wanted(c) THEN "done" ELSE "dropped"
  BY DEF Contract!Wanted, OwnerAlive
<1>4. Contract!Finish(c)
  BY <1>1, <1>2, <1>3 DEF Contract!Finish, outcome
<1> QED
  BY <1>4 DEF Contract!Next

(* Every step of the code is a step of the contract or unseen by it.       *)
LEMMA NextContract ==
  ASSUME IInv, [JobsNext]_jobVars
  PROVE  [Contract!Next]_(Contract!vars)
<1> DEFINE Goal == Contract!Next \/ UNCHANGED Contract!vars
<1>1. ASSUME NEW c \in Calls, JobBegin(c) PROVE Goal
  <2>1. /\ phase[c] = "new" /\ UNCHANGED <<asked, alive>>
        /\ \/ phase' = [phase EXCEPT ![c] = "refused"]
           \/ phase' = [phase EXCEPT ![c] = "begun"]
    BY <1>1 DEF JobBegin, NextCall
  <2> QED
    BY <2>1, StartsContract, UnseenContract
<1>2. ASSUME NEW c \in Calls, Background(c) PROVE Goal
  <2>1. /\ phase[c] = "new" /\ UNCHANGED <<asked, alive>>
        /\ \E p \in {"queued", "refused"} : phase' = [phase EXCEPT ![c] = p]
    BY <1>2 DEF Background, NextCall
  <2> QED
    BY <2>1, StartsContract
<1>3. ASSUME NEW c \in Calls, CancelJob(c) PROVE Goal
  <2>1. phase' = phase /\ alive' = alive
    BY <1>3 DEF CancelJob
  <2>2. outcome' = outcome
    BY <2>1 DEF outcome, Outcome
  <2>3. CASE c \in InFlight
    <3>1. phase[c] \in {"queued", "working", "posted", "checked"}
      BY <1>3, <2>3, UiIsFree DEF CancelJob, InFlight, InUi
    <3>2. outcome[c] = "accepted"
      BY <3>1 DEF outcome, Outcome
    <3>3. asked' = asked \cup {c}
      BY <1>3, <2>3 DEF CancelJob
    <3>4. Contract!Cancel(c)
      BY <2>1, <2>2, <3>2, <3>3 DEF Contract!Cancel, outcome
    <3> QED
      BY <3>4 DEF Contract!Next
  <2>4. CASE c \notin InFlight
    BY <1>3, <2>1, <2>2, <2>4 DEF CancelJob, Contract!vars, outcome
  <2> QED
    BY <2>3, <2>4
<1>4. ASSUME NEW c \in Calls, UiStep(c) PROVE Goal
  <2>1. CASE RunAccepted(c)
    BY <2>1, StartsContract DEF RunAccepted
  <2>2. CASE RunFailed(c)
    BY <2>2, StartsContract DEF RunFailed
  <2>3. CASE CompletionChecks(c)
    BY <2>3, UnseenContract DEF CompletionChecks
  <2>4. CASE CompletionEnds(c)
    BY <2>4, UnseenContract DEF CompletionEnds
  <2>5. CASE CompletionCalls(c)
    <3> DEFINE p == IF keep THEN "done" ELSE "dropped"
    <3>1. /\ phase[c] = "ended" /\ phase' = [phase EXCEPT ![c] = p]
          /\ UNCHANGED <<asked, alive>>
      BY <2>5 DEF CompletionCalls
    <3>2. keep <=> c \notin asked /\ OwnerAlive(c)
      BY <3>1 DEF IInv, KeepStands
    <3>3. p \in {"done", "dropped"} /\ (p = "done" <=> keep)
      OBVIOUS
    <3> QED
      BY <3>1, <3>2, <3>3, FinishesContract
  <2>6. CASE PlainDone(c)
    <3>1. /\ phase[c] = "posted" /\ phase' = [phase EXCEPT ![c] = "done"]
          /\ c \in Plain /\ UNCHANGED <<asked, alive>>
      BY <2>6 DEF PlainDone
    <3>2. c \notin asked /\ OwnerAlive(c)
      BY <3>1, OwnerAssumption DEF IInv, FlagsAsAsked, OwnerAlive
    <3> QED
      BY <3>1, <3>2, FinishesContract
  <2> QED
    BY <1>4, <2>1, <2>2, <2>3, <2>4, <2>5, <2>6 DEF UiStep
<1>5. ASSUME NEW c \in Calls, PoolStep(c) PROVE Goal
  BY <1>5, UnseenContract DEF PoolStep, WorkStarts, WorkReturns
<1>6. ASSUME UNCHANGED <<phase, asked, alive>> PROVE Goal
  BY <1>6 DEF Contract!vars, Outcome
<1>7. ASSUME NEW w \in Widgets, Destroy(w) PROVE Goal
  <2>1. /\ w \in alive /\ alive' = alive \ {w}
        /\ UNCHANGED <<phase, asked>>
    BY <1>7 DEF Destroy
  <2>2. Contract!Destroy(w)
    BY <2>1 DEF Contract!Destroy, Outcome
  <2> QED
    BY <2>2 DEF Contract!Next
<1>8. \A c \in Calls : WorkPolls(c) => UNCHANGED <<phase, asked, alive>>
  BY DEF WorkPolls
<1>9. UNCHANGED jobVars => UNCHANGED <<phase, asked, alive>>
  BY DEF jobVars
<1> HIDE DEF Goal
<1>10. Goal
  BY <1>1, <1>2, <1>3, <1>4, <1>5, <1>6, <1>7, <1>8, <1>9 DEF JobsNext
<1> QED
  BY <1>10 DEF Goal

(* In every execution in which the ids do not wrap, background_for,        *)
(* background and background_cancel keep the contract: a call is refused   *)
(* or accepted, and an accepted one runs one of done and dropped, once,    *)
(* done exactly when nobody cancelled it and its owner still lives.        *)
THEOREM KeepsContract ==
  ASSUME NoWrap
  PROVE  JobsSafeSpec => ContractSafe
<1>1. IInv /\ [JobsNext]_jobVars => IInv'
  BY NextIInv
<1>2. IInv /\ [JobsNext]_jobVars => [Contract!Next]_(Contract!vars)
  BY NextContract
<1> QED
  BY InitIInv, InitContract, <1>1, <1>2, PTL
  DEF JobsSafeSpec, ContractSafe, Contract!SafeSpec

-----------------------------------------------------------------------------
(* The steps of the shell.                                                 *)

(* A step of one form leaves the others alone.                             *)
LEMMA FormStays ==
  ASSUME [Next]_vars
  PROVE  UNCHANGED <<backend, form>>
<1>1. CASE UNCHANGED vars
  BY <1>1 DEF vars
<1>2. CASE AtAnyTime
  BY <1>2 DEF AtAnyTime, CreateWindow, ShowWindow, CloseWindow, Run, Quit, In
<1>3. CASE WhileRunning
  BY <1>3 DEF WhileRunning, PersonDismisses, DriverCloses, ActivityRecreated, Opens, Toasts,
              SetsTransition, Closes, PressesScrim, PressesEscape, ShowsTip, HidesTip, In
<1>4. ASSUME NEW h, ToastExpires(h) \/ ExitEnds(h)
      PROVE  UNCHANGED <<backend, form>>
  BY <1>4 DEF ToastExpires, ExitEnds, In
<1>5. CASE TimerStep
  BY <1>5 DEF TimerStep, Makes, Refused, Cancels, Posts, Ticks, Returns, Drains, In
<1>6. CASE KeyStep
  BY <1>6 DEF KeyStep, BindsShortcut, BindsChord, Listens, Scopes, OpensOverlay, Expires,
              PersonPresses, DriverPresses, In
<1>7. CASE ReorderStep
  BY <1>7 DEF ReorderStep, Rebuilds, Presses, DragsOff, LetsGo, MovesOver, Drops,
              DragCancelled, DriverDrags, In
<1>8. CASE FileStep
  BY <1>8 DEF FileStep, PathSet, ButtonPressed, PointerOver, ButtonReleased, In
<1> QED
  BY <1>1, <1>2, <1>3, <1>4, <1>5, <1>6, <1>7, <1>8 DEF Next

-----------------------------------------------------------------------------
(* Timers.                                                                 *)

TimerRecord ==
  [alive : BOOLEAN, once : BOOLEAN, fired : BOOLEAN, posted : BOOLEAN,
   box : {"held", "grave", "freed", "forgotten"}, ticks : 0 .. 2]
TimerState(on) ==
  [on : {on}, timers : Seq(TimerRecord), running : Seq(Nat), refused : {0, 1}]

(* What is known of a timer, in its tick or not: a one-shot that has ticked *)
(* has been cancelled for it; a cancelled one's box on GTK is there as long *)
(* as a tick runs, on Win32 as long as any does, and on Android for ever.   *)
TimerOk(on, t, ticking) ==
  /\ t.alive => t.box = "held"
  /\ t.once => /\ t.ticks <= 1
               /\ t.ticks = 1 => t.fired
               /\ t.fired => ~t.alive
  /\ ~t.alive =>
       /\ on = "gtk" => t.box = IF ticking THEN "held" ELSE "freed"
       /\ on = "win32" => t.box \in {"grave"} \cup (IF ticking THEN {} ELSE {"freed"})
       /\ on = "android" => t.box = "forgotten"

TimersInv(s, on) ==
  /\ on \in {"gtk", "win32", "android"}
  /\ s \in TimerState(on)
  /\ \A i \in DOMAIN s.running : s.running[i] \in Ids(s)
  /\ \A id \in Ids(s) : TimerOk(on, s.timers[id], InTick(s, id))

(* What is known of every timer is what the run checks of it.              *)
LEMMA TimersInvHolds ==
  ASSUME NEW s, NEW on, TimersInv(s, on), NEW id \in Ids(s)
  PROVE  LET t == s.timers[id]
         IN /\ InTick(s, id) => t.box # "freed"
            /\ t.once => t.ticks <= 1
            /\ t.alive => t.box = "held"
            /\ ~t.alive /\ ~InTick(s, id) =>
                 t.box \in (IF on = "android" THEN {"forgotten"} ELSE {"grave", "freed"})
BY DEF TimersInv, TimerOk

(* One timer changes, and it may begin to tick.                            *)
Changed(s, id, t, ticks) ==
  [s EXCEPT !.timers = [@ EXCEPT ![id] = t],
            !.running = IF ticks THEN Append(@, id) ELSE @]
(* A timer that stays as it should be, ticking or not, leaves the others   *)
(* so.                                                                     *)
LEMMA OneTimer ==
  ASSUME NEW s, NEW on, TimersInv(s, on), NEW id \in Ids(s), NEW t \in TimerRecord, NEW ticks \in BOOLEAN,
         NEW u, u = Changed(s, id, t, ticks),
         TimerOk(on, t, ticks \/ InTick(s, id))
  PROVE  TimersInv(u, on)
<1>1. s.timers \in Seq(TimerRecord) /\ s.running \in Seq(Nat) /\ id \in Nat
  BY DEF TimersInv, TimerState, Ids
<1>2. u.timers = [s.timers EXCEPT ![id] = t] /\ u.running = IF ticks THEN Append(s.running, id) ELSE s.running
  BY DEF TimersInv, TimerState, Changed
<1>3. u.timers \in Seq(TimerRecord) /\ Ids(u) = Ids(s) /\ u.running \in Seq(Nat)
  BY <1>1, <1>2 DEF Ids
<1>4. u \in TimerState(on)
  BY <1>2, <1>3 DEF TimersInv, TimerState, Changed
<1>5. \A k : InTick(u, k) <=> InTick(s, k) \/ (ticks /\ k = id)
  <2>1. CASE ticks
    <3>2. u.running = Append(s.running, id)
      BY <1>2, <2>1
    <3>1. /\ Len(s.running) \in Nat /\ DOMAIN s.running = 1 .. Len(s.running)
          /\ DOMAIN u.running = 1 .. Len(s.running) + 1
      BY <1>1, <3>2
    <3>3. u.running[Len(s.running) + 1] = id
      BY <1>1, <3>2
    <3>4. \A i \in DOMAIN s.running : u.running[i] = s.running[i]
      BY <1>1, <3>2
    <3>5. \A i \in DOMAIN u.running : i \in DOMAIN s.running \/ i = Len(s.running) + 1
      BY <3>1
    <3>6. Len(s.running) + 1 \in DOMAIN u.running /\ DOMAIN s.running \subseteq DOMAIN u.running
      BY <3>1
    <3> QED
      BY <2>1, <3>3, <3>4, <3>5, <3>6 DEF InTick
  <2>2. CASE ~ticks
    BY <1>2, <2>2 DEF InTick
  <2> QED
    BY <2>1, <2>2
<1>6. \A i \in DOMAIN u.running : u.running[i] \in Ids(u)
  BY <1>1, <1>2, <1>3 DEF TimersInv
<1>7. \A k \in Ids(u) : TimerOk(on, u.timers[k], InTick(u, k))
  <2> TAKE k \in Ids(u)
  <2>1. CASE k = id
    BY <1>1, <1>2, <1>3, <1>5, <2>1 DEF Ids, TimerOk
  <2>2. CASE k # id
    BY <1>1, <1>2, <1>3, <1>5, <2>2 DEF Ids, TimersInv, TimerOk
  <2> QED
    BY <2>1, <2>2
<1> QED
  BY <1>3, <1>4, <1>6, <1>7 DEF TimersInv

(* What is known of one timer.                                             *)
LEMMA TimerAt ==
  ASSUME NEW s, NEW on, TimersInv(s, on), NEW id \in Ids(s)
  PROVE  s.timers[id] \in TimerRecord /\ TimerOk(on, s.timers[id], InTick(s, id)) /\ s.on = on
BY DEF TimersInv, TimerState, Ids

(* A cancel changes the one timer, or none.                                *)
Cancelled1(t, box) == [t EXCEPT !.alive = FALSE, !.box = box]
BoxThen(on, box, ticking) ==
  CASE on = "gtk" -> IF ticking THEN "held" ELSE "freed"
    [] on = "win32" -> IF box = "held" THEN "grave" ELSE box
    [] on = "android" -> "forgotten"

(* A cancelled timer has ticked as often as before.                        *)
LEMMA CancelledIs ==
  ASSUME NEW t \in TimerRecord, NEW box \in {"held", "grave", "freed", "forgotten"}
  PROVE  /\ Cancelled1(t, box) \in TimerRecord
         /\ ~Cancelled1(t, box).alive /\ Cancelled1(t, box).box = box
         /\ Cancelled1(t, box).once = t.once /\ Cancelled1(t, box).fired = t.fired
         /\ Cancelled1(t, box).ticks = t.ticks
BY DEF TimerRecord, Cancelled1

(* On every backend a cancel changes its timer alone; on GTK and Android   *)
(* one that is gone is not cancelled again.                                *)
LEMMA TimerCancelIs ==
  ASSUME NEW s, NEW on \in {"gtk", "win32", "android"}, s \in TimerState(on), NEW id \in Ids(s)
  PROVE  LET t == s.timers[id]
         IN  Cancel(s, id) = IF on # "win32" /\ ~t.alive THEN s
                             ELSE Changed(s, id, Cancelled1(t, BoxThen(on, t.box, InTick(s, id))), FALSE)
<1>1. s.on = on
  BY DEF TimerState
<1>2. CASE on = "gtk"
  BY <1>1, <1>2 DEF Cancel, GtkCancel, Changed, TimerState, Ids, TimerRecord, Cancelled1, BoxThen
<1>3. CASE on = "win32"
  BY <1>1, <1>3 DEF Cancel, Win32Cancel, Changed, TimerState, Ids, TimerRecord, Cancelled1, BoxThen
<1>4. CASE on = "android"
  BY <1>1, <1>4 DEF Cancel, AndroidCancel, Changed, TimerState, Ids, TimerRecord, Cancelled1, BoxThen
<1> QED
  BY <1>2, <1>3, <1>4

(* A cancel, from anywhere: a box in a tick stays, buried on Win32.        *)
LEMMA CancelKeeps ==
  ASSUME NEW s, NEW on, TimersInv(s, on), NEW id \in Ids(s)
  PROVE  TimersInv(Cancel(s, id), on)
<1> DEFINE t == s.timers[id]
           box == BoxThen(on, t.box, InTick(s, id))
           new == Cancelled1(t, box)
<1>1. /\ on \in {"gtk", "win32", "android"} /\ s \in TimerState(on)
      /\ t \in TimerRecord /\ TimerOk(on, t, InTick(s, id))
  BY TimerAt DEF TimersInv
<1>2. t.box \in {"held", "grave", "freed", "forgotten"}
  BY <1>1 DEF TimerRecord
<1>3. box \in {"held", "grave", "freed", "forgotten"}
  BY <1>1, <1>2 DEF BoxThen
<1>4. /\ new \in TimerRecord /\ ~new.alive /\ new.box = box
      /\ new.once = t.once /\ new.fired = t.fired /\ new.ticks = t.ticks
  BY <1>1, <1>3, CancelledIs
<1>5. TimerOk(on, new, FALSE \/ InTick(s, id))
  BY <1>1, <1>2, <1>4 DEF TimerOk, BoxThen
<1>6. TimersInv(Changed(s, id, new, FALSE), on)
  BY <1>4, <1>5, OneTimer
<1> QED
  BY <1>1, <1>6, TimerCancelIs

(* A tick posted to Win32's sink.                                          *)
LEMMA PostedKeeps ==
  ASSUME NEW s, NEW on, TimersInv(s, on), NEW id \in Ids(s)
  PROVE  TimersInv(Posted(s, id), on)
<1> DEFINE new == [s.timers[id] EXCEPT !.posted = TRUE]
<1>1. s.timers[id] \in TimerRecord /\ TimerOk(on, s.timers[id], InTick(s, id))
  BY TimerAt
<1>2. new \in TimerRecord /\ TimerOk(on, new, FALSE \/ InTick(s, id))
  BY <1>1 DEF TimerRecord, TimerOk
<1>3. Posted(s, id) = Changed(s, id, new, FALSE)
  BY DEF Posted, Changed, TimersInv, TimerState, Ids
<1> QED
  BY <1>2, <1>3, OneTimer

Ticking(t) == [t EXCEPT !.ticks = IF @ < 2 THEN @ + 1 ELSE @]

(* A tick that begins changes its timer, and is added to those running.    *)
LEMMA BegunIs ==
  ASSUME NEW on, NEW s \in TimerState(on), NEW id \in Ids(s)
  PROVE  Begun(s, id) = Changed(s, id, Ticking(s.timers[id]), TRUE)
BY DEF Begun, Changed, Ticking, TimerState, Ids

(* What a tick makes of a one-shot that has not ticked.                    *)
Ticked(t) == [[t EXCEPT !.fired = TRUE] EXCEPT !.ticks = IF @ < 2 THEN @ + 1 ELSE @]
(* It has fired, and has ticked once.                                      *)
LEMMA TickedIs ==
  ASSUME NEW t \in TimerRecord, t.ticks = 0
  PROVE  /\ Ticked(t) \in TimerRecord /\ Ticked(t).fired /\ Ticked(t).ticks = 1
         /\ Ticked(t).alive = t.alive /\ Ticked(t).once = t.once /\ Ticked(t).box = t.box
<1> DEFINE fired == [t EXCEPT !.fired = TRUE]
           ticked == [fired EXCEPT !.ticks = 1]
<1>1. /\ fired \in TimerRecord /\ fired.fired /\ fired.ticks = 0
      /\ fired.alive = t.alive /\ fired.once = t.once /\ fired.box = t.box
  BY DEF TimerRecord
<1>2. Ticked(t) = [fired EXCEPT !.ticks = IF fired.ticks < 2 THEN fired.ticks + 1 ELSE fired.ticks]
  BY DEF Ticked
<1> HIDE DEF fired
<1>3. (IF fired.ticks < 2 THEN fired.ticks + 1 ELSE fired.ticks) = 1
  BY <1>1
<1>4. Ticked(t) = ticked
  BY <1>2, <1>3
<1>5. ticked \in TimerRecord
  BY <1>1 DEF TimerRecord
<1>6. /\ ticked.ticks = 1 /\ ticked.fired = fired.fired /\ ticked.alive = fired.alive
      /\ ticked.once = fired.once /\ ticked.box = fired.box
  BY <1>1 DEF TimerRecord
<1> QED
  BY <1>1, <1>4, <1>5, <1>6

(* A tick begins: a one-shot that has not ticked is cancelled for it.      *)
LEMMA AfterTickIs ==
  ASSUME NEW s, NEW on \in {"gtk", "win32", "android"}, s \in TimerState(on), NEW id \in Ids(s),
         s.timers[id].alive, ~s.timers[id].fired, s.timers[id].box = "held", s.timers[id].ticks = 0
  PROVE  AfterTick(s, id) =
           Changed(s, id, Cancelled1(Ticked(s.timers[id]), BoxThen(on, "held", TRUE)), TRUE)
<1> DEFINE t == s.timers[id]
           begun == Ticked(t)
           m == Begun([s EXCEPT !.timers[id].fired = TRUE], id)
<1>1. t \in TimerRecord /\ t.ticks = 0 /\ s.running \in Seq(Nat) /\ id \in Nat /\ s.timers \in Seq(TimerRecord)
  BY DEF TimerState, Ids
<1>2. begun \in TimerRecord
  <2> HIDE DEF t
  <2> QED
    BY <1>1, TickedIs
<1>3. m = Changed(s, id, begun, TRUE)
  <2> DEFINE first == [t EXCEPT !.fired = TRUE]
             n == [s EXCEPT !.timers[id].fired = TRUE]
             list == [s.timers EXCEPT ![id] = first]
  <2>1. n = [s EXCEPT !.timers = list]
    BY Zenon
  <2>2. n.timers = list /\ n.running = s.running /\ DOMAIN n = DOMAIN s
    BY <2>1 DEF TimerState
  <2>3. list[id] = first /\ begun = [first EXCEPT !.ticks = IF @ < 2 THEN @ + 1 ELSE @]
    BY <1>1 DEF Ids, Ticked
  <2>4. [list EXCEPT ![id] = begun] = [s.timers EXCEPT ![id] = begun]
    BY <1>1 DEF Ids
  <2>5. n \in TimerState(on)
    <3>1. first \in TimerRecord
      BY <1>1 DEF TimerRecord
    <3>2. list \in Seq(TimerRecord)
      <4> HIDE DEF first
      <4> QED
        BY <1>1, <3>1 DEF Ids
    <3> HIDE DEF list, n
    <3> QED
      BY <2>1, <3>2 DEF TimerState
  <2>6. m = Changed(n, id, begun, TRUE)
    <3>1. m = Begun(n, id) /\ id \in DOMAIN s.timers
      BY DEF Ids
    <3>2. DOMAIN list = DOMAIN s.timers
      OBVIOUS
    <3> HIDE DEF n, first, list, begun, m
    <3>3. id \in Ids(n) /\ n.timers[id] = first /\ begun = Ticking(first)
      BY <2>2, <2>3, <3>1, <3>2 DEF Ids, Ticking
    <3> QED
      BY <2>5, <3>1, <3>3, BegunIs
  <2> QED
    BY <2>1, <2>2, <2>4, <2>6 DEF Changed, TimerState
<1>4. m.timers = [s.timers EXCEPT ![id] = begun] /\ m.running = Append(s.running, id)
  BY <1>3 DEF Changed, TimerState
<1>5. m.timers \in Seq(TimerRecord) /\ m.running \in Seq(Nat) /\ DOMAIN m.timers = DOMAIN s.timers
  <2> HIDE DEF m, begun
  <2> QED
    BY <1>1, <1>2, <1>4 DEF Ids
<1>6. m \in TimerState(on)
  <2> HIDE DEF begun, m
  <2> QED
    BY <1>3, <1>4, <1>5 DEF Changed, TimerState
<1>7. id \in Ids(m) /\ m.timers[id] = begun
  BY <1>1, <1>4, <1>5 DEF Ids
<1>8. InTick(m, id)
  <2>1. Append(s.running, id)[Len(s.running) + 1] = id
        /\ Len(s.running) + 1 \in DOMAIN Append(s.running, id)
    BY <1>1
  <2> QED
    BY <1>4, <2>1 DEF InTick
<1>9. AfterTick(s, id) = Cancel(m, id)
  BY DEF AfterTick
<1>10. begun.alive /\ begun.box = "held"
  BY <1>1, TickedIs
<1>11. Cancel(m, id) = Changed(m, id, Cancelled1(begun, BoxThen(on, "held", TRUE)), FALSE)
  <2> HIDE DEF m, begun
  <2> QED
    BY <1>6, <1>7, <1>8, <1>10, TimerCancelIs
<1>12. \A new : Changed(m, id, new, FALSE) = Changed(s, id, new, TRUE)
  <2> HIDE DEF begun, m
  <2> QED
    BY <1>1, <1>3, <1>4 DEF Changed, TimerState, Ids
<1> QED
  BY <1>9, <1>11, <1>12

(* The tick of a one-shot: it has not fired, for one that has is not       *)
(* alive.                                                                  *)
LEMMA AfterTickKeeps ==
  ASSUME NEW s, NEW on, TimersInv(s, on), NEW id \in Ids(s),
         s.timers[id].alive, s.timers[id].once
  PROVE  TimersInv(AfterTick(s, id), on)
<1> DEFINE t == s.timers[id]
           box == BoxThen(on, "held", TRUE)
           new == Cancelled1(Ticked(t), box)
<1>1. /\ on \in {"gtk", "win32", "android"} /\ s \in TimerState(on)
      /\ t \in TimerRecord /\ TimerOk(on, t, InTick(s, id))
  BY TimerAt DEF TimersInv
<1>2. t.ticks \in 0 .. 2
  BY <1>1 DEF TimerRecord
<1>3. ~t.fired /\ t.ticks = 0 /\ t.box = "held"
  BY <1>1, <1>2 DEF TimerOk
<1>4. AfterTick(s, id) = Changed(s, id, new, TRUE)
  BY <1>1, <1>3, AfterTickIs
<1>5. box \in {"held", "grave", "freed", "forgotten"}
  BY <1>1 DEF BoxThen
<1>6. /\ Ticked(t) \in TimerRecord /\ Ticked(t).fired /\ Ticked(t).ticks = 1
  BY <1>1, <1>3, TickedIs
<1>7. /\ new \in TimerRecord /\ ~new.alive /\ new.box = box /\ new.fired /\ new.ticks = 1
  <2> HIDE DEF t, box
  <2> QED
    BY <1>5, <1>6, CancelledIs
<1>8. TimerOk(on, new, TRUE \/ InTick(s, id))
  BY <1>1, <1>7 DEF TimerOk, BoxThen
<1>9. TimersInv(Changed(s, id, new, TRUE), on)
  <2> HIDE DEF new
  <2> QED
    BY <1>7, <1>8, OneTimer
<1> QED
  BY <1>4, <1>9

(* The tick of a repeating timer.                                          *)
LEMMA BegunKeeps ==
  ASSUME NEW s, NEW on, TimersInv(s, on), NEW id \in Ids(s),
         s.timers[id].alive, ~s.timers[id].once
  PROVE  TimersInv(Begun(s, id), on)
<1> DEFINE new == [s.timers[id] EXCEPT !.ticks = IF @ < 2 THEN @ + 1 ELSE @]
<1>1. s.timers[id] \in TimerRecord /\ TimerOk(on, s.timers[id], InTick(s, id))
  BY TimerAt
<1>2. new \in TimerRecord /\ TimerOk(on, new, TRUE \/ InTick(s, id))
  BY <1>1 DEF TimerRecord, TimerOk
<1>3. Begun(s, id) = Changed(s, id, new, TRUE)
  BY DEF Begun, Changed, TimersInv, TimerState, Ids
<1> QED
  BY <1>2, <1>3, OneTimer

(* A tick that can be taken: Win32's sink looks at the timer again.        *)
LEMMA TickBeginsKeeps ==
  ASSUME NEW s, NEW on, TimersInv(s, on), NEW id \in Ids(s), MayTick(s, id)
  PROVE  TimersInv(TickBegins(s, id), on)
<1>1. s.on = on /\ on \in {"gtk", "win32", "android"} /\ s.timers[id] \in TimerRecord
  BY TimerAt DEF TimersInv
<1>2. CASE on = "win32"
  <2> DEFINE taken == [s EXCEPT !.timers[id].posted = FALSE]
             new == [s.timers[id] EXCEPT !.posted = FALSE]
  <2>1. TimerOk(on, s.timers[id], InTick(s, id))
    BY TimerAt
  <2>2. new \in TimerRecord /\ TimerOk(on, new, FALSE \/ InTick(s, id))
    BY <1>1, <2>1 DEF TimerRecord, TimerOk
  <2>3. taken = Changed(s, id, new, FALSE)
    BY DEF Changed, TimersInv, TimerState, Ids
  <2>4. TimersInv(taken, on)
    BY <2>2, <2>3, OneTimer
  <2>5. id \in Ids(taken) /\ taken.timers[id] = new
    BY DEF TimersInv, TimerState, Ids
  <2>6. taken.timers[id].alive = s.timers[id].alive /\ taken.timers[id].once = s.timers[id].once
    BY <1>1, <2>5 DEF TimerRecord
  <2>7. TickBegins(s, id) = CASE ~s.timers[id].alive -> taken
                              [] s.timers[id].alive /\ s.timers[id].once -> AfterTick(taken, id)
                              [] OTHER -> Begun(taken, id)
    BY <1>1, <1>2 DEF TickBegins, Win32Sink
  <2> HIDE DEF taken, new
  <2> QED
    BY <1>1, <2>4, <2>5, <2>6, <2>7, AfterTickKeeps, BegunKeeps DEF TimerRecord
<1>3. CASE on # "win32"
  <2>1. s.timers[id].alive
    BY <1>1, <1>3 DEF MayTick, GtkMayTick, AndroidMayTick
  <2>2. TickBegins(s, id) = IF s.timers[id].once THEN AfterTick(s, id) ELSE Begun(s, id)
    BY <1>1, <1>3 DEF TickBegins
  <2> QED
    BY <1>1, <2>1, <2>2, AfterTickKeeps, BegunKeeps DEF TimerRecord
<1> QED
  BY <1>2, <1>3

(* A tick ends: its timer may be in no tick any more, and on GTK a         *)
(* cancelled one's box then goes.                                          *)
LEMMA TickEndsKeeps ==
  ASSUME NEW s, NEW on, TimersInv(s, on), s.running # <<>>
  PROVE  TimersInv(TickEnds(s), on)
<1> DEFINE n == Len(s.running)
           id == s.running[n]
           rest == [s EXCEPT !.running = SubSeq(@, 1, Len(@) - 1)]
           frees == on = "gtk" /\ ~s.timers[id].alive /\ ~InTick(rest, id)
           freed == [s.timers[id] EXCEPT !.box = "freed"]
           u == TickEnds(s)
<1>1. s \in TimerState(on) /\ s.timers \in Seq(TimerRecord) /\ s.running \in Seq(Nat) /\ s.on = on
  BY DEF TimersInv, TimerState
<1>2. n \in Nat /\ n >= 1 /\ n \in DOMAIN s.running /\ DOMAIN s.running = 1 .. n
  BY <1>1
<1>3. id \in Ids(s) /\ InTick(s, id)
  BY <1>2 DEF TimersInv, InTick
<1>4. /\ rest.running \in Seq(Nat) /\ DOMAIN rest.running = 1 .. n - 1
      /\ \A i \in 1 .. n - 1 : rest.running[i] = s.running[i]
  <2>1. rest.running = SubSeq(s.running, 1, n - 1)
    BY <1>1 DEF TimerState
  <2>2. n - 1 \in Nat /\ n - 1 <= n
    BY <1>2
  <2>3. \A m \in Nat : m <= n => /\ SubSeq(s.running, 1, m) \in Seq(Nat)
                                /\ DOMAIN SubSeq(s.running, 1, m) = 1 .. m
                                /\ \A i \in 1 .. m : SubSeq(s.running, 1, m)[i] = s.running[i]
    BY <1>1, <1>2
  <2> HIDE DEF n, rest
  <2> QED
    BY <2>1, <2>2, <2>3
<1>5. rest \in TimerState(on) /\ rest.timers = s.timers /\ rest.on = on
  BY <1>1, <1>4 DEF TimerState
<1>6. \A k : InTick(rest, k) => InTick(s, k)
  BY <1>2, <1>4 DEF InTick
<1>7. \A k : k # id => (InTick(rest, k) <=> InTick(s, k))
  <2>1. \A i \in 1 .. n : i \in 1 .. n - 1 \/ i = n
    BY <1>2
  <2> QED
    BY <1>2, <1>4, <1>6, <2>1 DEF InTick
<1>8. s.timers[id] \in TimerRecord /\ TimerOk(on, s.timers[id], TRUE)
  BY <1>3, TimerAt
<1>9. freed \in TimerRecord
  BY <1>8 DEF TimerRecord
<1>10. u = IF frees THEN [rest EXCEPT !.timers[id].box = "freed"] ELSE rest
  BY <1>1 DEF TickEnds
<1>11. /\ u.running = rest.running /\ u \in TimerState(on)
       /\ u.timers = IF frees THEN [s.timers EXCEPT ![id] = freed] ELSE s.timers
  <2>1. CASE ~frees
    BY <1>5, <1>10, <2>1
  <2>2. CASE frees
    <3>1. u = [rest EXCEPT !.timers = [s.timers EXCEPT ![id] = freed]]
      BY <1>5, <1>10, <2>2
    <3>2. [s.timers EXCEPT ![id] = freed] \in Seq(TimerRecord)
      BY <1>1, <1>3, <1>9 DEF Ids
    <3> HIDE DEF u, rest, freed
    <3> QED
      BY <1>5, <2>2, <3>1, <3>2 DEF TimerState
  <2> QED
    BY <2>1, <2>2
<1>12. Ids(u) = Ids(s)
  BY <1>11 DEF Ids
<1>13. \A k : InTick(u, k) <=> InTick(rest, k)
  BY <1>11 DEF InTick
<1>14. \A i \in DOMAIN u.running : u.running[i] \in Ids(u)
  <2>1. \A i \in 1 .. n - 1 : i \in 1 .. n
    BY <1>2
  <2> QED
    BY <1>2, <1>4, <1>11, <1>12, <2>1 DEF TimersInv
<1>15. ASSUME NEW k \in Ids(u)
       PROVE  TimerOk(on, u.timers[k], InTick(u, k))
  <2>1. CASE k # id
    <3>1. u.timers[k] = s.timers[k]
      BY <1>11, <1>12, <2>1 DEF Ids
    <3> QED
      BY <1>7, <1>12, <1>13, <2>1, <3>1 DEF TimersInv, TimerOk
  <2>2. CASE k = id /\ frees
    <3>1. u.timers[k] = freed /\ ~InTick(u, k)
      BY <1>3, <1>11, <1>13, <2>2 DEF Ids
    <3>2. /\ freed.box = "freed" /\ ~freed.alive /\ freed.once = s.timers[id].once
          /\ freed.fired = s.timers[id].fired /\ freed.ticks = s.timers[id].ticks
      BY <1>8, <2>2 DEF TimerRecord
    <3> HIDE DEF freed
    <3> QED
      BY <1>8, <2>2, <3>1, <3>2 DEF TimerOk
  <2>3. CASE k = id /\ ~frees
    <3>1. u.timers[k] = s.timers[id]
      BY <1>11, <2>3
    <3>2. on = "gtk" /\ ~s.timers[id].alive => InTick(u, k)
      BY <1>13, <2>3
    <3> QED
      BY <1>8, <3>1, <3>2 DEF TimerOk
  <2> QED
    BY <2>1, <2>2, <2>3
<1>16. TimersInv(u, on)
  <2>1. on \in {"gtk", "win32", "android"}
    BY DEF TimersInv
  <2> HIDE DEF u
  <2> QED
    BY <1>11, <1>14, <1>15, <2>1 DEF TimersInv
<1> QED
  BY <1>16

(* The graveyard is emptied when no tick runs.                             *)
LEMMA DrainedKeeps ==
  ASSUME NEW s, NEW on, TimersInv(s, on), MayDrain(s)
  PROVE  TimersInv(Drained(s), on)
<1> DEFINE new(id) == IF s.timers[id].box = "grave" THEN [s.timers[id] EXCEPT !.box = "freed"] ELSE s.timers[id]
           u == Drained(s)
<1>1. s \in TimerState(on) /\ s.timers \in Seq(TimerRecord) /\ s.running = <<>>
  BY DEF TimersInv, TimerState, MayDrain
<1>2. \A id : ~InTick(s, id)
  BY <1>1 DEF InTick
<1>3. ASSUME NEW id \in Ids(s)
      PROVE  new(id) \in TimerRecord /\ TimerOk(on, new(id), FALSE)
  <2>1. s.timers[id] \in TimerRecord /\ TimerOk(on, s.timers[id], FALSE)
    BY <1>2, TimerAt DEF TimerOk
  <2> QED
    BY <2>1 DEF TimerRecord, TimerOk
<1>4. u = [s EXCEPT !.timers = [id \in Ids(s) |-> new(id)]]
  BY DEF Drained
<1>5. [id \in Ids(s) |-> new(id)] \in Seq(TimerRecord)
  <2>1. Ids(s) = 1 .. Len(s.timers) /\ Len(s.timers) \in Nat
    BY <1>1 DEF Ids
  <2>2. \A id \in 1 .. Len(s.timers) : new(id) \in TimerRecord
    BY <1>3, <2>1
  <2> HIDE DEF new
  <2> QED
    BY <2>1, <2>2, IsASeq
<1>6. u \in TimerState(on) /\ u.running = <<>> /\ u.timers = [id \in Ids(s) |-> new(id)]
  <2> HIDE DEF new, u
  <2> QED
    BY <1>1, <1>4, <1>5 DEF TimerState
<1>7. Ids(u) = Ids(s) /\ \A id : ~InTick(u, id)
  BY <1>6 DEF Ids, InTick
<1>8. \A id \in Ids(u) : TimerOk(on, u.timers[id], InTick(u, id))
  <2> HIDE DEF new, u
  <2> QED
    BY <1>3, <1>6, <1>7 DEF TimerOk
<1> QED
  BY <1>6, <1>8 DEF TimersInv

(* A timer more: no tick of it runs.                                       *)
LEMMA TimerMadeKeeps ==
  ASSUME NEW s, NEW on, TimersInv(s, on), NEW once \in BOOLEAN
  PROVE  TimersInv(TimerMade(s, once), on)
<1> DEFINE u == TimerMade(s, once)
           n == Len(s.timers)
<1>1. s \in TimerState(on) /\ s.timers \in Seq(TimerRecord) /\ n \in Nat /\ Ids(s) = 1 .. n
  BY DEF TimersInv, TimerState, Ids
<1>2. Timer(once) \in TimerRecord /\ TimerOk(on, Timer(once), FALSE)
  BY DEF Timer, TimerRecord, TimerOk
<1>3. u.timers = Append(s.timers, Timer(once)) /\ u.running = s.running
  BY <1>1 DEF TimerMade, TimerState
<1>4. Append(s.timers, Timer(once)) \in Seq(TimerRecord)
  BY <1>1, <1>2
<1>5. u \in TimerState(on)
  BY <1>1, <1>4 DEF TimerMade, TimerState
<1>6. /\ Ids(u) = 1 .. n + 1 /\ u.timers[n + 1] = Timer(once)
      /\ \A id \in 1 .. n : u.timers[id] = s.timers[id]
  BY <1>1, <1>3 DEF Ids
<1>7. \A id : InTick(u, id) <=> InTick(s, id)
  BY <1>3 DEF InTick
<1>8. ~InTick(s, n + 1)
  BY <1>1 DEF InTick, TimersInv
<1>9. \A id \in Ids(u) : TimerOk(on, u.timers[id], InTick(u, id))
  <2>1. \A id \in Ids(u) : id \in 1 .. n \/ id = n + 1
    BY <1>1, <1>6
  <2> HIDE DEF u, n
  <2> QED
    BY <1>1, <1>2, <1>6, <1>7, <1>8, <2>1 DEF TimersInv, TimerOk
<1>10. \A i \in DOMAIN u.running : u.running[i] \in Ids(u)
  <2>1. Ids(s) \subseteq Ids(u)
    BY <1>1, <1>6
  <2> QED
    BY <1>3, <2>1 DEF TimersInv
<1> QED
  BY <1>5, <1>9, <1>10 DEF TimersInv

(* A one-shot refused is no timer.                                         *)
LEMMA RefusedKeeps ==
  ASSUME NEW s, NEW on, TimersInv(s, on)
  PROVE  TimersInv(AndroidTimerRefused(s), on)
<1> DEFINE u == AndroidTimerRefused(s)
<1>1. u \in TimerState(on) /\ u.timers = s.timers /\ u.running = s.running
  BY DEF TimersInv, TimerState, AndroidTimerRefused
<1>2. Ids(u) = Ids(s) /\ \A id : InTick(u, id) <=> InTick(s, id)
  BY <1>1 DEF Ids, InTick
<1>3. TimersInv(u, on)
  <2> HIDE DEF u
  <2> QED
    BY <1>1, <1>2 DEF TimersInv, TimerOk
<1> QED
  BY <1>3

(* Every step of the timers.                                               *)
LEMMA TimerStepKeeps ==
  ASSUME TimersInv(st, backend), form = "timers", TimerStep
  PROVE  TimersInv(st', backend)
<1>1. ASSUME NEW once \in BOOLEAN, Makes(once) \/ Refused(once) PROVE TimersInv(st', backend)
  BY <1>1, TimerMadeKeeps, RefusedKeeps DEF Makes, Refused, In
<1>2. ASSUME NEW id \in Ids(st), Cancels(id) \/ Posts(id) \/ Ticks(id) PROVE TimersInv(st', backend)
  BY <1>2, CancelKeeps, PostedKeeps, TickBeginsKeeps DEF Cancels, Posts, Ticks, In
<1>3. CASE Returns
  BY <1>3, TickEndsKeeps DEF Returns, In
<1>4. CASE Drains
  BY <1>4, DrainedKeeps DEF Drains, In
<1> QED
  BY <1>1, <1>2, <1>3, <1>4 DEF TimerStep

(* There are none to begin with.                                           *)
LEMMA NoTimersKept ==
  ASSUME NEW on \in {"gtk", "win32", "android"}
  PROVE  TimersInv(NoTimers(on), on)
<1>1. <<>> \in Seq(TimerRecord) /\ <<>> \in Seq(Nat) /\ DOMAIN <<>> = {}
  OBVIOUS
<1> QED
  BY <1>1 DEF NoTimers, TimersInv, TimerState, Ids

(* A step of another form is no step of the timers.                        *)
LEMMA OnlyTimersStep ==
  ASSUME form = "timers", [Next]_vars
  PROVE  TimerStep \/ UNCHANGED st
<1>1. CASE UNCHANGED vars
  BY <1>1 DEF vars
<1>2. CASE Running /\ WhileRunning
  BY <1>2 DEF Running
<1>3. ASSUME NEW h, ToastExpires(h) \/ ExitEnds(h)
      PROVE  FALSE
  BY <1>3 DEF ToastExpires, ExitEnds, Running
<1> QED
  BY <1>1, <1>2, <1>3 DEF Next

ShellTimersInv == backend \in {"gtk", "win32", "android"} /\ (form = "timers" => TimersInv(st, backend))

(* For any number of timers, on every backend: no closure is freed in its  *)
(* own tick, a one-shot ticks once at most, a timer that is not cancelled  *)
(* holds its closure and a cancelled one's is given back where the backend *)
(* gives it back, however ticks nest and whoever cancels whom in them.     *)
THEOREM ClosuresAreHeld == SafeSpec => []TimersHold
<1>1. Init => ShellTimersInv
  BY ShellAssumption, NoTimersKept DEF Init, ShellTimersInv
<1>2. ShellTimersInv /\ [Next]_vars => ShellTimersInv'
  BY FormStays, OnlyTimersStep, TimerStepKeeps DEF ShellTimersInv
<1>3. ShellTimersInv => TimersHold
  BY TimersInvHolds DEF ShellTimersInv, TimersHold
<1> QED
  BY <1>1, <1>2, <1>3, PTL DEF SafeSpec

WindowRecord ==
  [made : BOOLEAN, sheet : BOOLEAN, live : BOOLEAN, up : BOOLEAN, shown : BOOLEAN, app : BOOLEAN]
EntryRecord ==
  [win : Windows, kind : {"modal", "toast", "tip"}, live : BOOLEAN, exiting : BOOLEAN,
   tweens : BOOLEAN, content : {"up", "adrift", "gone"}, told : BOOLEAN]
SurfaceState(on) ==
  [on : {on}, wins : [Windows -> WindowRecord], loop : {"before", "runs", "over"},
   uses : Int, stop : BOOLEAN, quit : BOOLEAN, early : BOOLEAN, entries : Seq(EntryRecord),
   timers : SUBSET Nat, tip : Nat, torn : BOOLEAN]

(* A window there is was made; GTK's is in the registry as long as it is   *)
(* up, and as long as it counts for the application.                       *)
WinsTrue(on, wins) ==
  \A w \in Windows : /\ wins[w].live \/ wins[w].up => wins[w].made
                     /\ on = "gtk" => /\ wins[w].live => wins[w].up
                                      /\ wins[w].app /\ wins[w].up => wins[w].live

(* Where nothing was made before the run, GTK's use count is two for each  *)
(* window there is.                                                        *)
LoopTrue(s, on) ==
  ~s.early =>
    /\ s.loop = "before" => (\A w \in Windows : ~s.wins[w].made) /\ (s.stop => s.quit)
    /\ s.loop = "runs" =>
         /\ IF on = "android" THEN s.wins[1].live ELSE LiveWindows(s) # {}
         /\ on = "gtk" => /\ IsFiniteSet(LiveWindows(s)) /\ s.uses = 2 * Cardinality(LiveWindows(s))
                          /\ \A w \in LiveWindows(s) : s.wins[w].app
    /\ s.loop = "over" => s.quit \/ (IF on = "android" THEN ~s.wins[1].live ELSE LiveWindows(s) = {})

(* An entry's window was made; on Android, whose windows come and go, it   *)
(* keeps its content until the activity ends. The one waived is in the     *)
(* middle of its dismissal.                                                *)
EntryTrue(on, loop, wins, e, waived) ==
  /\ wins[e.win].made
  /\ e.live /\ (wins[e.win].up \/ (on = "android" /\ loop # "over")) => e.content # "gone"
  /\ ~e.live => e.content = "gone" /\ ~e.exiting
  /\ e.told => waived \/ ~e.live \/ e.exiting
  /\ e.kind = "tip" => ~e.tweens /\ ~e.exiting
EachTrue(s, on, h) ==
  /\ s.loop = "before" => s.entries = <<>>
  /\ \A k \in DOMAIN s.entries : EntryTrue(on, s.loop, s.wins, s.entries[k], k = h)
OneTip(s) == \A k \in DOMAIN s.entries : s.entries[k].kind = "tip" /\ s.entries[k].live => s.tip = k

SurfacesInv(s, on) ==
  /\ s \in SurfaceState(on)
  /\ ~s.torn => WinsTrue(on, s.wins) /\ LoopTrue(s, on) /\ EachTrue(s, on, 0) /\ OneTip(s)

(* What the overlays leave alone.                                          *)
Quiet(s, u) ==
  /\ u.wins = s.wins /\ u.loop = s.loop /\ u.uses = s.uses /\ u.stop = s.stop
  /\ u.quit = s.quit /\ u.early = s.early /\ u.torn = s.torn

(* A process that has touched freed memory is one of these states too.     *)
LEMMA TornIs ==
  ASSUME NEW on \in {"gtk", "win32", "android"}, NEW s \in SurfaceState(on)
  PROVE  Torn(s) \in SurfaceState(on) /\ Torn(s).torn /\ Torn(s).entries = <<>>
<1>1. s.on = on
  BY DEF SurfaceState
<1>2. NoWindow \in WindowRecord
  BY DEF NoWindow, WindowRecord
<1>3. [w \in Windows |-> NoWindow] \in [Windows -> WindowRecord]
  BY <1>2
<1>4. <<>> \in Seq(EntryRecord)
  OBVIOUS
<1>5. Fresh(on) \in SurfaceState(on) /\ Fresh(on).entries = <<>>
  BY <1>3, <1>4 DEF Fresh, SurfaceState
<1> QED
  BY <1>1, <1>5 DEF Torn, SurfaceState

(* What is in the overlay table is an entry.                               *)
LEMMA EntryAt ==
  ASSUME NEW on, NEW s \in SurfaceState(on), NEW h \in DOMAIN s.entries
  PROVE  s.entries[h] \in EntryRecord /\ h \in Nat /\ h \in 1 .. Len(s.entries)
BY DEF SurfaceState

(* What quiet leaves is what the loop and the windows rest on.             *)
LEMMA QuietKeeps ==
  ASSUME NEW s, NEW u, NEW on, Quiet(s, u), WinsTrue(on, s.wins), LoopTrue(s, on)
  PROVE  WinsTrue(on, u.wins) /\ LoopTrue(u, on)
BY DEF Quiet, LoopTrue, LiveWindows

(* One entry is given another record.                                      *)
LEMMA OneEntry ==
  ASSUME NEW on, NEW s \in SurfaceState(on), NEW k, EachTrue(s, on, k), OneTip(s),
         NEW h \in DOMAIN s.entries, NEW e \in EntryRecord,
         EntryTrue(on, s.loop, s.wins, e, h = k), e.kind = "tip" /\ e.live => s.tip = h,
         NEW u, u = [s EXCEPT !.entries = [s.entries EXCEPT ![h] = e]]
  PROVE  /\ u \in SurfaceState(on) /\ Quiet(s, u) /\ u.tip = s.tip /\ u.timers = s.timers
         /\ Len(u.entries) = Len(s.entries) /\ DOMAIN u.entries = DOMAIN s.entries
         /\ u.entries[h] = e
         /\ EachTrue(u, on, k) /\ OneTip(u)
<1>1. s.entries \in Seq(EntryRecord)
  BY DEF SurfaceState
<1>2. [s.entries EXCEPT ![h] = e] \in Seq(EntryRecord) /\ Len([s.entries EXCEPT ![h] = e]) = Len(s.entries)
  BY <1>1
<1>3. u \in SurfaceState(on) /\ u.entries = [s.entries EXCEPT ![h] = e]
  BY <1>2 DEF SurfaceState
<1>4. Quiet(s, u) /\ u.tip = s.tip /\ u.timers = s.timers
  BY DEF Quiet, SurfaceState
<1>5. DOMAIN u.entries = DOMAIN s.entries /\ u.entries[h] = e /\ Len(u.entries) = Len(s.entries)
  BY <1>2, <1>3
<1>6. \A i \in DOMAIN s.entries : i # h => u.entries[i] = s.entries[i]
  BY <1>3
<1>7. EachTrue(u, on, k)
  <2>1. s.loop # "before"
    BY <1>1 DEF EachTrue
  <2>2. ASSUME NEW i \in DOMAIN u.entries
        PROVE  EntryTrue(on, u.loop, u.wins, u.entries[i], i = k)
    BY <1>4, <1>5, <1>6 DEF EachTrue, EntryTrue, Quiet
  <2> QED
    BY <1>4, <2>1, <2>2 DEF EachTrue, Quiet
<1>8. OneTip(u)
  BY <1>4, <1>5, <1>6 DEF OneTip
<1> QED
  BY <1>3, <1>4, <1>5, <1>7, <1>8

(* An entry is detached: its content is gone and nothing of it plays.      *)
LEMMA DetachedIs ==
  ASSUME NEW on, NEW s \in SurfaceState(on), NEW k, EachTrue(s, on, k), OneTip(s),
         NEW h \in DOMAIN s.entries, NEW u, u = Detached(s, h)
  PROVE  /\ u \in SurfaceState(on) /\ Quiet(s, u) /\ u.tip = s.tip /\ u.timers = s.timers
         /\ Len(u.entries) = Len(s.entries) /\ DOMAIN u.entries = DOMAIN s.entries
         /\ ~u.entries[h].live
         /\ EachTrue(u, on, k) /\ OneTip(u)
<1> DEFINE e == [s.entries[h] EXCEPT !.live = FALSE, !.exiting = FALSE, !.content = "gone"]
<1>1. s.entries[h] \in EntryRecord
  BY EntryAt
<1>2. e \in EntryRecord /\ ~e.live /\ ~e.exiting /\ e.content = "gone" /\ e.win = s.entries[h].win
      /\ e.kind = s.entries[h].kind /\ e.tweens = s.entries[h].tweens
  BY <1>1 DEF EntryRecord
<1>3. EntryTrue(on, s.loop, s.wins, s.entries[h], h = k)
  BY DEF EachTrue
<1>4. EntryTrue(on, s.loop, s.wins, e, h = k)
  BY <1>2, <1>3 DEF EntryTrue
<1>5. u = [s EXCEPT !.entries = [s.entries EXCEPT ![h] = e]]
  BY <1>1 DEF Detached, SurfaceState, EntryRecord
<1> HIDE DEF e
<1> QED
  BY <1>2, <1>4, <1>5, OneEntry

(* A close detaches an entry, or begins its exit, or finds it so.          *)
LEMMA CloseIs ==
  ASSUME NEW on \in {"gtk", "win32", "android"}, NEW s \in SurfaceState(on), ~s.torn,
         NEW k, EachTrue(s, on, k), OneTip(s), NEW h, NEW u, u = Close(s, h)
  PROVE  /\ u \in SurfaceState(on)
         /\ u.torn \/ /\ Quiet(s, u) /\ u.tip = s.tip /\ EachTrue(u, on, k) /\ OneTip(u)
                      /\ DOMAIN u.entries = DOMAIN s.entries
                      /\ h \in DOMAIN s.entries => ~u.entries[h].live \/ u.entries[h].exiting
                      /\ h \in DOMAIN s.entries /\ u.entries[h].kind = "tip" => ~u.entries[h].live
<1> DEFINE e == [s.entries[h] EXCEPT !.exiting = TRUE]
<1>1. CASE h \notin DOMAIN s.entries
  BY <1>1 DEF Close, Has, Quiet
<1>2. CASE h \in DOMAIN s.entries /\ (~s.entries[h].live \/ s.entries[h].exiting)
  <2>1. u = s
    BY <1>2 DEF Close, Has
  <2> QED
    BY <1>2, <2>1 DEF Quiet, EachTrue, EntryTrue
<1>3. CASE h \in DOMAIN s.entries /\ s.entries[h].live /\ ~s.entries[h].exiting
  <2>1. s.entries[h] \in EntryRecord /\ EntryTrue(on, s.loop, s.wins, s.entries[h], h = k)
    BY <1>3, EntryAt DEF EachTrue
  <2>2. \/ u = Torn(s)
        \/ s.entries[h].tweens /\ u = [s EXCEPT !.entries[h].exiting = TRUE]
        \/ u = Detached(s, h)
    BY <1>3 DEF Close, Has
  <2>3. CASE u = Torn(s)
    BY <2>3, TornIs
  <2>4. CASE s.entries[h].tweens /\ u = [s EXCEPT !.entries[h].exiting = TRUE]
    <3>1. u = [s EXCEPT !.entries = [s.entries EXCEPT ![h] = e]]
      BY <2>4
    <3>2. e \in EntryRecord /\ e.live /\ e.exiting /\ e.kind = s.entries[h].kind
          /\ e.win = s.entries[h].win /\ e.content = s.entries[h].content /\ e.kind # "tip"
      BY <1>3, <2>1, <2>4 DEF EntryRecord, EntryTrue
    <3>3. EntryTrue(on, s.loop, s.wins, e, h = k)
      BY <1>3, <2>1, <3>2 DEF EntryTrue
    <3> HIDE DEF e
    <3> QED
      BY <1>3, <3>1, <3>2, <3>3, OneEntry
  <2>5. CASE u = Detached(s, h)
    BY <1>3, <2>5, DetachedIs
  <2> QED
    BY <2>2, <2>3, <2>4, <2>5
<1> QED
  BY <1>1, <1>2, <1>3

(* What every step of the overlays gives.                                  *)
OverlayStep(s, u, on) ==
  /\ u \in SurfaceState(on)
  /\ u.torn \/ (Quiet(s, u) /\ EachTrue(u, on, 0) /\ OneTip(u))

(* An overlay's step keeps the invariant, which is then of the overlays    *)
(* alone.                                                                  *)
LEMMA OverlayStepKeeps ==
  ASSUME NEW on, NEW s, NEW u, SurfacesInv(s, on), ~s.torn, OverlayStep(s, u, on)
  PROVE  SurfacesInv(u, on)
BY QuietKeeps DEF SurfacesInv, OverlayStep

(* An exit that has played detaches its entry, or finds it detached.       *)
LEMMA ExitDoneIs ==
  ASSUME NEW on \in {"gtk", "win32", "android"}, NEW s \in SurfaceState(on), ~s.torn,
         EachTrue(s, on, 0), OneTip(s), NEW h \in DOMAIN s.entries
  PROVE  OverlayStep(s, ExitDone(s, h), on)
<1>1. ExitDone(s, h) \in {Torn(s), Detached(s, h), s}
  BY DEF ExitDone, GtkExitDone, Win32FadeDone, AndroidFinalize, SurfaceState
<1>2. CASE ExitDone(s, h) = Torn(s)
  BY <1>2, TornIs DEF OverlayStep
<1>3. CASE ExitDone(s, h) = Detached(s, h)
  BY <1>3, DetachedIs DEF OverlayStep
<1>4. CASE ExitDone(s, h) = s
  BY <1>4 DEF OverlayStep, Quiet
<1> QED
  BY <1>1, <1>2, <1>3, <1>4

(* Closing an overlay, by the application.                                 *)
LEMMA CloseKeeps ==
  ASSUME NEW on \in {"gtk", "win32", "android"}, NEW s \in SurfaceState(on), ~s.torn,
         EachTrue(s, on, 0), OneTip(s), NEW h
  PROVE  OverlayStep(s, Close(s, h), on)
BY CloseIs DEF OverlayStep

(* Escape closes one overlay, or none.                                     *)
LEMMA EscapeKeeps ==
  ASSUME NEW on \in {"gtk", "win32", "android"}, NEW s \in SurfaceState(on), ~s.torn,
         EachTrue(s, on, 0), OneTip(s)
  PROVE  OverlayStep(s, Escape(s), on)
<1>1. CASE Escape(s) = s
  BY <1>1 DEF OverlayStep, Quiet
<1>2. CASE Escape(s) = Close(s, Topmost(s))
  BY <1>2, CloseKeeps
<1> QED
  BY <1>1, <1>2 DEF Escape

(* A transition is set on an entry that is no tooltip.                     *)
LEMMA SetTransitionKeeps ==
  ASSUME NEW on \in {"gtk", "win32", "android"}, NEW s \in SurfaceState(on), ~s.torn,
         EachTrue(s, on, 0), OneTip(s),
         NEW h \in DOMAIN s.entries, s.entries[h].kind = "modal", NEW kind, NEW ms \in Nat
  PROVE  OverlayStep(s, SetTransition(s, h, kind, ms), on)
<1> DEFINE tweens == Tweens(s, kind, ms)
           e == [s.entries[h] EXCEPT !.tweens = tweens]
           u == SetTransition(s, h, kind, ms)
<1>1. s.entries[h] \in EntryRecord /\ EntryTrue(on, s.loop, s.wins, s.entries[h], h = 0) /\ s.on = on
  BY EntryAt DEF EachTrue, SurfaceState
<1>2. tweens \in BOOLEAN
  <2>1. CASE on = "gtk"
    <3>1. tweens = (kind = "fade")
      BY <1>1, <2>1 DEF Tweens
    <3> QED
      BY <3>1, Zenon
  <2>2. CASE on = "win32"
    <3>1. tweens = (kind # "none" /\ ms > 0)
      BY <1>1, <2>2 DEF Tweens
    <3> QED
      BY <3>1, Zenon
  <2>3. CASE on = "android"
    <3>1. CASE ms > 0
      <4>1. tweens = TRUE
        BY <1>1, <2>3, <3>1 DEF Tweens
      <4> QED
        BY <4>1, Zenon
    <3>2. CASE ~(ms > 0)
      <4>1. tweens = FALSE
        BY <1>1, <2>3, <3>2 DEF Tweens
      <4> QED
        BY <4>1, Zenon
    <3> QED
      BY <3>1, <3>2
  <2> QED
    BY <2>1, <2>2, <2>3
<1>3. u = [s EXCEPT !.entries = [s.entries EXCEPT ![h] = e]]
  BY DEF SetTransition, Has
<1> HIDE DEF tweens
<1>4. /\ e \in EntryRecord /\ e.live = s.entries[h].live /\ e.exiting = s.entries[h].exiting
      /\ e.kind = s.entries[h].kind /\ e.told = s.entries[h].told
      /\ e.win = s.entries[h].win /\ e.content = s.entries[h].content
  BY <1>1, <1>2 DEF EntryRecord
<1>5. EntryTrue(on, s.loop, s.wins, e, h = 0)
  BY <1>1, <1>4 DEF EntryTrue
<1> HIDE DEF e
<1>6. OverlayStep(s, u, on)
  <2> HIDE DEF u
  <2> QED
    BY <1>3, <1>4, <1>5, OneEntry DEF OverlayStep
<1> QED
  BY <1>6

(* An overlay is opened in a window that was made, or is not.              *)
LEMMA OpenIs ==
  ASSUME NEW on \in {"gtk", "win32", "android"}, NEW s \in SurfaceState(on), ~s.torn,
         WinsTrue(on, s.wins), NEW w \in Windows, NEW kind
  PROVE  \/ Open(s, w, kind) = s
         \/ Open(s, w, kind) = Torn(s)
         \/ s.wins[w].made /\ \E where \in {"up", "adrift"} : Open(s, w, kind) = Opened(s, w, kind, where)
<1>1. s.on = on /\ s.wins[w] \in WindowRecord
  BY DEF SurfaceState
<1>2. CASE on = "gtk"
  BY <1>1, <1>2 DEF Open, GtkOpen, WindowRecord
<1>3. CASE on = "win32"
  BY <1>1, <1>3 DEF Open, Win32Open
<1>4. CASE on = "android"
  BY <1>1, <1>4 DEF Open, AndroidOpen, WinsTrue
<1> QED
  BY <1>2, <1>3, <1>4

(* A new entry is last in the table, and in a window that was made.        *)
LEMMA OpenedIs ==
  ASSUME NEW on, NEW s \in SurfaceState(on), NEW k, EachTrue(s, on, k), s.loop # "before",
         k \in DOMAIN s.entries \/ k = 0,
         NEW w \in Windows, s.wins[w].made, NEW kind \in {"modal", "toast", "tip"},
         NEW where \in {"up", "adrift"}, NEW u, u = Opened(s, w, kind, where)
  PROVE  /\ u \in SurfaceState(on) /\ Quiet(s, u) /\ u.tip = s.tip /\ u.timers = s.timers
         /\ Len(u.entries) = Len(s.entries) + 1 /\ Len(s.entries) \in Nat
         /\ DOMAIN s.entries = 1 .. Len(s.entries) /\ DOMAIN u.entries = 1 .. Len(s.entries) + 1
         /\ \A h \in DOMAIN s.entries : u.entries[h] = s.entries[h]
         /\ u.entries[Len(s.entries) + 1].kind = kind
         /\ EachTrue(u, on, k)
<1> DEFINE e == Entry(w, kind, where)
           n == Len(s.entries)
<1>1. s.entries \in Seq(EntryRecord) /\ n \in Nat /\ DOMAIN s.entries = 1 .. n
  BY DEF SurfaceState
<1>2. e \in EntryRecord /\ e.kind = kind /\ EntryTrue(on, s.loop, s.wins, e, n + 1 = k)
  BY DEF Entry, EntryRecord, EntryTrue
<1>3. Append(s.entries, e) \in Seq(EntryRecord) /\ Len(Append(s.entries, e)) = n + 1
      /\ Append(s.entries, e)[n + 1] = e /\ \A h \in 1 .. n : Append(s.entries, e)[h] = s.entries[h]
  <2> HIDE DEF e
  <2> QED
    BY <1>1, <1>2
<1>4. u = [s EXCEPT !.entries = Append(s.entries, e)]
  BY DEF Opened
<1> HIDE DEF e
<1>5. u \in SurfaceState(on) /\ u.entries = Append(s.entries, e) /\ Quiet(s, u) /\ u.tip = s.tip /\ u.timers = s.timers
  BY <1>3, <1>4 DEF SurfaceState, Quiet
<1>6. DOMAIN u.entries = 1 .. n + 1
  BY <1>3, <1>5
<1>7. \A h \in 1 .. n : u.entries[h] = s.entries[h]
  BY <1>3, <1>5
<1>8. EachTrue(u, on, k)
  <2>1. ASSUME NEW i \in DOMAIN u.entries
        PROVE  EntryTrue(on, u.loop, u.wins, u.entries[i], i = k)
    <3>1. CASE i = n + 1
      BY <1>2, <1>3, <1>5, <3>1 DEF EntryTrue, Quiet
    <3>2. CASE i \in 1 .. n
      BY <1>1, <1>5, <1>7, <3>2 DEF EachTrue, EntryTrue, Quiet
    <3> QED
      BY <1>1, <1>6, <3>1, <3>2
  <2> QED
    BY <1>5, <2>1 DEF EachTrue, Quiet
<1> QED
  BY <1>1, <1>2, <1>3, <1>5, <1>6, <1>7, <1>8

(* An overlay that is no tooltip.                                          *)
LEMMA OpenKeeps ==
  ASSUME NEW on \in {"gtk", "win32", "android"}, NEW s \in SurfaceState(on), ~s.torn,
         WinsTrue(on, s.wins), NEW k, EachTrue(s, on, k), OneTip(s), s.loop # "before",
         k \in DOMAIN s.entries \/ k = 0,
         NEW w \in Windows, NEW kind \in {"modal", "toast"}, NEW u, u = Open(s, w, kind)
  PROVE  /\ u \in SurfaceState(on)
         /\ u.torn \/ (Quiet(s, u) /\ EachTrue(u, on, k) /\ OneTip(u)
                        /\ DOMAIN s.entries \subseteq DOMAIN u.entries)
<1>1. CASE u = s
  BY <1>1 DEF Quiet
<1>2. CASE u = Torn(s)
  BY <1>2, TornIs
<1>3. CASE s.wins[w].made /\ \E where \in {"up", "adrift"} : u = Opened(s, w, kind, where)
  <2> DEFINE n == Len(s.entries)
  <2>1. /\ u \in SurfaceState(on) /\ Quiet(s, u) /\ u.tip = s.tip /\ n \in Nat
        /\ DOMAIN s.entries = 1 .. n /\ DOMAIN u.entries = 1 .. n + 1
        /\ \A h \in DOMAIN s.entries : u.entries[h] = s.entries[h]
        /\ u.entries[n + 1].kind = kind
        /\ EachTrue(u, on, k)
    BY <1>3, OpenedIs
  <2>2. \A h \in 1 .. n + 1 : h \in 1 .. n \/ h = n + 1
    BY <2>1
  <2>3. OneTip(u)
    BY <2>1, <2>2 DEF OneTip
  <2> QED
    BY <2>1, <2>3
<1> QED
  BY <1>1, <1>2, <1>3, OpenIs

(* Where freed memory was touched nothing more is said.                    *)
LEMMA TornStays ==
  ASSUME NEW on \in {"gtk", "win32", "android"}, NEW s \in SurfaceState(on), s.torn, NEW h
  PROVE  Close(s, h) \in SurfaceState(on) /\ Close(s, h).torn
<1>1. CASE Close(s, h) = s
  BY <1>1
<1>2. CASE Close(s, h) = Torn(s)
  BY <1>2, TornIs
<1>3. CASE Has(s, h)
  <2>1. s.entries[h] \in EntryRecord /\ h \in DOMAIN s.entries /\ s.entries \in Seq(EntryRecord)
    BY <1>3, EntryAt DEF Has, SurfaceState
  <2>2. \A e \in EntryRecord : /\ [s EXCEPT !.entries = [s.entries EXCEPT ![h] = e]] \in SurfaceState(on)
                               /\ [s EXCEPT !.entries = [s.entries EXCEPT ![h] = e]].torn
    <3> TAKE e \in EntryRecord
    <3>1. [s.entries EXCEPT ![h] = e] \in Seq(EntryRecord)
      BY <2>1
    <3> QED
      BY <3>1 DEF SurfaceState
  <2>3. CASE Close(s, h) = [s EXCEPT !.entries[h].exiting = TRUE]
    <3>1. [s.entries[h] EXCEPT !.exiting = TRUE] \in EntryRecord
      BY <2>1 DEF EntryRecord
    <3> QED
      BY <2>2, <2>3, <3>1
  <2>4. CASE Close(s, h) = Detached(s, h)
    <3> DEFINE e == [s.entries[h] EXCEPT !.live = FALSE, !.exiting = FALSE, !.content = "gone"]
    <3>1. e \in EntryRecord
      BY <2>1 DEF EntryRecord
    <3>2. Detached(s, h) = [s EXCEPT !.entries = [s.entries EXCEPT ![h] = e]]
      BY <2>1 DEF Detached, SurfaceState, EntryRecord
    <3> HIDE DEF e
    <3> QED
      BY <2>2, <2>4, <3>1, <3>2
  <2>5. \/ Close(s, h) = s
        \/ Close(s, h) = Torn(s)
        \/ Close(s, h) = [s EXCEPT !.entries[h].exiting = TRUE]
        \/ Close(s, h) = Detached(s, h)
    BY <1>3 DEF Close
  <2> QED
    BY <1>1, <1>2, <2>3, <2>4, <2>5
<1> QED
  BY <1>1, <1>2, <1>3 DEF Close

(* on_dismiss has been told of a press; for the moment the overlay is      *)
(* still open.                                                             *)
LEMMA HeardIs ==
  ASSUME NEW on \in {"gtk", "win32", "android"}, NEW s \in SurfaceState(on), ~s.torn,
         EachTrue(s, on, 0), OneTip(s), NEW h \in DOMAIN s.entries, s.entries[h].kind = "modal",
         NEW u, u = Heard(s, h)
  PROVE  /\ u \in SurfaceState(on) /\ Quiet(s, u) /\ EachTrue(u, on, h) /\ OneTip(u)
         /\ h \in DOMAIN u.entries /\ u.entries[h] \in EntryRecord
<1> DEFINE e == [s.entries[h] EXCEPT !.told = TRUE]
<1>1. s.entries[h] \in EntryRecord /\ EntryTrue(on, s.loop, s.wins, s.entries[h], h = 0)
      /\ h # 0
  BY EntryAt DEF EachTrue
<1>2. EachTrue(s, on, h)
  <2>1. ASSUME NEW k \in DOMAIN s.entries
        PROVE  EntryTrue(on, s.loop, s.wins, s.entries[k], k = h)
    <3>1. EntryTrue(on, s.loop, s.wins, s.entries[k], k = 0) /\ k # 0
      BY EntryAt DEF EachTrue
    <3> QED
      BY <3>1 DEF EntryTrue
  <2> QED
    BY <2>1 DEF EachTrue
<1>3. /\ e \in EntryRecord /\ e.live = s.entries[h].live /\ e.exiting = s.entries[h].exiting
      /\ e.kind = s.entries[h].kind /\ e.tweens = s.entries[h].tweens
      /\ e.win = s.entries[h].win /\ e.content = s.entries[h].content
  BY <1>1 DEF EntryRecord
<1>4. EntryTrue(on, s.loop, s.wins, e, h = h)
  BY <1>1, <1>3 DEF EntryTrue
<1>5. u = [s EXCEPT !.entries = [s.entries EXCEPT ![h] = e]]
  BY DEF Heard
<1> HIDE DEF e
<1> QED
  BY <1>2, <1>3, <1>4, <1>5, OneEntry

(* Leaving the windows alone twice is leaving them alone.                  *)
LEMMA QuietTwice ==
  ASSUME NEW s, NEW t, NEW u, Quiet(s, t), Quiet(t, u)
  PROVE  Quiet(s, u)
BY DEF Quiet

(* Whatever on_dismiss did, the overlay is closed after it.                *)
LEMMA PressedKeeps ==
  ASSUME NEW on \in {"gtk", "win32", "android"}, NEW s \in SurfaceState(on), ~s.torn,
         WinsTrue(on, s.wins), EachTrue(s, on, 0), OneTip(s), s.loop # "before",
         NEW h \in DOMAIN s.entries, s.entries[h].kind = "modal", NEW react \in {"none", "close", "open"}
  PROVE  OverlayStep(s, Pressed(s, h, react), on)
<1> DEFINE heard == Heard(s, h)
           after == AppReacts(heard, h, react)
           u == Pressed(s, h, react)
<1>1. /\ heard \in SurfaceState(on) /\ Quiet(s, heard) /\ EachTrue(heard, on, h) /\ OneTip(heard)
      /\ h \in DOMAIN heard.entries /\ heard.entries[h] \in EntryRecord
  BY HeardIs
<1>2. ~heard.torn /\ WinsTrue(on, heard.wins) /\ heard.loop # "before"
  BY <1>1 DEF Quiet
<1>3. heard.entries[h].win \in Windows
  BY <1>1 DEF EntryRecord
<1> HIDE DEF heard
<1>4. /\ after \in SurfaceState(on)
      /\ after.torn \/ (Quiet(heard, after) /\ EachTrue(after, on, h) /\ OneTip(after)
                         /\ h \in DOMAIN after.entries)
  <2>1. CASE react = "none"
    BY <1>1, <2>1 DEF AppReacts, Quiet
  <2>2. CASE react = "close"
    BY <1>1, <1>2, <2>2, CloseIs DEF AppReacts
  <2>3. CASE react = "open"
    BY <1>1, <1>2, <1>3, <2>3, OpenKeeps DEF AppReacts
  <2> QED
    BY <2>1, <2>2, <2>3
<1> HIDE DEF after
<1>5. u = Torn(s) \/ u = Close(after, h)
  BY DEF Pressed, after, heard
<1>6. CASE u = Torn(s)
  BY <1>6, TornIs DEF OverlayStep
<1>7. CASE u = Close(after, h) /\ after.torn
  BY <1>4, <1>7, TornStays DEF OverlayStep
<1>8. CASE u = Close(after, h) /\ ~after.torn
  <2> HIDE DEF u
  <2>1. u \in SurfaceState(on) /\ (u.torn \/ (Quiet(after, u) /\ EachTrue(u, on, h) /\ OneTip(u)
          /\ (h \in DOMAIN u.entries => ~u.entries[h].live \/ u.entries[h].exiting)))
    BY <1>4, <1>8, CloseIs
  <2>2. ASSUME ~u.torn
        PROVE  EachTrue(u, on, 0)
    <3>1. ASSUME NEW k \in DOMAIN u.entries
          PROVE  EntryTrue(on, u.loop, u.wins, u.entries[k], k = 0)
      <4>1. EntryTrue(on, u.loop, u.wins, u.entries[k], k = h)
        BY <2>1, <2>2 DEF EachTrue
      <4>2. k = h => ~u.entries[k].live \/ u.entries[k].exiting
        BY <1>4, <1>8, <2>1, <2>2
      <4> QED
        BY <4>1, <4>2 DEF EntryTrue
    <3> QED
      BY <2>1, <2>2, <3>1 DEF EachTrue
  <2>3. ~u.torn => Quiet(s, u)
    BY <1>1, <1>4, <1>8, <2>1, QuietTwice
  <2>4. OverlayStep(s, u, on)
    BY <2>1, <2>2, <2>3 DEF OverlayStep
  <2> QED
    BY <2>4 DEF u
<1> QED
  BY <1>5, <1>6, <1>7, <1>8

(* The toasts' timers and the tooltip's number say nothing of the rest.    *)
LEMMA TimersAside ==
  ASSUME NEW on, NEW s \in SurfaceState(on), NEW S \in SUBSET Nat, NEW u, u = [s EXCEPT !.timers = S]
  PROVE  /\ u \in SurfaceState(on) /\ Quiet(s, u) /\ u.entries = s.entries /\ u.tip = s.tip
         /\ \A k : EachTrue(s, on, k) => EachTrue(u, on, k)
         /\ OneTip(s) => OneTip(u)
<1>1. u \in SurfaceState(on) /\ Quiet(s, u) /\ u.entries = s.entries /\ u.tip = s.tip
  BY DEF SurfaceState, Quiet
<1> QED
  BY <1>1 DEF EachTrue, OneTip, Quiet

(* A toast is an overlay, with a timer or without.                         *)
LEMMA ToastKeeps ==
  ASSUME NEW on \in {"gtk", "win32", "android"}, NEW s \in SurfaceState(on), ~s.torn,
         WinsTrue(on, s.wins), EachTrue(s, on, 0), OneTip(s), s.loop # "before", NEW w \in Windows
  PROVE  OverlayStep(s, Toast(s, w), on)
<1> DEFINE open == Open(s, w, "toast")
           u == Toast(s, w)
<1>1. /\ open \in SurfaceState(on)
      /\ open.torn \/ (Quiet(s, open) /\ EachTrue(open, on, 0) /\ OneTip(open))
  BY OpenKeeps
<1>2. s.on = on
  BY DEF SurfaceState
<1>3. u = open \/ \E S \in SUBSET Nat : u = [open EXCEPT !.timers = S]
  <2>1. Len(open.entries) \in Nat /\ open.timers \subseteq Nat
    <3> HIDE DEF open
    <3> QED
      BY <1>1 DEF SurfaceState
  <2>2. open.timers \cup {Len(open.entries)} \in SUBSET Nat /\ open.timers \in SUBSET Nat
    BY <2>1
  <2>3. open = CASE on = "gtk" -> GtkOpen(s, w, "toast") [] on = "win32" -> Win32Open(s, w, "toast")
                 [] on = "android" -> AndroidOpen(s, w, "toast")
    BY <1>2 DEF Open
  <2> HIDE DEF open
  <2> QED
    BY <1>2, <2>2, <2>3 DEF Toast, GtkToast, Win32Toast, AndroidToast
<1> HIDE DEF open, u
<1>4. ASSUME u = open PROVE OverlayStep(s, u, on)
  BY <1>1, <1>4 DEF OverlayStep
<1>5. ASSUME NEW S \in SUBSET Nat, u = [open EXCEPT !.timers = S] PROVE OverlayStep(s, u, on)
  <2>1. u \in SurfaceState(on) /\ Quiet(open, u) /\ (EachTrue(open, on, 0) => EachTrue(u, on, 0))
        /\ (OneTip(open) => OneTip(u))
    BY <1>1, <1>5, TimersAside
  <2> QED
    BY <1>1, <2>1, QuietTwice DEF OverlayStep, Quiet
<1>6. OverlayStep(s, u, on)
  BY <1>3, <1>4, <1>5
<1> QED
  BY <1>6 DEF u

(* A toast's timer closes it, or finds it closed.                          *)
LEMMA ExpiredKeeps ==
  ASSUME NEW on \in {"gtk", "win32", "android"}, NEW s \in SurfaceState(on), ~s.torn,
         EachTrue(s, on, 0), OneTip(s), NEW h
  PROVE  OverlayStep(s, Expired(s, h), on)
<1> DEFINE out == [s EXCEPT !.timers = s.timers \ {h}]
<1>1. s.timers \ {h} \in SUBSET Nat
  BY DEF SurfaceState
<1>2. out \in SurfaceState(on) /\ Quiet(s, out) /\ EachTrue(out, on, 0) /\ OneTip(out)
  <2> HIDE DEF EachTrue, OneTip
  <2>1. \E S \in SUBSET Nat : out = [s EXCEPT !.timers = S]
    BY <1>1
  <2> HIDE DEF out
  <2> QED
    BY <2>1, TimersAside
<1>3. Expired(s, h) = Close(out, h)
  BY DEF Expired
<1> HIDE DEF out
<1>4. OverlayStep(out, Expired(s, h), on)
  BY <1>2, <1>3, CloseKeeps DEF Quiet
<1> QED
  BY <1>2, <1>4, QuietTwice DEF OverlayStep

(* What the tooltip's number is says nothing of the windows or the         *)
(* entries.                                                                *)
LEMMA TipAside ==
  ASSUME NEW on, NEW s \in SurfaceState(on), NEW t \in Nat, NEW u, u = [s EXCEPT !.tip = t]
  PROVE  /\ u \in SurfaceState(on) /\ Quiet(s, u) /\ u.entries = s.entries /\ u.tip = t
         /\ \A k : EachTrue(s, on, k) => EachTrue(u, on, k)
<1>1. u \in SurfaceState(on) /\ Quiet(s, u) /\ u.entries = s.entries /\ u.tip = t
  BY DEF SurfaceState, Quiet
<1> QED
  BY <1>1 DEF EachTrue, Quiet

(* A tooltip is opened where none lives, and is then the one there is.     *)
LEMMA TipOpenedKeeps ==
  ASSUME NEW on \in {"gtk", "win32", "android"}, NEW s \in SurfaceState(on), ~s.torn,
         WinsTrue(on, s.wins), EachTrue(s, on, 0), OneTip(s), s.loop # "before", ~TipLives(s)
  PROVE  OverlayStep(s, TipOpened(s), on)
<1> DEFINE open == Open(s, 1, "tip")
           n == Len(s.entries)
           tip == IF Len(open.entries) > n THEN Len(open.entries) ELSE 0
           u == TipOpened(s)
<1>1. 1 \in Windows
  BY SurfacesAssumption
<1>2. u = [open EXCEPT !.tip = tip]
  BY DEF TipOpened
<1>3. \A k \in DOMAIN s.entries : ~(s.entries[k].kind = "tip" /\ s.entries[k].live)
  BY DEF OneTip, TipLives, Has
<1>4. n \in Nat /\ DOMAIN s.entries = 1 .. n
  BY DEF SurfaceState
<1>5. CASE open = s
  <2>1. tip = 0
    BY <1>4, <1>5
  <2> HIDE DEF open, u, tip
  <2>2. u \in SurfaceState(on) /\ Quiet(s, u) /\ EachTrue(u, on, 0) /\ u.entries = s.entries
    BY <1>2, <1>5, <2>1, TipAside
  <2>3. OneTip(u)
    BY <1>3, <2>2 DEF OneTip
  <2>4. OverlayStep(s, u, on)
    BY <2>2, <2>3 DEF OverlayStep
  <2> QED
    BY <2>4 DEF u
<1>6. CASE open = Torn(s)
  <2>1. open \in SurfaceState(on) /\ open.torn /\ open.entries = <<>>
    BY <1>6, TornIs
  <2>2. tip = 0
    BY <1>4, <2>1
  <2> HIDE DEF open, u, tip
  <2>3. u \in SurfaceState(on) /\ Quiet(open, u)
    BY <1>2, <2>1, <2>2, TipAside
  <2>9. u.torn
    BY <2>1, <2>3 DEF Quiet
  <2>4. OverlayStep(s, u, on)
    BY <2>3, <2>9 DEF OverlayStep
  <2> QED
    BY <2>4 DEF u
<1>7. CASE s.wins[1].made /\ \E where \in {"up", "adrift"} : open = Opened(s, 1, "tip", where)
  <2>1. /\ open \in SurfaceState(on) /\ Quiet(s, open)
        /\ Len(open.entries) = n + 1 /\ DOMAIN open.entries = 1 .. n + 1
        /\ \A h \in DOMAIN s.entries : open.entries[h] = s.entries[h]
        /\ EachTrue(open, on, 0)
    BY <1>1, <1>7, OpenedIs
  <2>2. tip = n + 1
    BY <1>4, <2>1
  <2> HIDE DEF open, u, tip
  <2>3. /\ u \in SurfaceState(on) /\ Quiet(open, u) /\ EachTrue(u, on, 0) /\ u.entries = open.entries
        /\ u.tip = n + 1
    BY <1>2, <1>4, <2>1, <2>2, TipAside
  <2>4. \A k \in 1 .. n + 1 : k \in 1 .. n \/ k = n + 1
    BY <1>4
  <2>5. OneTip(u)
    BY <1>3, <1>4, <2>1, <2>3, <2>4 DEF OneTip
  <2>6. OverlayStep(s, u, on)
    BY <2>1, <2>3, <2>5, QuietTwice DEF OverlayStep
  <2> QED
    BY <2>6 DEF u
<1> QED
  BY <1>1, <1>5, <1>6, <1>7, OpenIs

(* A tooltip is shown: opened, left as it is, or replaced.                 *)
LEMMA TooltipKeeps ==
  ASSUME NEW on \in {"gtk", "win32", "android"}, NEW s \in SurfaceState(on), ~s.torn,
         WinsTrue(on, s.wins), EachTrue(s, on, 0), OneTip(s), s.loop # "before"
  PROVE  OverlayStep(s, Tooltip(s), on)
<1>1. s.on = on
  BY DEF SurfaceState
<1>2. CASE Tooltip(s) = s
  BY <1>2 DEF OverlayStep, Quiet
<1>3. CASE ~TipLives(s) /\ Tooltip(s) = TipOpened(s)
  BY <1>3, TipOpenedKeeps
<1>4. CASE TipLives(s) /\ Tooltip(s) = TipOpened(Detached(s, s.tip))
  <2> DEFINE bare == Detached(s, s.tip)
  <2>1. /\ bare \in SurfaceState(on) /\ Quiet(s, bare) /\ bare.tip = s.tip
        /\ ~bare.entries[s.tip].live /\ EachTrue(bare, on, 0) /\ OneTip(bare)
    BY <1>4, DetachedIs DEF TipLives, Has
  <2>2. ~TipLives(bare)
    BY <2>1 DEF TipLives
  <2> HIDE DEF bare
  <2>3. ~bare.torn /\ WinsTrue(on, bare.wins) /\ bare.loop # "before"
    BY <2>1 DEF Quiet
  <2>4. OverlayStep(bare, TipOpened(bare), on)
    BY <2>1, <2>2, <2>3, TipOpenedKeeps
  <2>5. OverlayStep(s, TipOpened(bare), on)
    BY <2>1, <2>4, QuietTwice DEF OverlayStep
  <2> QED
    BY <1>4, <2>5 DEF bare
<1> QED
  BY <1>1, <1>2, <1>3, <1>4 DEF Tooltip, GtkTooltip, Win32Tooltip, AndroidTooltip

(* A tooltip is hidden: closed at once, since it never tweens.             *)
LEMMA TooltipHideKeeps ==
  ASSUME NEW on \in {"gtk", "win32", "android"}, NEW s \in SurfaceState(on), ~s.torn,
         EachTrue(s, on, 0), OneTip(s)
  PROVE  OverlayStep(s, TooltipHide(s), on)
<1> DEFINE closed == Close(s, s.tip)
           u == [closed EXCEPT !.tip = 0]
<1>1. /\ closed \in SurfaceState(on)
      /\ closed.torn \/ /\ Quiet(s, closed) /\ closed.tip = s.tip /\ EachTrue(closed, on, 0) /\ OneTip(closed)
                        /\ DOMAIN closed.entries = DOMAIN s.entries
                        /\ s.tip \in DOMAIN s.entries /\ closed.entries[s.tip].kind = "tip" =>
                              ~closed.entries[s.tip].live
  BY CloseIs
<1> HIDE DEF closed
<1>2. /\ u \in SurfaceState(on) /\ Quiet(closed, u) /\ u.entries = closed.entries
      /\ EachTrue(closed, on, 0) => EachTrue(u, on, 0)
  BY <1>1, TipAside
<1> HIDE DEF u
<1>3. ASSUME ~closed.torn
      PROVE  OneTip(u)
  <2>1. \A k \in DOMAIN closed.entries : closed.entries[k].kind = "tip" /\ closed.entries[k].live => s.tip = k
    BY <1>1, <1>3 DEF OneTip
  <2>2. \A k \in DOMAIN closed.entries : ~(closed.entries[k].kind = "tip" /\ closed.entries[k].live)
    BY <1>1, <1>3, <2>1
  <2> QED
    BY <1>2, <2>2 DEF OneTip
<1>4. OverlayStep(s, u, on)
  <2>1. CASE closed.torn
    BY <1>2, <2>1 DEF OverlayStep, Quiet
  <2>2. CASE ~closed.torn
    <3>1. Quiet(s, u)
      BY <1>1, <1>2, <2>2, QuietTwice
    <3> QED
      BY <1>1, <1>2, <1>3, <2>2, <3>1 DEF OverlayStep
  <2> QED
    BY <2>1, <2>2
<1>5. OverlayStep(s, closed, on)
  BY <1>1 DEF OverlayStep
<1> QED
  BY <1>4, <1>5 DEF TooltipHide, u, closed

(* Every entry may be given another content, its window still made.        *)
LEMMA RecreatedKeeps ==
  ASSUME NEW on \in {"gtk", "win32", "android"}, NEW s \in SurfaceState(on), ~s.torn,
         EachTrue(s, on, 0), OneTip(s)
  PROVE  OverlayStep(s, Recreated(s), on)
<1> DEFINE new(h) == IF s.entries[h].win = 1 /\ s.entries[h].live
                     THEN [s.entries[h] EXCEPT !.content = "adrift"] ELSE s.entries[h]
           n == Len(s.entries)
           all == [h \in DOMAIN s.entries |-> new(h)]
           u == [s EXCEPT !.entries = all]
<1>1. s.entries \in Seq(EntryRecord) /\ n \in Nat /\ DOMAIN s.entries = 1 .. n
  BY DEF SurfaceState
<1>2. ASSUME NEW h \in DOMAIN s.entries
      PROVE  /\ new(h) \in EntryRecord /\ EntryTrue(on, s.loop, s.wins, new(h), h = 0)
             /\ new(h).kind = s.entries[h].kind /\ new(h).live = s.entries[h].live
  <2>1. s.entries[h] \in EntryRecord /\ EntryTrue(on, s.loop, s.wins, s.entries[h], h = 0)
    BY EntryAt DEF EachTrue
  <2> QED
    BY <2>1 DEF EntryRecord, EntryTrue
<1>3. Recreated(s) = u
  BY DEF Recreated
<1> HIDE DEF new
<1>4. all \in Seq(EntryRecord)
  <2>1. \A h \in 1 .. n : new(h) \in EntryRecord
    BY <1>1, <1>2
  <2> QED
    BY <1>1, <2>1, IsASeq
<1>5. u \in SurfaceState(on) /\ u.entries = all /\ Quiet(s, u) /\ u.tip = s.tip
  <2> HIDE DEF all
  <2> QED
    BY <1>4 DEF SurfaceState, Quiet
<1>6. DOMAIN u.entries = DOMAIN s.entries /\ \A h \in DOMAIN s.entries : u.entries[h] = new(h)
  BY <1>5
<1>7. EachTrue(u, on, 0)
  <2>1. s.loop = "before" => u.entries = <<>>
    BY <1>1, <1>5, <1>6 DEF EachTrue
  <2> HIDE DEF u
  <2>2. ASSUME NEW h \in DOMAIN u.entries
        PROVE  EntryTrue(on, u.loop, u.wins, u.entries[h], h = 0)
    BY <1>2, <1>5, <1>6 DEF EntryTrue, Quiet
  <2> QED
    BY <1>5, <2>1, <2>2 DEF EachTrue, Quiet
<1>8. OneTip(u)
  BY <1>2, <1>5, <1>6 DEF OneTip
<1> QED
  BY <1>3, <1>5, <1>7, <1>8 DEF OverlayStep

(* A window that is gone takes its contents with it.                       *)
Gone(win) == [win EXCEPT !.live = FALSE, !.up = FALSE]

(* A window that is gone stays one that was made.                          *)
LEMMA GoneIs ==
  ASSUME NEW win \in WindowRecord
  PROVE  /\ Gone(win) \in WindowRecord /\ ~Gone(win).live /\ ~Gone(win).up
         /\ Gone(win).made = win.made /\ Gone(win).app = win.app
BY DEF Gone, WindowRecord

(* Of the entries in a window that is gone only the content changes.       *)
LEMMA ContentsGoneIs ==
  ASSUME NEW on, NEW s \in SurfaceState(on), NEW w
  PROVE  /\ ContentsGone(s, w) \in Seq(EntryRecord) /\ DOMAIN ContentsGone(s, w) = DOMAIN s.entries
         /\ \A h \in DOMAIN s.entries :
              LET e == s.entries[h]
                  f == ContentsGone(s, w)[h]
              IN  /\ e \in EntryRecord /\ f \in EntryRecord
                  /\ f.win = e.win /\ f.kind = e.kind /\ f.live = e.live /\ f.exiting = e.exiting
                  /\ f.told = e.told /\ f.tweens = e.tweens
                  /\ f.content = IF e.win = w THEN "gone" ELSE e.content
<1> DEFINE new(h) == IF s.entries[h].win = w THEN [s.entries[h] EXCEPT !.content = "gone"] ELSE s.entries[h]
           n == Len(s.entries)
<1>1. s.entries \in Seq(EntryRecord) /\ n \in Nat /\ DOMAIN s.entries = 1 .. n
  BY DEF SurfaceState
<1>2. ASSUME NEW h \in DOMAIN s.entries
      PROVE  /\ s.entries[h] \in EntryRecord /\ new(h) \in EntryRecord
             /\ new(h).win = s.entries[h].win /\ new(h).kind = s.entries[h].kind
             /\ new(h).live = s.entries[h].live /\ new(h).exiting = s.entries[h].exiting
             /\ new(h).told = s.entries[h].told /\ new(h).tweens = s.entries[h].tweens
             /\ new(h).content = IF s.entries[h].win = w THEN "gone" ELSE s.entries[h].content
  <2>1. s.entries[h] \in EntryRecord
    BY EntryAt
  <2> QED
    BY <2>1 DEF EntryRecord
<1>3. ContentsGone(s, w) = [h \in DOMAIN s.entries |-> new(h)]
  BY DEF ContentsGone
<1> HIDE DEF new
<1>4. [h \in DOMAIN s.entries |-> new(h)] \in Seq(EntryRecord)
  <2>1. \A h \in 1 .. n : new(h) \in EntryRecord
    BY <1>1, <1>2
  <2> QED
    BY <1>1, <2>1, IsASeq
<1> QED
  BY <1>2, <1>3, <1>4

(* On GTK and Win32 a window that goes takes nothing else with it.         *)
LEMMA WindowGoneKeeps ==
  ASSUME NEW on \in {"gtk", "win32"}, NEW s \in SurfaceState(on), WinsTrue(on, s.wins),
         EachTrue(s, on, 0), OneTip(s), NEW w \in Windows,
         NEW u, u.entries = ContentsGone(s, w), u.wins = [s.wins EXCEPT ![w] = Gone(s.wins[w])],
         u.tip = s.tip, u.loop = "before" => s.loop = "before"
  PROVE  WinsTrue(on, u.wins) /\ EachTrue(u, on, 0) /\ OneTip(u)
         /\ LiveWindows(u) = LiveWindows(s) \ {w}
<1>1. s.wins \in [Windows -> WindowRecord] /\ s.wins[w] \in WindowRecord
  BY DEF SurfaceState
<1>2. /\ ~u.wins[w].live /\ ~u.wins[w].up /\ u.wins[w].made = s.wins[w].made
      /\ \A v \in Windows : v # w => u.wins[v] = s.wins[v]
  BY <1>1, GoneIs
<1>3. WinsTrue(on, u.wins)
  BY <1>2 DEF WinsTrue
<1>4. LiveWindows(u) = LiveWindows(s) \ {w}
  BY <1>2 DEF LiveWindows
<1>5. DOMAIN u.entries = DOMAIN s.entries
  BY ContentsGoneIs
<1>6. EachTrue(u, on, 0)
  <2>1. ASSUME NEW h \in DOMAIN u.entries
        PROVE  EntryTrue(on, u.loop, u.wins, u.entries[h], h = 0)
    <3>1. /\ s.entries[h] \in EntryRecord
          /\ u.entries[h].win = s.entries[h].win /\ u.entries[h].kind = s.entries[h].kind
          /\ u.entries[h].live = s.entries[h].live /\ u.entries[h].exiting = s.entries[h].exiting
          /\ u.entries[h].told = s.entries[h].told /\ u.entries[h].tweens = s.entries[h].tweens
          /\ u.entries[h].content = IF s.entries[h].win = w THEN "gone" ELSE s.entries[h].content
      BY <1>5, ContentsGoneIs
    <3>2. EntryTrue(on, s.loop, s.wins, s.entries[h], h = 0)
      BY <1>5 DEF EachTrue
    <3>3. s.entries[h].win \in Windows
      BY <3>1 DEF EntryRecord
    <3> QED
      BY <1>2, <3>1, <3>2, <3>3 DEF EntryTrue
  <2>2. s.entries = <<>> => u.entries = <<>>
    <3>1. u.entries \in Seq(EntryRecord)
      BY ContentsGoneIs
    <3> QED
      BY <1>5, <3>1
  <2> QED
    BY <2>1, <2>2 DEF EachTrue
<1>7. OneTip(u)
  BY <1>5, ContentsGoneIs DEF OneTip
<1> QED
  BY <1>3, <1>4, <1>6, <1>7

(* GTK's count of uses goes down by two with a window of the application,  *)
(* and not with a sheet.                                                   *)
LEMMA GtkDestroyedKeeps ==
  ASSUME NEW s, SurfacesInv(s, "gtk"), ~s.torn, s.loop # "over", NEW w \in Windows, s.wins[w].up
  PROVE  SurfacesInv(GtkDestroyed(s, w), "gtk")
<1> DEFINE uses == s.uses - (IF s.wins[w].app THEN 1 ELSE 0)
                     - (IF s.wins[w].live /\ s.loop = "runs" THEN 1 ELSE 0)
           loop == IF s.loop = "runs" /\ uses <= 0 THEN "over" ELSE s.loop
           wins == [s.wins EXCEPT ![w] = Gone(s.wins[w])]
           u == GtkDestroyed(s, w)
<1>1. /\ s \in SurfaceState("gtk") /\ WinsTrue("gtk", s.wins) /\ LoopTrue(s, "gtk")
      /\ EachTrue(s, "gtk", 0) /\ OneTip(s)
  BY DEF SurfacesInv
<1>2. s.wins \in [Windows -> WindowRecord] /\ s.wins[w] \in WindowRecord /\ s.uses \in Int
      /\ s.loop \in {"before", "runs"}
  BY <1>1 DEF SurfaceState
<1>3. wins \in [Windows -> WindowRecord]
  BY <1>2, GoneIs
<1>4. uses \in Int /\ loop \in {"before", "runs", "over"}
  BY <1>2
<1>5. u = [s EXCEPT !.wins = wins, !.entries = ContentsGone(s, w), !.uses = uses, !.loop = loop]
  <2>1. [s EXCEPT !.wins[w].live = FALSE, !.wins[w].up = FALSE] = [s EXCEPT !.wins = wins]
    BY <1>1, <1>2 DEF Gone, SurfaceState, WindowRecord
  <2>2. u = [[s EXCEPT !.wins[w].live = FALSE, !.wins[w].up = FALSE] EXCEPT
               !.entries = ContentsGone(s, w), !.uses = uses, !.loop = loop]
    BY <1>1 DEF GtkDestroyed, SurfaceState
  <2> QED
    BY <1>1, <2>1, <2>2 DEF SurfaceState
<1>6. ContentsGone(s, w) \in Seq(EntryRecord)
  BY <1>1, ContentsGoneIs
<1> HIDE DEF wins, loop, uses
<1>7. /\ u \in SurfaceState("gtk") /\ u.wins = wins /\ u.entries = ContentsGone(s, w)
      /\ u.uses = uses /\ u.loop = loop /\ u.tip = s.tip /\ u.early = s.early /\ u.torn = s.torn
      /\ u.quit = s.quit
  BY <1>1, <1>3, <1>4, <1>5, <1>6 DEF SurfaceState
<1> HIDE DEF u
<1>8. /\ WinsTrue("gtk", u.wins) /\ EachTrue(u, "gtk", 0) /\ OneTip(u)
      /\ LiveWindows(u) = LiveWindows(s) \ {w}
  BY <1>1, <1>2, <1>7, WindowGoneKeeps DEF wins, loop
<1>9. ASSUME ~s.early
      PROVE  LoopTrue(u, "gtk")
  <2>1. s.loop = "runs"
    BY <1>1, <1>2, <1>9 DEF LoopTrue, WinsTrue
  <2>2. /\ IsFiniteSet(LiveWindows(s)) /\ s.uses = 2 * Cardinality(LiveWindows(s))
        /\ LiveWindows(s) # {}
        /\ \A v \in LiveWindows(s) : s.wins[v].app
    BY <1>1, <1>9, <2>1 DEF LoopTrue
  <2>3. /\ IsFiniteSet(LiveWindows(u)) /\ Cardinality(LiveWindows(u)) \in Nat
        /\ Cardinality(LiveWindows(u)) = 0 <=> LiveWindows(u) = {}
        /\ Cardinality(LiveWindows(s)) \in Nat
        /\ Cardinality(LiveWindows(u)) = IF w \in LiveWindows(s) THEN Cardinality(LiveWindows(s)) - 1
                                         ELSE Cardinality(LiveWindows(s))
    BY <1>8, <2>2, FS_RemoveElement, FS_CardinalityType, FS_EmptySet
  <2>4. uses = 2 * Cardinality(LiveWindows(u))
    <3>1. CASE w \in LiveWindows(s)
      BY <1>2, <2>1, <2>2, <2>3, <3>1 DEF uses, LiveWindows
    <3>2. CASE w \notin LiveWindows(s)
      BY <1>1, <1>2, <2>1, <2>2, <2>3, <3>2 DEF uses, LiveWindows, WinsTrue
    <3> QED
      BY <3>1, <3>2
  <2>5. loop = IF LiveWindows(u) = {} THEN "over" ELSE "runs"
    BY <2>1, <2>3, <2>4 DEF loop
  <2>6. \A v \in LiveWindows(u) : u.wins[v].app
    BY <1>2, <1>7, <1>8, <2>2 DEF wins
  <2> QED
    BY <1>7, <2>3, <2>4, <2>5, <2>6 DEF LoopTrue
<1>10. SurfacesInv(u, "gtk")
  BY <1>7, <1>8, <1>9 DEF SurfacesInv, LoopTrue
<1> QED
  BY <1>10 DEF u

(* Win32's last window ends the loop.                                      *)
LEMMA Win32DestroyedKeeps ==
  ASSUME NEW s, SurfacesInv(s, "win32"), ~s.torn, s.loop # "over", NEW w \in Windows,
         s.wins[w].up \/ s.wins[w].live
  PROVE  SurfacesInv(Win32Destroyed(s, w), "win32")
<1> DEFINE wins == [s.wins EXCEPT ![w] = Gone(s.wins[w])]
           rest == [s EXCEPT !.wins = wins, !.entries = ContentsGone(s, w)]
           u == Win32Destroyed(s, w)
<1>1. /\ s \in SurfaceState("win32") /\ WinsTrue("win32", s.wins) /\ LoopTrue(s, "win32")
      /\ EachTrue(s, "win32", 0) /\ OneTip(s)
  BY DEF SurfacesInv
<1>2. s.wins \in [Windows -> WindowRecord] /\ s.wins[w] \in WindowRecord
      /\ s.loop \in {"before", "runs"}
  BY <1>1 DEF SurfaceState
<1>3. wins \in [Windows -> WindowRecord]
  BY <1>2, GoneIs
<1>4. ContentsGone(s, w) \in Seq(EntryRecord)
  BY <1>1, ContentsGoneIs
<1>5. rest = [s EXCEPT !.wins[w].live = FALSE, !.wins[w].up = FALSE, !.entries = ContentsGone(s, w)]
  BY <1>1, <1>2 DEF Gone, SurfaceState, WindowRecord
<1>6. u = CASE LiveWindows(rest) # {} -> rest
            [] LiveWindows(rest) = {} /\ s.loop = "runs" -> [rest EXCEPT !.loop = "over"]
            [] OTHER -> [rest EXCEPT !.stop = TRUE]
  BY <1>5 DEF Win32Destroyed
<1> HIDE DEF wins
<1>7. /\ rest \in SurfaceState("win32") /\ rest.wins = wins /\ rest.entries = ContentsGone(s, w)
      /\ rest.loop = s.loop /\ rest.tip = s.tip /\ rest.early = s.early /\ rest.torn = s.torn
      /\ rest.quit = s.quit /\ rest.stop = s.stop
  BY <1>1, <1>3, <1>4 DEF SurfaceState
<1>8. /\ u \in SurfaceState("win32") /\ u.wins = wins /\ u.entries = ContentsGone(s, w)
      /\ u.tip = s.tip /\ u.early = s.early /\ u.torn = s.torn /\ u.quit = s.quit
      /\ u.loop = IF LiveWindows(rest) = {} /\ s.loop = "runs" THEN "over" ELSE s.loop
  <2> HIDE DEF rest, u
  <2> QED
    BY <1>6, <1>7 DEF SurfaceState
<1> HIDE DEF rest, u
<1>9. LiveWindows(u) = LiveWindows(rest)
  BY <1>7, <1>8 DEF LiveWindows
<1>10. WinsTrue("win32", u.wins) /\ EachTrue(u, "win32", 0) /\ OneTip(u)
  BY <1>1, <1>2, <1>8, WindowGoneKeeps DEF wins
<1>11. ~s.early => s.loop = "runs"
  BY <1>1, <1>2 DEF LoopTrue, WinsTrue
<1>12. LoopTrue(u, "win32")
  BY <1>8, <1>9, <1>11 DEF LoopTrue
<1>13. SurfacesInv(u, "win32")
  BY <1>8, <1>10, <1>12 DEF SurfacesInv
<1> QED
  BY <1>13 DEF u

(* On Android a further window that is closed keeps its contents.          *)
LEMMA AndroidClosedKeeps ==
  ASSUME NEW s, SurfacesInv(s, "android"), ~s.torn, s.loop # "over", NEW w \in Windows, w # 1
  PROVE  SurfacesInv(AndroidClosed(s, w), "android")
<1> DEFINE wins == [s.wins EXCEPT ![w] = Gone(s.wins[w])]
           u == AndroidClosed(s, w)
<1>1. /\ s \in SurfaceState("android") /\ WinsTrue("android", s.wins) /\ LoopTrue(s, "android")
      /\ EachTrue(s, "android", 0) /\ OneTip(s) /\ 1 \in Windows
  BY SurfacesAssumption DEF SurfacesInv
<1>2. s.wins \in [Windows -> WindowRecord] /\ s.wins[w] \in WindowRecord
  BY <1>1 DEF SurfaceState
<1>3. /\ wins \in [Windows -> WindowRecord] /\ ~wins[w].live /\ ~wins[w].up
      /\ wins[w].made = s.wins[w].made /\ \A v \in Windows : v # w => wins[v] = s.wins[v]
  BY <1>2, GoneIs
<1>4. u = [s EXCEPT !.wins = wins]
  BY <1>1, <1>2 DEF AndroidClosed, Gone, SurfaceState, WindowRecord
<1> HIDE DEF wins
<1>5. /\ u \in SurfaceState("android") /\ u.wins = wins /\ u.entries = s.entries /\ u.loop = s.loop
      /\ u.tip = s.tip /\ u.early = s.early /\ u.torn = s.torn /\ u.quit = s.quit /\ u.stop = s.stop
  BY <1>1, <1>3, <1>4 DEF SurfaceState
<1> HIDE DEF u
<1>6. WinsTrue("android", u.wins)
  BY <1>1, <1>3, <1>5 DEF WinsTrue
<1>7. LoopTrue(u, "android")
  BY <1>1, <1>3, <1>5 DEF LoopTrue
<1>8. ASSUME NEW h \in DOMAIN u.entries
      PROVE  EntryTrue("android", u.loop, u.wins, u.entries[h], h = 0)
  <2>1. s.entries[h].win \in Windows /\ EntryTrue("android", s.loop, s.wins, s.entries[h], h = 0)
    BY <1>1, <1>5, EntryAt DEF EachTrue, EntryRecord
  <2> QED
    BY <1>3, <1>5, <2>1 DEF EntryTrue
<1>9. EachTrue(u, "android", 0) /\ OneTip(u)
  BY <1>1, <1>5, <1>8 DEF EachTrue, OneTip
<1>10. SurfacesInv(u, "android")
  BY <1>5, <1>6, <1>7, <1>9 DEF SurfacesInv
<1> QED
  BY <1>10 DEF u

(* The activity ends, with all its windows and what is in them.            *)
LEMMA ActivityFinishedKeeps ==
  ASSUME NEW s, SurfacesInv(s, "android"), ~s.torn, s.loop = "runs"
  PROVE  LET u == ActivityFinished(s)
         IN  SurfacesInv(u, "android") /\ u.loop = "over" /\ ~u.torn
<1> DEFINE wins == [w \in Windows |-> Gone(s.wins[w])]
           new(h) == [s.entries[h] EXCEPT !.content = "gone"]
           all == [h \in DOMAIN s.entries |-> new(h)]
           n == Len(s.entries)
           u == ActivityFinished(s)
<1>1. /\ s \in SurfaceState("android") /\ WinsTrue("android", s.wins) /\ LoopTrue(s, "android")
      /\ EachTrue(s, "android", 0) /\ OneTip(s) /\ 1 \in Windows
  BY SurfacesAssumption DEF SurfacesInv
<1>2. s.wins \in [Windows -> WindowRecord]
  BY <1>1 DEF SurfaceState
<1>3. ASSUME NEW w \in Windows
      PROVE  Gone(s.wins[w]) \in WindowRecord /\ ~Gone(s.wins[w]).live /\ ~Gone(s.wins[w]).up
             /\ Gone(s.wins[w]).made = s.wins[w].made
  BY <1>2, GoneIs
<1>4. /\ wins \in [Windows -> WindowRecord]
      /\ \A w \in Windows : ~wins[w].live /\ ~wins[w].up /\ wins[w].made = s.wins[w].made
  BY <1>3
<1>5. ASSUME NEW h \in DOMAIN s.entries
      PROVE  /\ s.entries[h] \in EntryRecord /\ new(h) \in EntryRecord
             /\ new(h).win = s.entries[h].win /\ new(h).kind = s.entries[h].kind
             /\ new(h).live = s.entries[h].live /\ new(h).exiting = s.entries[h].exiting
             /\ new(h).told = s.entries[h].told /\ new(h).tweens = s.entries[h].tweens
             /\ new(h).content = "gone"
  <2>1. s.entries[h] \in EntryRecord
    BY <1>1, EntryAt
  <2> QED
    BY <2>1 DEF EntryRecord
<1>6. n \in Nat /\ DOMAIN s.entries = 1 .. n
  BY <1>1 DEF SurfaceState
<1>7. u = [s EXCEPT !.wins = wins, !.entries = all, !.loop = "over"]
  BY DEF ActivityFinished, Gone
<1> HIDE DEF new
<1>8. all \in Seq(EntryRecord)
  <2>1. \A h \in 1 .. n : new(h) \in EntryRecord
    BY <1>5, <1>6
  <2> QED
    BY <1>6, <2>1, IsASeq
<1>9. DOMAIN all = DOMAIN s.entries /\ \A h \in DOMAIN s.entries : all[h] = new(h)
  OBVIOUS
<1> HIDE DEF all, wins
<1>10. /\ u \in SurfaceState("android") /\ u.wins = wins /\ u.entries = all /\ u.loop = "over"
       /\ u.tip = s.tip /\ u.early = s.early /\ u.torn = s.torn
  BY <1>1, <1>4, <1>7, <1>8 DEF SurfaceState
<1> HIDE DEF u
<1>11. WinsTrue("android", u.wins) /\ LoopTrue(u, "android")
  BY <1>1, <1>4, <1>10 DEF WinsTrue, LoopTrue
<1>12. ASSUME NEW h \in DOMAIN u.entries
       PROVE  EntryTrue("android", u.loop, u.wins, u.entries[h], h = 0)
  <2>1. EntryTrue("android", s.loop, s.wins, s.entries[h], h = 0) /\ s.entries[h].win \in Windows
    BY <1>1, <1>5, <1>9, <1>10 DEF EachTrue, EntryRecord
  <2> QED
    BY <1>4, <1>5, <1>9, <1>10, <2>1 DEF EntryTrue
<1>13. EachTrue(u, "android", 0) /\ OneTip(u)
  BY <1>1, <1>5, <1>9, <1>10, <1>12 DEF EachTrue, OneTip
<1>14. SurfacesInv(u, "android")
  BY <1>10, <1>11, <1>13 DEF SurfacesInv
<1> QED
  BY <1>10, <1>14 DEF u

(* A window that was not made is made.                                     *)
NewlyMade(s, u, on, w, win) ==
  /\ ~s.wins[w].made /\ win \in WindowRecord /\ win.made
  /\ on = "gtk" => (win.live => win.up) /\ (win.app => win.live)
  /\ u \in SurfaceState(on) /\ u.wins = [s.wins EXCEPT ![w] = win]
  /\ u.entries = s.entries /\ u.tip = s.tip /\ u.loop = s.loop

(* What a new window adds to the live ones.                                *)
LEMMA MadeIs ==
  ASSUME NEW on \in {"gtk", "win32", "android"}, NEW s, SurfacesInv(s, on), ~s.torn,
         NEW w \in Windows, NEW win, NEW u, NewlyMade(s, u, on, w, win)
  PROVE  /\ WinsTrue(on, u.wins) /\ EachTrue(u, on, 0) /\ OneTip(u)
         /\ LiveWindows(u) = LiveWindows(s) \cup (IF win.live THEN {w} ELSE {})
         /\ w \notin LiveWindows(s)
<1> USE DEF NewlyMade
<1>1. /\ s \in SurfaceState(on) /\ WinsTrue(on, s.wins) /\ EachTrue(s, on, 0) /\ OneTip(s)
      /\ s.wins \in [Windows -> WindowRecord]
  BY DEF SurfacesInv, SurfaceState
<1>2. u.wins[w] = win /\ \A v \in Windows : v # w => u.wins[v] = s.wins[v]
  BY <1>1
<1>3. WinsTrue(on, u.wins)
  BY <1>1, <1>2 DEF WinsTrue, WindowRecord
<1>4. w \notin LiveWindows(s)
  BY <1>1 DEF WinsTrue, LiveWindows
<1>5. LiveWindows(u) = LiveWindows(s) \cup (IF win.live THEN {w} ELSE {})
  BY <1>2, <1>4 DEF LiveWindows
<1>6. ASSUME NEW h \in DOMAIN u.entries
      PROVE  EntryTrue(on, u.loop, u.wins, u.entries[h], h = 0)
  <2>1. s.entries[h].win \in Windows /\ EntryTrue(on, s.loop, s.wins, s.entries[h], h = 0)
    BY <1>1, EntryAt DEF EachTrue, EntryRecord
  <2>2. s.entries[h].win # w
    BY <2>1 DEF EntryTrue
  <2> QED
    BY <1>2, <2>1, <2>2 DEF EntryTrue
<1>7. EachTrue(u, on, 0) /\ OneTip(u)
  BY <1>1, <1>6 DEF EachTrue, OneTip
<1> QED
  BY <1>3, <1>4, <1>5, <1>7

(* A window is created: GTK counts it twice if it is the application's.    *)
LEMMA WindowCreateKeeps ==
  ASSUME NEW on \in {"gtk", "win32", "android"}, NEW s, SurfacesInv(s, on), ~s.torn, s.loop # "over",
         NEW w \in Windows, ~s.wins[w].made, NEW sheet \in BOOLEAN
  PROVE  SurfacesInv(WindowCreate(s, w, sheet), on)
<1> DEFINE app == on = "gtk" /\ s.loop = "runs" /\ ~sheet
           early == s.early \/ s.loop = "before"
           uses == IF app THEN s.uses + 2 ELSE s.uses
           u == WindowCreate(s, w, sheet)
           given(win) == /\ win \in WindowRecord /\ win.made
                         /\ on = "gtk" => win.live = ~sheet /\ win.up /\ win.app = app
                         /\ on = "win32" => win.live
                         /\ on = "android" => ~win.live
                         /\ u = [s EXCEPT !.wins = [s.wins EXCEPT ![w] = win], !.early = early, !.uses = uses]
<1>1. /\ s \in SurfaceState(on) /\ s.on = on /\ LoopTrue(s, on) /\ s.wins \in [Windows -> WindowRecord]
      /\ s.uses \in Int /\ s.early \in BOOLEAN /\ s.loop \in {"before", "runs", "over"}
  BY DEF SurfacesInv, SurfaceState
<1>2. \E win : given(win)
  <2>0. NoWindow \in WindowRecord /\ ~NoWindow.live
    BY DEF NoWindow, WindowRecord
  <2>1. CASE on = "gtk"
    <3> DEFINE bare == [NoWindow EXCEPT !.live = ~sheet, !.up = TRUE, !.app = s.loop = "runs" /\ ~sheet]
               win == [bare EXCEPT !.made = TRUE, !.sheet = sheet]
    <3>1. bare \in WindowRecord /\ bare.live = ~sheet /\ bare.up /\ bare.app = app
      BY <2>0, <2>1 DEF WindowRecord
    <3>2. u = [[s EXCEPT !.wins[w] = win, !.early = @ \/ s.loop = "before"]
                 EXCEPT !.uses = IF s.loop = "runs" /\ ~sheet THEN @ + 2 ELSE @]
      BY <1>1, <2>1 DEF WindowCreate, GtkWindowCreate, Made
    <3> HIDE DEF bare
    <3>3. win \in WindowRecord /\ win.made /\ win.live = ~sheet /\ win.up /\ win.app = app
      BY <3>1 DEF WindowRecord
    <3> HIDE DEF win
    <3>4. u = [s EXCEPT !.wins = [s.wins EXCEPT ![w] = win], !.early = early, !.uses = uses]
      BY <1>1, <2>1, <3>2 DEF SurfaceState
    <3> QED
      BY <2>1, <3>3, <3>4
  <2>2. CASE on = "win32"
    <3> DEFINE bare == [NoWindow EXCEPT !.live = TRUE, !.up = TRUE]
               win == [bare EXCEPT !.made = TRUE, !.sheet = sheet]
    <3>1. bare \in WindowRecord /\ bare.live
      BY <2>0 DEF WindowRecord
    <3>2. u = [s EXCEPT !.wins[w] = win, !.early = @ \/ s.loop = "before"]
      BY <1>1, <2>2 DEF WindowCreate, Win32WindowCreate, Made
    <3> HIDE DEF bare
    <3>3. win \in WindowRecord /\ win.made /\ win.live
      BY <3>1 DEF WindowRecord
    <3> HIDE DEF win
    <3>4. u = [s EXCEPT !.wins = [s.wins EXCEPT ![w] = win], !.early = early, !.uses = uses]
      BY <1>1, <2>2, <3>2 DEF SurfaceState
    <3> QED
      BY <2>2, <3>3, <3>4
  <2>3. CASE on = "android"
    <3> DEFINE win == [NoWindow EXCEPT !.made = TRUE, !.sheet = sheet]
    <3>1. win \in WindowRecord /\ win.made /\ ~win.live
      BY <2>0 DEF WindowRecord
    <3>2. u = [s EXCEPT !.wins[w] = win, !.early = @ \/ s.loop = "before"]
      BY <1>1, <2>3 DEF WindowCreate, AndroidWindowCreate, Made
    <3> HIDE DEF win
    <3>3. u = [s EXCEPT !.wins = [s.wins EXCEPT ![w] = win], !.early = early, !.uses = uses]
      BY <1>1, <2>3, <3>2 DEF SurfaceState
    <3> QED
      BY <2>3, <3>1, <3>3
  <2> QED
    BY <2>1, <2>2, <2>3
<1>3. PICK win : given(win)
  BY <1>2
<1> DEFINE wins == [s.wins EXCEPT ![w] = win]
<1>4. u = [s EXCEPT !.wins = wins, !.early = early, !.uses = uses] /\ win \in WindowRecord
  BY <1>3
<1>5. on = "gtk" => (win.live => win.up) /\ (win.app => win.live)
  BY <1>3
<1>6. /\ win.made
      /\ on = "gtk" => win.live = ~sheet /\ win.app = app
      /\ on = "win32" => win.live
      /\ on = "android" => ~win.live
  BY <1>3
<1>0. wins \in [Windows -> WindowRecord] /\ early \in BOOLEAN /\ uses \in Int
  BY <1>1, <1>4
<1> HIDE DEF wins, early, uses, given
<1>7. /\ u \in SurfaceState(on) /\ u.wins = wins /\ u.entries = s.entries /\ u.tip = s.tip
      /\ u.loop = s.loop /\ u.early = early /\ u.uses = uses /\ u.torn = s.torn /\ u.quit = s.quit
      /\ u.stop = s.stop
  BY <1>1, <1>4, <1>0 DEF SurfaceState
<1> HIDE DEF u
<1>8. /\ WinsTrue(on, u.wins) /\ EachTrue(u, on, 0) /\ OneTip(u)
      /\ LiveWindows(u) = LiveWindows(s) \cup (IF win.live THEN {w} ELSE {})
      /\ w \notin LiveWindows(s)
  <2>1. u.wins = [s.wins EXCEPT ![w] = win]
    BY <1>7 DEF wins
  <2> QED
    <3>1. NewlyMade(s, u, on, w, win)
      BY <1>4, <1>5, <1>6, <1>7, <2>1 DEF NewlyMade
    <3> QED
      BY <3>1, MadeIs
<1>9. ASSUME ~u.early
      PROVE  LoopTrue(u, on)
  <2>1. s.loop = "runs" /\ ~s.early
    BY <1>1, <1>7, <1>9 DEF early
  <2>2. CASE on = "android"
    <3>1. 1 \in Windows /\ (w = 1 => ~s.wins[w].live)
      BY <1>8, SurfacesAssumption DEF LiveWindows
    <3>2. s.wins[1].live
      BY <1>1, <2>1, <2>2 DEF LoopTrue
    <3>3. u.wins[1].live
      BY <1>1, <1>7, <3>1, <3>2 DEF wins
    <3> QED
      BY <1>7, <2>1, <2>2, <3>3 DEF LoopTrue
  <2>3. CASE on = "win32"
    BY <1>1, <1>7, <1>8, <2>1, <2>3 DEF LoopTrue
  <2>4. CASE on = "gtk"
    <3>1. /\ IsFiniteSet(LiveWindows(s)) /\ s.uses = 2 * Cardinality(LiveWindows(s))
          /\ LiveWindows(s) # {} /\ \A v \in LiveWindows(s) : s.wins[v].app
      BY <1>1, <2>1, <2>4 DEF LoopTrue
    <3>2. CASE sheet
      <4>1. LiveWindows(u) = LiveWindows(s)
        BY <1>6, <1>8, <2>4, <3>2
      <4>2. \A v \in LiveWindows(u) : u.wins[v].app
        BY <1>1, <1>7, <1>8, <3>1, <4>1 DEF wins, LiveWindows
      <4>3. u.uses = s.uses
        BY <1>7, <3>2 DEF uses
      <4> QED
        BY <1>7, <2>1, <2>4, <3>1, <4>1, <4>2, <4>3 DEF LoopTrue
    <3>3. CASE ~sheet
      <4>1. LiveWindows(u) = LiveWindows(s) \cup {w}
        BY <1>6, <1>8, <2>4, <3>3
      <4>2. /\ IsFiniteSet(LiveWindows(u)) /\ Cardinality(LiveWindows(s)) \in Nat
            /\ Cardinality(LiveWindows(u)) = Cardinality(LiveWindows(s)) + 1
        <5>1. /\ IsFiniteSet(LiveWindows(s) \cup {w}) /\ Cardinality(LiveWindows(s)) \in Nat
              /\ Cardinality(LiveWindows(s) \cup {w}) = Cardinality(LiveWindows(s)) + 1
          BY <1>8, <3>1, FS_AddElement, FS_CardinalityType
        <5> QED
          BY <4>1, <5>1, Zenon
      <4>3. \A v \in LiveWindows(u) : u.wins[v].app
        BY <1>1, <1>6, <1>7, <2>1, <2>4, <3>1, <3>3, <4>1 DEF wins, LiveWindows
      <4>4. u.uses = s.uses + 2
        BY <1>7, <2>1, <2>4, <3>3 DEF uses
      <4> QED
        BY <1>7, <2>1, <2>4, <3>1, <4>1, <4>2, <4>3, <4>4 DEF LoopTrue
    <3> QED
      BY <3>2, <3>3
  <2> QED
    BY <2>2, <2>3, <2>4
<1>10. SurfacesInv(u, on)
  BY <1>7, <1>8, <1>9 DEF SurfacesInv, LoopTrue
<1> QED
  BY <1>10 DEF u

(* A window is shown: on Android it comes, elsewhere it is there or not.   *)
NewlyShown(s, u, on, w, win) ==
  /\ s.wins[w].made /\ win \in WindowRecord /\ win.made
  /\ IF on = "android" THEN win.live
     ELSE win.live = s.wins[w].live /\ win.up = s.wins[w].up /\ win.app = s.wins[w].app
  /\ u = [s EXCEPT !.wins = [s.wins EXCEPT ![w] = win]]

(* Whatever a show does, it makes no window and ends none.                 *)
LEMMA ShownKeeps ==
  ASSUME NEW on \in {"gtk", "win32", "android"}, NEW s, SurfacesInv(s, on), ~s.torn, s.loop # "over",
         NEW w \in Windows, NEW win, NEW u, NewlyShown(s, u, on, w, win)
  PROVE  SurfacesInv(u, on)
<1>1. /\ s \in SurfaceState(on) /\ WinsTrue(on, s.wins) /\ LoopTrue(s, on) /\ EachTrue(s, on, 0)
      /\ OneTip(s) /\ s.wins \in [Windows -> WindowRecord]
  BY DEF SurfacesInv, SurfaceState
<1>2. /\ u \in SurfaceState(on) /\ u.wins = [s.wins EXCEPT ![w] = win] /\ u.entries = s.entries
      /\ u.tip = s.tip /\ u.loop = s.loop /\ u.early = s.early /\ u.uses = s.uses /\ u.torn = s.torn
      /\ u.quit = s.quit /\ u.stop = s.stop
  <2>1. [s.wins EXCEPT ![w] = win] \in [Windows -> WindowRecord]
    BY <1>1 DEF NewlyShown
  <2> QED
    BY <1>1, <2>1 DEF NewlyShown, SurfaceState
<1>3. u.wins[w] = win /\ \A v \in Windows : v # w => u.wins[v] = s.wins[v]
  BY <1>1, <1>2
<1>4. WinsTrue(on, u.wins)
  BY <1>1, <1>3 DEF WinsTrue, NewlyShown
<1>5. on # "android" => LiveWindows(u) = LiveWindows(s)
  BY <1>3 DEF LiveWindows, NewlyShown
<1>6. LoopTrue(u, on)
  <2>1. CASE on = "android"
    BY <1>1, <1>2, <1>3, <2>1, SurfacesAssumption DEF LoopTrue, NewlyShown
  <2>2. CASE on # "android"
    <3>1. \A v \in LiveWindows(s) : v \in Windows /\ (s.wins[v].app => u.wins[v].app)
      BY <1>3, <2>2 DEF LiveWindows, NewlyShown
    <3>2. (\A v \in Windows : ~s.wins[v].made) => FALSE
      BY DEF NewlyShown
    <3> QED
      BY <1>1, <1>2, <1>5, <2>2, <3>1, <3>2 DEF LoopTrue
  <2> QED
    BY <2>1, <2>2
<1>7. ASSUME NEW h \in DOMAIN u.entries
      PROVE  EntryTrue(on, u.loop, u.wins, u.entries[h], h = 0)
  <2>1. s.entries[h].win \in Windows /\ EntryTrue(on, s.loop, s.wins, s.entries[h], h = 0)
    BY <1>1, <1>2, EntryAt DEF EachTrue, EntryRecord
  <2> QED
    BY <1>2, <1>3, <2>1 DEF EntryTrue, NewlyShown
<1>8. EachTrue(u, on, 0) /\ OneTip(u)
  BY <1>1, <1>2, <1>7 DEF EachTrue, OneTip
<1> QED
  BY <1>2, <1>4, <1>6, <1>8 DEF SurfacesInv

(* Showing a window, on each backend.                                      *)
LEMMA WindowShowKeeps ==
  ASSUME NEW on \in {"gtk", "win32", "android"}, NEW s, SurfacesInv(s, on), ~s.torn, s.loop # "over",
         NEW w \in Windows, s.wins[w].made
  PROVE  SurfacesInv(WindowShow(s, w), on)
<1>1. s \in SurfaceState(on) /\ s.on = on /\ s.wins \in [Windows -> WindowRecord] /\ s.wins[w] \in WindowRecord
  BY DEF SurfacesInv, SurfaceState
<1> DEFINE old == s.wins[w]
<1>2. ASSUME NEW win, win \in WindowRecord, win.made,
             IF on = "android" THEN win.live ELSE win.live = old.live /\ win.up = old.up /\ win.app = old.app,
             WindowShow(s, w) = [s EXCEPT !.wins = [s.wins EXCEPT ![w] = win]]
      PROVE  SurfacesInv(WindowShow(s, w), on)
  BY <1>2, ShownKeeps DEF NewlyShown
<1>3. CASE on = "gtk" /\ ~old.up
  BY <1>1, <1>3, TornIs DEF WindowShow, GtkShow, GtkPresent, SurfacesInv
<1>4. CASE on = "gtk" /\ old.up
  <2> DEFINE win == [old EXCEPT !.shown = TRUE]
  <2>1. win \in WindowRecord /\ win.made /\ win.live = old.live /\ win.up = old.up /\ win.app = old.app
    BY <1>1 DEF WindowRecord
  <2>2. WindowShow(s, w) = [s EXCEPT !.wins = [s.wins EXCEPT ![w] = win]]
    BY <1>1, <1>4 DEF WindowShow, GtkShow, GtkPresent
  <2> HIDE DEF win
  <2> QED
    BY <1>2, <1>4, <2>1, <2>2
<1>5. CASE on = "win32"
  <2> DEFINE win == [old EXCEPT !.shown = old.shown \/ old.up]
  <2>1. win \in WindowRecord /\ win.made /\ win.live = old.live /\ win.up = old.up /\ win.app = old.app
    BY <1>1 DEF WindowRecord
  <2>2. WindowShow(s, w) = [s EXCEPT !.wins = [s.wins EXCEPT ![w] = win]]
    BY <1>1, <1>5 DEF WindowShow, Win32Show
  <2> HIDE DEF win
  <2> QED
    BY <1>2, <1>5, <2>1, <2>2
<1>6. CASE on = "android"
  <2> DEFINE win == [old EXCEPT !.up = TRUE, !.live = TRUE, !.shown = TRUE]
  <2>1. win \in WindowRecord /\ win.made /\ win.live
    BY <1>1 DEF WindowRecord
  <2>2. [s EXCEPT !.wins[w].up = TRUE, !.wins[w].live = TRUE, !.wins[w].shown = TRUE]
        = [s EXCEPT !.wins = [s.wins EXCEPT ![w] = win]]
    BY <1>1 DEF SurfaceState, WindowRecord
  <2>3. WindowShow(s, w) = [s EXCEPT !.wins = [s.wins EXCEPT ![w] = win]]
    BY <1>1, <1>6, <2>2 DEF WindowShow, AndroidShow
  <2> HIDE DEF win
  <2> QED
    BY <1>2, <1>6, <2>1, <2>3
<1> QED
  BY <1>3, <1>4, <1>5, <1>6

(* Of a process that has touched freed memory nothing more is asked.       *)
LEMMA TornKeeps ==
  ASSUME NEW on \in {"gtk", "win32", "android"}, NEW s, SurfacesInv(s, on)
  PROVE  SurfacesInv(Torn(s), on)
BY TornIs DEF SurfacesInv

(* The application closes a window, or dismisses a sheet.                  *)
LEMMA WindowCloseKeeps ==
  ASSUME NEW on \in {"gtk", "win32", "android"}, NEW s, SurfacesInv(s, on), ~s.torn, s.loop # "over",
         NEW w \in Windows, w # 1
  PROVE  SurfacesInv(WindowClose(s, w), on)
<1>1. s.on = on
  BY DEF SurfacesInv, SurfaceState
<1>2. CASE on = "gtk"
  BY <1>1, <1>2, TornKeeps, GtkDestroyedKeeps DEF WindowClose, GtkClose, GtkDismiss
<1>3. CASE on = "win32"
  BY <1>1, <1>3, Win32DestroyedKeeps DEF WindowClose, Win32WindowClose
<1>4. CASE on = "android"
  BY <1>1, <1>4, AndroidClosedKeeps DEF WindowClose, AndroidClose
<1> QED
  BY <1>2, <1>3, <1>4

(* The driver closes a window.                                             *)
LEMMA CloseByHandleKeeps ==
  ASSUME NEW on \in {"gtk", "win32", "android"}, NEW s, SurfacesInv(s, on), ~s.torn, s.loop = "runs",
         NEW w \in Windows
  PROVE  SurfacesInv(CloseByHandle(s, w), on)
<1>1. s.on = on
  BY DEF SurfacesInv, SurfaceState
<1>2. CASE on = "gtk"
  BY <1>1, <1>2, TornKeeps, GtkDestroyedKeeps DEF CloseByHandle
<1>3. CASE on = "win32"
  BY <1>1, <1>3, Win32DestroyedKeeps DEF CloseByHandle
<1>4. CASE on = "android"
  BY <1>1, <1>4, AndroidClosedKeeps, ActivityFinishedKeeps DEF CloseByHandle, AndroidClose
<1> QED
  BY <1>2, <1>3, <1>4

(* The person closes a window.                                             *)
LEMMA DismissedKeeps ==
  ASSUME NEW on \in {"gtk", "win32", "android"}, NEW s, SurfacesInv(s, on), ~s.torn, s.loop = "runs",
         NEW w \in Windows, s.wins[w].up
  PROVE  SurfacesInv(Dismissed(s, w), on)
<1>1. s.on = on
  BY DEF SurfacesInv, SurfaceState
<1>2. CASE on = "gtk"
  BY <1>1, <1>2, GtkDestroyedKeeps DEF Dismissed
<1>3. CASE on = "win32"
  BY <1>1, <1>3, Win32DestroyedKeeps DEF Dismissed
<1>4. CASE on = "android"
  BY <1>1, <1>4, AndroidClosedKeeps, ActivityFinishedKeeps DEF Dismissed
<1> QED
  BY <1>2, <1>3, <1>4

(* The run begins: with the primary window, and none before it.            *)
RunBegun(s, u, on, win) ==
  /\ win \in WindowRecord /\ win.made /\ win.live /\ win.up /\ (on = "gtk" => win.app)
  /\ u \in SurfaceState(on) /\ u.wins = [s.wins EXCEPT ![1] = win] /\ u.entries = s.entries /\ u.tip = s.tip
  /\ on = "gtk" => u.uses = 2
  /\ u.early = s.early /\ u.torn = s.torn /\ u.quit = s.quit
  /\ u.loop = IF on = "win32" /\ s.stop THEN "over" ELSE "runs"

(* With the primary window the loop has one to run for.                    *)
LEMMA RunBegunKeeps ==
  ASSUME NEW on \in {"gtk", "win32", "android"}, NEW s, SurfacesInv(s, on), ~s.torn, s.loop = "before",
         NEW win, NEW u, RunBegun(s, u, on, win)
  PROVE  SurfacesInv(u, on)
<1>1. /\ s \in SurfaceState(on) /\ WinsTrue(on, s.wins) /\ LoopTrue(s, on) /\ s.entries = <<>>
      /\ s.wins \in [Windows -> WindowRecord] /\ 1 \in Windows
  BY SurfacesAssumption DEF SurfacesInv, SurfaceState, EachTrue
<1>2. u.wins[1] = win /\ \A v \in Windows : v # 1 => u.wins[v] = s.wins[v]
  BY <1>1 DEF RunBegun
<1>3. WinsTrue(on, u.wins)
  BY <1>1, <1>2 DEF WinsTrue, RunBegun
<1>4. EachTrue(u, on, 0) /\ OneTip(u)
  BY <1>1 DEF EachTrue, OneTip, RunBegun
<1>5. ASSUME ~u.early
      PROVE  LoopTrue(u, on)
  <2>1. (\A w \in Windows : ~s.wins[w].made) /\ (s.stop => s.quit)
    BY <1>1, <1>5 DEF LoopTrue, RunBegun
  <2>2. LiveWindows(u) = {1}
    BY <1>1, <1>2, <2>1 DEF LiveWindows, WinsTrue, RunBegun
  <2>3. IsFiniteSet({1}) /\ Cardinality({1}) = 1
    BY FS_Singleton
  <2>4. on = "gtk" => /\ IsFiniteSet(LiveWindows(u)) /\ u.uses = 2 * Cardinality(LiveWindows(u))
                      /\ \A w \in LiveWindows(u) : u.wins[w].app
    BY <1>2, <2>2, <2>3 DEF RunBegun
  <2>5. u.wins[1].live /\ LiveWindows(u) # {}
    BY <1>2, <2>2 DEF RunBegun
  <2> QED
    BY <2>1, <2>4, <2>5 DEF LoopTrue, RunBegun
<1> QED
  BY <1>3, <1>4, <1>5 DEF SurfacesInv, LoopTrue, RunBegun

(* The run, on each backend.                                               *)
LEMMA RunKeeps ==
  ASSUME NEW on \in {"gtk", "win32", "android"}, NEW s, SurfacesInv(s, on), ~s.torn, s.loop = "before"
  PROVE  SurfacesInv(RunRaw(s), on)
<1>1. s \in SurfaceState(on) /\ s.on = on /\ s.wins \in [Windows -> WindowRecord] /\ 1 \in Windows
  BY SurfacesAssumption DEF SurfacesInv, SurfaceState
<1>2. Primary \in WindowRecord /\ Primary.made /\ Primary.live /\ Primary.up
  BY DEF Primary, NoWindow, WindowRecord
<1>3. CASE on = "gtk"
  <2> DEFINE win == [Primary EXCEPT !.app = TRUE]
             wins == [s.wins EXCEPT ![1] = win]
             u == [s EXCEPT !.wins = wins, !.uses = 2, !.loop = "runs"]
  <2>1. win \in WindowRecord /\ win.made /\ win.live /\ win.up /\ win.app
    BY <1>2 DEF WindowRecord
  <2>2. RunRaw(s) = u
    BY <1>1, <1>3 DEF RunRaw, GtkRun
  <2> HIDE DEF win
  <2>3. RunBegun(s, u, on, win)
    <3>1. wins \in [Windows -> WindowRecord]
      BY <1>1, <2>1
    <3> HIDE DEF wins
    <3>2. u \in SurfaceState(on)
      <4>1. ASSUME NEW uses \in Int, NEW loop \in {"before", "runs", "over"}
            PROVE  [s EXCEPT !.wins = wins, !.uses = uses, !.loop = loop] \in SurfaceState(on)
        BY <1>1, <3>1 DEF SurfaceState
      <4>2. 2 \in Int /\ "runs" \in {"before", "runs", "over"}
        OBVIOUS
      <4> QED
        BY <4>1, <4>2, Zenon
    <3>3. u.wins = wins /\ u.uses = 2 /\ u.loop = "runs"
      BY <1>1 DEF SurfaceState
    <3>4. u.entries = s.entries /\ u.tip = s.tip /\ u.early = s.early /\ u.torn = s.torn /\ u.quit = s.quit
      BY <1>1 DEF SurfaceState
    <3> HIDE DEF u
    <3> QED
      BY <1>3, <2>1, <3>2, <3>3, <3>4 DEF RunBegun, wins
  <2> QED
    BY <2>2, <2>3, RunBegunKeeps
<1>4. CASE on = "win32"
  <2> DEFINE win == Primary
             u == [s EXCEPT !.wins[1] = win, !.loop = IF s.stop THEN "over" ELSE "runs"]
  <2>1. RunRaw(s) = u
    BY <1>1, <1>4 DEF RunRaw, Win32Run
  <2>2. RunBegun(s, u, on, win)
    BY <1>1, <1>2, <1>4 DEF RunBegun, SurfaceState
  <2> QED
    BY <2>1, <2>2, RunBegunKeeps
<1>5. CASE on = "android"
  <2> DEFINE win == Primary
             u == [s EXCEPT !.wins[1] = win, !.loop = "runs"]
  <2>1. RunRaw(s) = u
    BY <1>1, <1>5 DEF RunRaw, AndroidRun
  <2>2. RunBegun(s, u, on, win)
    BY <1>1, <1>2, <1>5 DEF RunBegun, SurfaceState
  <2> QED
    BY <2>1, <2>2, RunBegunKeeps
<1> QED
  BY <1>3, <1>4, <1>5

(* The application asks the loop to end, or asks before it has begun.      *)
LEMMA QuitKeeps ==
  ASSUME NEW on \in {"gtk", "win32", "android"}, NEW s, SurfacesInv(s, on), ~s.torn, s.loop # "over"
  PROVE  SurfacesInv(AppQuit(s), on)
<1>1. /\ s \in SurfaceState(on) /\ WinsTrue(on, s.wins) /\ LoopTrue(s, on) /\ EachTrue(s, on, 0)
      /\ OneTip(s) /\ s.on = on /\ s.loop \in {"before", "runs"} /\ s.stop \in BOOLEAN
  BY DEF SurfacesInv, SurfaceState
<1>2. CASE s.loop = "runs" /\ on = "android"
  <2> DEFINE t == ActivityFinished(s)
             u == [t EXCEPT !.quit = TRUE]
  <2>1. SurfacesInv(t, on) /\ t.loop = "over" /\ ~t.torn
    BY <1>2, ActivityFinishedKeeps
  <2>2. AppQuit(s) = u
    BY <1>1, <1>2 DEF AppQuit
  <2> HIDE DEF t
  <2>3. /\ u \in SurfaceState(on) /\ u.wins = t.wins /\ u.entries = t.entries /\ u.loop = "over"
        /\ u.tip = t.tip /\ u.quit
    BY <2>1 DEF SurfacesInv, SurfaceState
  <2>4. WinsTrue(on, u.wins) /\ EachTrue(u, on, 0) /\ OneTip(u) /\ LoopTrue(u, on)
    BY <2>1, <2>3 DEF SurfacesInv, EachTrue, OneTip, LoopTrue
  <2> QED
    BY <2>2, <2>3, <2>4 DEF SurfacesInv
<1>3. CASE s.loop = "runs" /\ on # "android"
  <2> DEFINE u == [s EXCEPT !.loop = "over", !.quit = TRUE]
  <2>1. AppQuit(s) = u
    BY <1>1, <1>3 DEF AppQuit
  <2>2. /\ u \in SurfaceState(on) /\ u.wins = s.wins /\ u.entries = s.entries /\ u.loop = "over"
        /\ u.tip = s.tip /\ u.quit
    BY <1>1 DEF SurfaceState
  <2> HIDE DEF u
  <2>3. ASSUME NEW h \in DOMAIN u.entries
        PROVE  EntryTrue(on, u.loop, u.wins, u.entries[h], h = 0)
    BY <1>1, <1>3, <2>2 DEF EachTrue, EntryTrue
  <2>4. EachTrue(u, on, 0) /\ OneTip(u) /\ LoopTrue(u, on)
    BY <1>1, <2>2, <2>3 DEF EachTrue, OneTip, LoopTrue
  <2> QED
    BY <1>1, <2>1, <2>2, <2>4 DEF SurfacesInv
<1>4. CASE s.loop = "before"
  <2> DEFINE stop == s.stop \/ s.on = "win32"
             u == [s EXCEPT !.stop = stop, !.quit = TRUE]
  <2>1. AppQuit(s) = u
    BY <1>1, <1>4 DEF AppQuit
  <2>2. stop \in BOOLEAN
    BY <1>1
  <2> HIDE DEF stop
  <2>3. /\ u \in SurfaceState(on) /\ u.wins = s.wins /\ u.entries = s.entries /\ u.loop = s.loop
        /\ u.tip = s.tip /\ u.quit /\ u.early = s.early
    BY <1>1, <2>2 DEF SurfaceState
  <2> HIDE DEF u
  <2>4. EachTrue(u, on, 0) /\ OneTip(u) /\ LoopTrue(u, on)
    BY <1>1, <1>4, <2>3 DEF EachTrue, OneTip, LoopTrue
  <2> QED
    BY <1>1, <2>1, <2>3, <2>4 DEF SurfacesInv
<1> QED
  BY <1>1, <1>2, <1>3, <1>4

(* Before anything there is no window, and no overlay.                     *)
LEMMA FreshHolds ==
  ASSUME NEW on \in {"gtk", "win32", "android"}
  PROVE  SurfacesInv(Fresh(on), on)
<1>1. NoWindow \in WindowRecord /\ ~NoWindow.made /\ ~NoWindow.live /\ ~NoWindow.up
  BY DEF NoWindow, WindowRecord
<1>2. [w \in Windows |-> NoWindow] \in [Windows -> WindowRecord]
  BY <1>1
<1>3. Fresh(on) \in SurfaceState(on) /\ Fresh(on).wins = [w \in Windows |-> NoWindow]
      /\ Fresh(on).loop = "before" /\ Fresh(on).entries = <<>> /\ ~Fresh(on).stop /\ ~Fresh(on).torn
  BY <1>2 DEF Fresh, SurfaceState
<1> QED
  BY <1>1, <1>3 DEF SurfacesInv, WinsTrue, LoopTrue, EachTrue, OneTip

(* What the application may do from before its run on.                     *)
LEMMA AtAnyTimeKeeps ==
  ASSUME backend \in {"gtk", "win32", "android"}, SurfacesInv(st, backend), ~st.torn, st.loop # "over",
         AtAnyTime
  PROVE  SurfacesInv(st', backend)
<1>1. ASSUME NEW w \in Windows \ {1}, NEW sheet \in BOOLEAN, CreateWindow(w, sheet)
      PROVE  SurfacesInv(st', backend)
  BY <1>1, WindowCreateKeeps DEF CreateWindow, In
<1>2. ASSUME NEW w \in Windows \ {1}, ShowWindow(w)
      PROVE  SurfacesInv(st', backend)
  BY <1>2, WindowShowKeeps DEF ShowWindow, In
<1>3. ASSUME NEW w \in Windows \ {1}, CloseWindow(w)
      PROVE  SurfacesInv(st', backend)
  BY <1>3, WindowCloseKeeps DEF CloseWindow, In
<1>4. CASE Run
  BY <1>4, RunKeeps DEF Run, In
<1>5. CASE Quit
  BY <1>5, QuitKeeps DEF Quit, In
<1> QED
  BY <1>1, <1>2, <1>3, <1>4, <1>5 DEF AtAnyTime

(* What happens while the loop runs: to windows, and to overlays.          *)
LEMMA WhileRunningKeeps ==
  ASSUME backend \in {"gtk", "win32", "android"}, SurfacesInv(st, backend), Running, WhileRunning
  PROVE  SurfacesInv(st', backend)
<1>1. /\ st \in SurfaceState(backend) /\ ~st.torn /\ st.loop = "runs" /\ WinsTrue(backend, st.wins)
      /\ EachTrue(st, backend, 0) /\ OneTip(st)
  BY DEF SurfacesInv, Running
<1>2. st.loop # "before" /\ st.loop # "over"
  BY <1>1
<1>3. OverlayStep(st, st', backend) => SurfacesInv(st', backend)
  BY <1>1, OverlayStepKeeps
<1>4. CASE PersonDismisses
  BY <1>1, <1>4, DismissedKeeps DEF PersonDismisses, Shown, In
<1>5. CASE DriverCloses
  BY <1>1, <1>5, CloseByHandleKeeps DEF DriverCloses, In
<1>6. CASE ActivityRecreated
  BY <1>1, <1>3, <1>6, RecreatedKeeps DEF ActivityRecreated, In
<1>7. CASE PressesEscape
  BY <1>1, <1>3, <1>7, EscapeKeeps DEF PressesEscape, In
<1>8. ASSUME NEW w \in Windows, Opens(w, "modal")
      PROVE  SurfacesInv(st', backend)
  BY <1>1, <1>2, <1>3, <1>8, OpenKeeps DEF Opens, In, OverlayStep
<1>9. ASSUME NEW w \in Windows, Toasts(w)
      PROVE  SurfacesInv(st', backend)
  BY <1>1, <1>2, <1>3, <1>9, ToastKeeps DEF Toasts, In
<1>10. ASSUME NEW h \in DOMAIN st.entries, NEW kind \in {"fade", "none"}, NEW ms \in {0, 1},
              SetsTransition(h, kind, ms)
       PROVE  SurfacesInv(st', backend)
  BY <1>1, <1>3, <1>10, SetTransitionKeeps DEF SetsTransition, In
<1>11. ASSUME NEW h \in DOMAIN st.entries, Closes(h)
       PROVE  SurfacesInv(st', backend)
  BY <1>1, <1>3, <1>11, CloseKeeps DEF Closes, In
<1>12. ASSUME NEW h \in DOMAIN st.entries, NEW react \in {"none", "close", "open"}, PressesScrim(h, react)
       PROVE  SurfacesInv(st', backend)
  BY <1>1, <1>2, <1>3, <1>12, PressedKeeps DEF PressesScrim, In
<1>13. CASE ShowsTip
  BY <1>1, <1>2, <1>3, <1>13, TooltipKeeps DEF ShowsTip, In
<1>14. CASE HidesTip
  BY <1>1, <1>3, <1>14, TooltipHideKeeps DEF HidesTip, In
<1> QED
  BY <1>4, <1>5, <1>6, <1>7, <1>8, <1>9, <1>10, <1>11, <1>12, <1>13, <1>14 DEF WhileRunning

(* A toast's time is over, or an exit has played.                          *)
LEMMA EndsKeep ==
  ASSUME backend \in {"gtk", "win32", "android"}, SurfacesInv(st, backend), NEW h,
         ToastExpires(h) \/ ExitEnds(h)
  PROVE  SurfacesInv(st', backend)
<1>1. /\ st \in SurfaceState(backend) /\ ~st.torn /\ EachTrue(st, backend, 0) /\ OneTip(st)
  BY DEF SurfacesInv, Running, ToastExpires, ExitEnds
<1>2. OverlayStep(st, st', backend) => SurfacesInv(st', backend)
  BY <1>1, OverlayStepKeeps
<1>3. CASE ToastExpires(h)
  BY <1>1, <1>2, <1>3, ExpiredKeeps DEF ToastExpires, In
<1>4. CASE ExitEnds(h)
  BY <1>1, <1>2, <1>4, ExitDoneIs DEF ExitEnds, In
<1> QED
  BY <1>3, <1>4

(* The invariant gives the property.                                       *)
LEMMA SurfacesInvHolds ==
  ASSUME backend \in {"gtk", "win32", "android"}, SurfacesInv(st, backend)
  PROVE  SurfacesHold
<1>1. ASSUME ~st.torn, NEW h \in DOMAIN st.entries
      PROVE  LET e == st.entries[h]
             IN /\ e.live /\ st.wins[e.win].up => e.content # "gone"
                /\ ~e.live => e.content = "gone" /\ ~e.exiting
                /\ e.told => ~e.live \/ e.exiting
                /\ e.kind = "tip" /\ e.live /\ st.loop = "runs" => st.tip = h
  BY <1>1, EntryAt DEF SurfacesInv, EachTrue, EntryTrue, OneTip
<1>2. OverlaysAreTrue
  BY <1>1 DEF OverlaysAreTrue
<1>3. LoopRunsWhileWindows
  BY DEF LoopRunsWhileWindows, SurfacesInv, LoopTrue
<1> QED
  BY <1>2, <1>3 DEF SurfacesHold

ShellSurfacesInv == backend \in {"gtk", "win32", "android"} /\ (form = "surfaces" => SurfacesInv(st, backend))

(* For any set of windows, size of GTK's overlay table and number of toast *)
(* slots, on every backend, and as long as nothing freed is touched: a     *)
(* live overlay's content is there while its window is, a closed one has   *)
(* left nothing, one whose scrim was pressed is closed or on its way out   *)
(* whatever on_dismiss did, and there is one tooltip; and where no window  *)
(* was made before the run, the loop runs while there is one and ends      *)
(* with the last or when asked to.                                         *)
THEOREM WhatIsOpenShows == SafeSpec => []SurfacesHold
<1>1. Init => ShellSurfacesInv
  BY ShellAssumption, FreshHolds DEF Init, ShellSurfacesInv
<1>2. ShellSurfacesInv /\ [Next]_vars => ShellSurfacesInv'
  <2> SUFFICES ASSUME ShellSurfacesInv, [Next]_vars, form = "surfaces"
               PROVE  SurfacesInv(st', backend)
    BY FormStays DEF ShellSurfacesInv
  <2>1. CASE UNCHANGED vars
    BY <2>1 DEF vars, ShellSurfacesInv
  <2>2. CASE ~st.torn /\ st.loop # "over" /\ AtAnyTime
    BY <2>2, AtAnyTimeKeeps DEF ShellSurfacesInv
  <2>3. CASE Running /\ WhileRunning
    BY <2>3, WhileRunningKeeps DEF ShellSurfacesInv
  <2>4. ASSUME NEW h, ToastExpires(h) \/ ExitEnds(h)
        PROVE  SurfacesInv(st', backend)
    BY <2>4, EndsKeep DEF ShellSurfacesInv
  <2> QED
    BY <2>1, <2>2, <2>3, <2>4 DEF Next
<1>3. ShellSurfacesInv => SurfacesHold
  <2>1. form # "surfaces" => SurfacesHold
    BY DEF SurfacesHold, OverlaysAreTrue, LoopRunsWhileWindows
  <2> QED
    BY <2>1, SurfacesInvHolds DEF ShellSurfacesInv
<1> QED
  BY <1>1, <1>2, <1>3, PTL DEF SafeSpec

-----------------------------------------------------------------------------
(* Keys.                                                                   *)

KeyHandler == [claims : SUBSET (AllKeys \cup Claimable), adds : BOOLEAN]
Shortcut == [key : AllKeys, scoped : BOOLEAN]
Chord == [first : ChordKeys, second : ChordKeys]
Deeds ==
  [layer : {"accel", "chord", "armed", "shortcut", "handler", "overlay", "focus", "typed"},
   n : Nat]
KeyState(on) ==
  [on : {on}, shortcuts : Seq(Shortcut), chords : Seq(Chord), handlers : Seq(KeyHandler),
   pending : AllKeys \cup {"none"}, late : BOOLEAN, scope : BOOLEAN,
   accels : SUBSET ChordKeys, stops : {0, 1}, overlays : Nat, log : Seq(Deeds),
   before : AllKeys \cup {"none"}]

(* Between presses. The prefix that is armed is the press before, where it *)
(* is not Android's that has gone stale.                                   *)
KeysInv(s, on) ==
  /\ s \in KeyState(on) /\ s.log = <<>>
  /\ s.late => on = "android"
  /\ s.pending # "none" /\ ~s.late => s.before = s.pending

(* What the feed of the chords makes of a key.                             *)
FedTo(s, u, key) ==
  \E p \in {key, "none"}, l \in Seq(Deeds) :
    /\ u = [s EXCEPT !.pending = p, !.late = FALSE, !.log = l]
    /\ \/ l = <<>> /\ p = "none"
       \/ l = <<Deed("armed", 0)>> /\ p = key /\ ChordKey(s, key)
       \/ /\ p = "none" /\ ChordKey(s, key)
          /\ \E i \in DOMAIN s.chords :
               s.chords[i].first = s.before /\ l = <<Deed("chord", i)>>

(* A deed is put last, and is the first of a press where none was.         *)
LEMMA DidIs ==
  ASSUME NEW on, NEW s \in KeyState(on), NEW d
  PROVE  Did(s, d) = [s EXCEPT !.log = Append(s.log, d)]
BY DEF Did, KeyState

(* The first deed of a press, with what the feed has made of the prefix.   *)
LEMMA FirstDeed ==
  ASSUME NEW on, NEW s \in KeyState(on), NEW d, NEW p, s.log = <<>>
  PROVE  Did([s EXCEPT !.pending = p, !.late = FALSE], d)
           = [s EXCEPT !.pending = p, !.late = FALSE, !.log = <<d>>]
<1>1. Did([s EXCEPT !.pending = p, !.late = FALSE], d)
        = [s EXCEPT !.pending = p, !.late = FALSE, !.log = Append(s.log, d)]
  BY DEF Did, KeyState
<1>2. Append(s.log, d) = <<d>>
  OBVIOUS
<1> QED
  BY <1>1, <1>2, Zenon

(* The first of the chords that a key completes.                           *)
LEMMA CompletedIs ==
  ASSUME NEW on, NEW s \in KeyState(on), NEW key, s.log = <<>>, Completes(s, key) # {}
  PROVE  \E i \in Completes(s, key) :
           Completed(s, key) =
             [s EXCEPT !.pending = "none", !.late = FALSE, !.log = <<Deed("chord", i)>>]
<1> DEFINE C == Completes(s, key)
           Least(i) == \A j \in C : i <= j
           chosen == CHOOSE i \in C : Least(i)
<1>1. C \in SUBSET Nat
  BY DEF Completes, KeyState
<1>2. \E i \in C : Least(i)
  BY <1>1, LeastPlace
<1>3. Completed(s, key) = Did([s EXCEPT !.pending = "none", !.late = FALSE], Deed("chord", chosen))
  BY DEF Completed
<1> HIDE DEF Least
<1>4. chosen \in C
  BY <1>2
<1> HIDE DEF chosen, C
<1>5. Completed(s, key)
        = [s EXCEPT !.pending = "none", !.late = FALSE, !.log = <<Deed("chord", chosen)>>]
  BY <1>3, FirstDeed
<1> QED
  BY <1>4, <1>5 DEF C

(* A key that completes nothing arms a chord it starts, or clears the      *)
(* prefix.                                                                 *)
LEMMA ArmedIs ==
  ASSUME NEW on, NEW s \in KeyState(on), NEW key \in AllKeys, s.log = <<>>
  PROVE  \/ /\ ChordKey(s, key)
            /\ Armed(s, key)
                 = [s EXCEPT !.pending = key, !.late = FALSE, !.log = <<Deed("armed", 0)>>]
         \/ Armed(s, key) = [s EXCEPT !.pending = "none", !.late = FALSE, !.log = <<>>]
<1>1. CASE \E i \in DOMAIN s.chords : s.chords[i].first = key
  <2>1. Armed(s, key) = Did([s EXCEPT !.pending = key, !.late = FALSE], Deed("armed", 0))
    BY <1>1 DEF Armed
  <2>2. Armed(s, key) = [s EXCEPT !.pending = key, !.late = FALSE, !.log = <<Deed("armed", 0)>>]
    <3> DEFINE d == Deed("armed", 0)
    <3> HIDE DEF d
    <3>1. Did([s EXCEPT !.pending = key, !.late = FALSE], d)
            = [s EXCEPT !.pending = key, !.late = FALSE, !.log = <<d>>]
      BY FirstDeed
    <3> QED
      BY <2>1, <3>1 DEF d
  <2>3. ChordKey(s, key)
    BY <1>1 DEF ChordKey
  <2> QED
    BY <2>2, <2>3
<1>2. CASE ~\E i \in DOMAIN s.chords : s.chords[i].first = key
  BY <1>2 DEF Armed, KeyState
<1> QED
  BY <1>1, <1>2

(* A chord completes only the prefix that is armed.                        *)
LEMMA FeedIs ==
  ASSUME NEW on \in {"gtk", "win32", "android"}, NEW s, KeysInv(s, on), NEW key \in AllKeys
  PROVE  /\ on # "android" => FedTo(s, GtkFeed(s, key), key) /\ FedTo(s, Win32Feed(s, key), key)
         /\ on = "android" => FedTo(s, AndroidFeed(s, key), key)
<1>1. s \in KeyState(on) /\ s.log = <<>>
  BY DEF KeysInv
<1>2. /\ <<>> \in Seq(Deeds) /\ <<Deed("armed", 0)>> \in Seq(Deeds)
      /\ \A i \in DOMAIN s.chords : <<Deed("chord", i)>> \in Seq(Deeds)
  <2>1. Deed("armed", 0) \in Deeds /\ \A i \in Nat : Deed("chord", i) \in Deeds
    BY DEF Deeds, Deed
  <2>2. DOMAIN s.chords \in SUBSET Nat
    BY <1>1 DEF KeyState
  <2> QED
    BY <2>1, <2>2
<1>3. ASSUME NEW now \in KeyState(on), now.log = <<>>, now.chords = s.chords,
             now.pending # "none" => s.before = now.pending,
             now = [s EXCEPT !.pending = now.pending, !.late = now.late],
             NEW u, u = IF Completes(now, key) # {} THEN Completed(now, key) ELSE Armed(now, key)
      PROVE  FedTo(s, u, key)
  <2>1. CASE Completes(now, key) # {}
    <3>0. u = Completed(now, key)
      BY <1>3, <2>1
    <3>1. PICK i \in Completes(now, key) :
            Completed(now, key)
              = [now EXCEPT !.pending = "none", !.late = FALSE, !.log = <<Deed("chord", i)>>]
      <4>1. now.log = <<>>
        BY <1>3
      <4> QED
        BY ONLY <4>1, <2>1, CompletedIs
    <3>2. /\ i \in DOMAIN s.chords /\ s.chords[i].first = now.pending /\ s.chords[i].second = key
          /\ now.pending \in ChordKeys
      <4>1. i \in DOMAIN s.chords /\ s.chords[i].first = now.pending /\ s.chords[i].second = key
        BY <1>3, <3>1 DEF Completes
      <4>2. s.chords \in Seq(Chord)
        BY <1>1 DEF KeyState
      <4>3. s.chords[i] \in Chord
        BY <4>1, <4>2
      <4> QED
        BY <4>1, <4>3 DEF Chord
    <3>3. s.chords[i].first = s.before /\ ChordKey(s, key)
      BY <1>3, <3>2, ShellAssumption DEF ChordKey
    <3>4. u = [s EXCEPT !.pending = "none", !.late = FALSE, !.log = <<Deed("chord", i)>>]
      BY <1>1, <1>3, <3>0, <3>1 DEF KeyState
    <3> QED
      BY <1>2, <3>2, <3>3, <3>4 DEF FedTo
  <2>2. CASE Completes(now, key) = {}
    <3>1. \/ /\ ChordKey(now, key)
             /\ u = [now EXCEPT !.pending = key, !.late = FALSE, !.log = <<Deed("armed", 0)>>]
          \/ u = [now EXCEPT !.pending = "none", !.late = FALSE, !.log = <<>>]
      BY <1>3, <2>2, ArmedIs
    <3>2. \/ /\ ChordKey(s, key)
             /\ u = [s EXCEPT !.pending = key, !.late = FALSE, !.log = <<Deed("armed", 0)>>]
          \/ u = [s EXCEPT !.pending = "none", !.late = FALSE, !.log = <<>>]
      <4>1. ChordKey(now, key) <=> ChordKey(s, key)
        BY <1>3 DEF ChordKey
      <4>2. \A p, l : [now EXCEPT !.pending = p, !.late = FALSE, !.log = l]
                      = [s EXCEPT !.pending = p, !.late = FALSE, !.log = l]
        BY <1>1, <1>3 DEF KeyState
      <4> QED
        BY <3>1, <4>1, <4>2
    <3> QED
      BY <1>2, <3>2 DEF FedTo
  <2> QED
    BY <2>1, <2>2
<1>4. CASE on # "android"
  <2>1. s = [s EXCEPT !.pending = s.pending, !.late = s.late]
    BY <1>1 DEF KeyState
  <2> QED
    BY <1>1, <1>3, <1>4, <2>1 DEF KeysInv, GtkFeed, Win32Feed
<1>5. CASE on = "android"
  <2> DEFINE now == IF s.late THEN [s EXCEPT !.pending = "none", !.late = FALSE] ELSE s
  <2>1. /\ now \in KeyState(on) /\ now.log = <<>> /\ now.chords = s.chords
        /\ now.pending # "none" => s.before = now.pending
        /\ now = [s EXCEPT !.pending = now.pending, !.late = now.late]
    BY <1>1 DEF KeyState, KeysInv
  <2>2. AndroidFeed(s, key)
          = IF Completes(now, key) # {} THEN Completed(now, key) ELSE Armed(now, key)
    BY DEF AndroidFeed
  <2> HIDE DEF now
  <2> QED
    BY <1>3, <1>5, <2>1, <2>2
<1> QED
  BY <1>4, <1>5

(* What an accelerator does, the shortcuts and the handlers, each alone.   *)
HeardBy(n) == [i \in 1 .. n |-> Deed("handler", i)]

(* The handlers hear the press in turn, and claim what they claimed.       *)
LEMMA DeliveredIs ==
  ASSUME NEW on, NEW s \in KeyState(on)
  PROVE  \E hs \in Seq(KeyHandler), n \in Nat :
           /\ Delivered(s) = [s EXCEPT !.handlers = hs, !.log = s.log \o HeardBy(n)]
           /\ \A key : Claimed(Delivered(s), key) <=> Claimed(s, key)
           /\ s.handlers = <<>> => hs = <<>> /\ n = 0
<1> DEFINE l == Len(s.handlers)
           a == [i \in DOMAIN s.handlers |-> [s.handlers[i] EXCEPT !.adds = FALSE]]
           m == Cardinality(Adders(s))
           b == [i \in 1 .. m |-> [claims |-> {}, adds |-> FALSE]]
<1>1. l \in Nat /\ DOMAIN s.handlers = 1 .. l /\ s.handlers \in Seq(KeyHandler)
  BY DEF KeyState
<1>2. m \in Nat /\ (l = 0 => m = 0)
  <2>1. Adders(s) \in SUBSET (1 .. l)
    BY <1>1 DEF Adders
  <2>2. IsFiniteSet(1 .. l)
    BY <1>1, FS_Interval
  <2>3. IsFiniteSet(Adders(s))
    BY <2>1, <2>2, FS_Subset
  <2>4. l = 0 => Adders(s) = {}
    BY <2>1
  <2> QED
    BY <2>3, <2>4, FS_CardinalityType, FS_EmptySet
<1>3. HandlersAfter(s) = a \o b
  BY DEF HandlersAfter
<1> HIDE DEF m
<1>4. a \in Seq(KeyHandler) /\ Len(a) = l /\ \A i \in 1 .. l : a[i].claims = s.handlers[i].claims
  <2>1. \A i \in 1 .. l : s.handlers[i] \in KeyHandler
    BY <1>1
  <2>2. \A h \in KeyHandler : /\ [h EXCEPT !.adds = FALSE] \in KeyHandler
                              /\ [h EXCEPT !.adds = FALSE].claims = h.claims
    BY DEF KeyHandler
  <2>3. \A i \in 1 .. l : a[i] \in KeyHandler /\ a[i].claims = s.handlers[i].claims
    BY <1>1, <2>1, <2>2
  <2>4. DOMAIN a = 1 .. l /\ a = [i \in 1 .. l |-> a[i]]
    BY <1>1
  <2> HIDE DEF a, l
  <2> QED
    BY <1>1, <2>3, <2>4
<1>5. b \in Seq(KeyHandler) /\ Len(b) = m /\ \A i \in 1 .. m : b[i].claims = {}
  BY <1>2 DEF KeyHandler
<1> HIDE DEF a, b, l
<1> DEFINE hs == a \o b
<1>6. hs \in Seq(KeyHandler) /\ Len(hs) = l + m
  BY <1>4, <1>5, ConcatProperties
<1>7. /\ \A i \in 1 .. l : hs[i].claims = s.handlers[i].claims
      /\ \A i \in 1 .. l + m : i \notin 1 .. l => hs[i].claims = {}
  BY <1>1, <1>2, <1>4, <1>5
<1>8. DOMAIN hs = 1 .. l + m
  BY <1>6
<1>9. l = 0 => hs = <<>>
  BY <1>2, <1>6
<1> DEFINE n == Hearers(s)
<1>10. n \in Nat /\ (l = 0 => n = 0)
  BY <1>1, <1>2, <1>3, <1>6 DEF Hearers, l
<1>11. Delivered(s) = [s EXCEPT !.handlers = hs, !.log = s.log \o HeardBy(n)]
  BY <1>3 DEF Delivered, HeardBy
<1> HIDE DEF hs, n
<1>12. Delivered(s).handlers = hs
  BY <1>11 DEF KeyState
<1>13. ASSUME NEW key
       PROVE  Claimed(Delivered(s), key) <=> Claimed(s, key)
  <2>1. \A i \in 1 .. l : i \in 1 .. l + m
    BY <1>1, <1>2
  <2> QED
    BY <1>1, <1>7, <1>8, <1>12, <2>1 DEF Claimed
<1>14. s.handlers = <<>> => hs = <<>> /\ n = 0
  BY <1>9, <1>10 DEF l
<1> QED
  BY <1>6, <1>10, <1>11, <1>13, <1>14

(* The shortcuts of a key, and what they leave in the log.                 *)
FiredBy(b) == [i \in DOMAIN b |-> Deed("shortcut", b[i])]
(* The shortcuts of a key are places in the list of the shortcuts.         *)
LEMMA BoundIs ==
  ASSUME NEW on, NEW s \in KeyState(on), NEW key
  PROVE  /\ Bound(s, key) \in Seq(Nat)
         /\ FiredBy(Bound(s, key)) \in Seq(Deeds)
         /\ Len(FiredBy(Bound(s, key))) = Len(Bound(s, key))
<1> DEFINE places == [i \in DOMAIN s.shortcuts |-> i]
           b == Bound(s, key)
<1>1. places \in Seq(Nat)
  <2>1. Len(s.shortcuts) \in Nat /\ DOMAIN s.shortcuts = 1 .. Len(s.shortcuts)
    BY DEF KeyState
  <2> QED
    BY <2>1
<1>2. b \in Seq(Nat)
  BY <1>1, KeptFacts DEF Bound
<1> HIDE DEF b
<1>3. \A i \in Nat : Deed("shortcut", i) \in Deeds
  BY DEF Deed, Deeds
<1>4. Len(b) \in Nat /\ DOMAIN b = 1 .. Len(b) /\ \A i \in 1 .. Len(b) : b[i] \in Nat
  BY <1>2
<1>5. FiredBy(b) = [i \in 1 .. Len(b) |-> Deed("shortcut", b[i])]
  BY <1>4 DEF FiredBy
<1>6. FiredBy(b) \in Seq(Deeds) /\ Len(FiredBy(b)) = Len(b)
  BY <1>3, <1>4, <1>5
<1> QED
  BY <1>2, <1>6 DEF b

(* What they leave where nothing was.                                      *)
LEMMA FiredIs ==
  ASSUME NEW on, NEW s \in KeyState(on), NEW key, s.log = <<>>
  PROVE  /\ AllFired(s, key) = [s EXCEPT !.log = FiredBy(Bound(s, key))]
         /\ Bound(s, key) = <<>> => AllFired(s, key) = s /\ FirstFired(s, key) = s
         /\ Bound(s, key) # <<>> =>
              /\ FirstFired(s, key) = [s EXCEPT !.log = <<Deed("shortcut", Bound(s, key)[1])>>]
              /\ Deed("shortcut", Bound(s, key)[1]) \in Deeds
         /\ Len(Bound(s, key)) = 1 =>
              FiredBy(Bound(s, key)) = <<Deed("shortcut", Bound(s, key)[1])>>
<1> DEFINE b == Bound(s, key)
<1>1. b \in Seq(Nat) /\ FiredBy(b) \in Seq(Deeds) /\ Len(FiredBy(b)) = Len(b)
  BY BoundIs
<1>2. AllFired(s, key) = [s EXCEPT !.log = FiredBy(b)]
  <2>1. AllFired(s, key) = [s EXCEPT !.log = s.log \o FiredBy(b)]
    BY DEF AllFired, FiredBy
  <2>2. s.log \o FiredBy(b) = FiredBy(b)
    BY <1>1, ConcatEmptySeq
  <2> QED
    BY <2>1, <2>2, Zenon
<1>3. b = <<>> => AllFired(s, key) = s /\ FirstFired(s, key) = s
  <2>1. b = <<>> => FiredBy(b) = <<>>
    BY <1>1
  <2>2. s = [s EXCEPT !.log = <<>>]
    BY DEF KeyState
  <2> QED
    BY <1>2, <2>1, <2>2 DEF FirstFired
<1>4. b # <<>> => FirstFired(s, key) = [s EXCEPT !.log = <<Deed("shortcut", b[1])>>]
  <2>1. Did(s, Deed("shortcut", b[1])) = [s EXCEPT !.log = Append(s.log, Deed("shortcut", b[1]))]
    BY DidIs
  <2>2. Append(s.log, Deed("shortcut", b[1])) = <<Deed("shortcut", b[1])>>
    OBVIOUS
  <2>3. b # <<>> => FirstFired(s, key) = Did(s, Deed("shortcut", b[1]))
    BY DEF FirstFired
  <2> QED
    BY <2>1, <2>2, <2>3, Zenon
<1>5. b # <<>> => Deed("shortcut", b[1]) \in Deeds
  <2>1. b # <<>> => b[1] \in Nat
    BY <1>1
  <2> QED
    BY <2>1 DEF Deed, Deeds
<1>6. Len(b) = 1 => FiredBy(b) = <<Deed("shortcut", b[1])>>
  <2>1. Len(b) = 1 => FiredBy(b) = [i \in 1 .. 1 |-> Deed("shortcut", b[i])]
    BY <1>1 DEF FiredBy
  <2> QED
    BY <2>1
<1> QED
  BY <1>2, <1>3, <1>4, <1>5, <1>6

(* What follows a press that no chord and no shortcut has taken leaves the *)
(* chords alone, and puts one deed more at the end or none.                *)
Leaves(s, u, on, layers) ==
  /\ u \in KeyState(on) /\ u.pending = s.pending /\ u.late = s.late /\ u.before = s.before
  /\ u.log = s.log \/ \E layer \in layers : u.log = Append(s.log, Deed(layer, 0))
(* One more deed.                                                          *)
LEMMA DeedIs ==
  ASSUME NEW on, NEW s \in KeyState(on), NEW layer \in {"focus", "overlay", "accel", "typed"}
  PROVE  Leaves(s, Did(s, Deed(layer, 0)), on, {layer})
<1> DEFINE l == Append(s.log, Deed(layer, 0))
<1>1. Deed(layer, 0) \in Deeds
  BY DEF Deed, Deeds
<1>2. l \in Seq(Deeds) /\ Did(s, Deed(layer, 0)) = [s EXCEPT !.log = l]
  BY <1>1, DidIs DEF KeyState
<1> HIDE DEF l
<1> QED
  BY <1>2 DEF Leaves, KeyState, l

(* What the toolkit does with a key that nobody took is one deed at most.  *)
LEMMA TailIs ==
  ASSUME NEW on, NEW s \in KeyState(on)
  PROVE  /\ Leaves(s, s, on, {})
         /\ Leaves(s, Tabbed(s), on, {"focus"})
         /\ Leaves(s, Escaped(s), on, {"overlay"})
         /\ Leaves(s, Accelerated(s), on, {"accel"})
         /\ \A key : Leaves(s, Typed(s, key), on, {"typed", "focus"})
<1>1. Leaves(s, s, on, {})
  BY DEF Leaves
<1>2. Leaves(s, Tabbed(s), on, {"focus"})
  BY <1>1, DeedIs DEF Tabbed, Leaves
<1>3. Leaves(s, Escaped(s), on, {"overlay"})
  <2>1. CASE s.overlays = 0
    BY <1>1, <2>1 DEF Escaped, Leaves
  <2>2. CASE s.overlays # 0
    <3> DEFINE less == [s EXCEPT !.overlays = @ - 1]
    <3>1. s.overlays - 1 \in Nat
      BY <2>2 DEF KeyState
    <3>2. less \in KeyState(on) /\ less.log = s.log /\ less.pending = s.pending
          /\ less.late = s.late /\ less.before = s.before
      BY <3>1 DEF KeyState
    <3>3. Escaped(s) = Did(less, Deed("overlay", 0))
      BY <2>2 DEF Escaped
    <3> HIDE DEF less
    <3>4. Leaves(less, Did(less, Deed("overlay", 0)), on, {"overlay"})
      BY <3>2, DeedIs
    <3> QED
      BY <3>2, <3>3, <3>4 DEF Leaves
  <2> QED
    BY <2>1, <2>2
<1>4. Leaves(s, Accelerated(s), on, {"accel"})
  BY DeedIs DEF Accelerated
<1>5. ASSUME NEW key PROVE Leaves(s, Typed(s, key), on, {"typed", "focus"})
  <2>1. CASE key = "Tab"
    BY <1>2, <2>1 DEF Typed, Leaves
  <2>2. CASE key # "Tab"
    BY <2>2, DeedIs DEF Typed, Leaves
  <2> QED
    BY <2>1, <2>2
<1> QED
  BY <1>1, <1>2, <1>3, <1>4, <1>5

(* What a press comes to, of one layer or of the handlers' and what may    *)
(* follow them, and what it leaves armed.                                  *)
LastLayers(on) ==
  {"focus", "overlay", "typed"} \cup (IF on = "android" THEN {"accel"} ELSE {})
Taken(s, u, on) ==
  \/ u.log = <<Deed("armed", 0)>>
  \/ \E i \in DOMAIN s.chords : s.chords[i].first = s.before /\ u.log = <<Deed("chord", i)>>
  \/ u.log # <<>> /\ \A i \in DOMAIN u.log : u.log[i].layer = "shortcut"
  \/ on # "android" /\ u.log = <<Deed("accel", 0)>>
Followed(u, on, claimed) ==
  \E n \in Nat :
    \/ u.log = HeardBy(n)
    \/ /\ n # 0 => ~claimed
       /\ \E layer \in LastLayers(on) : u.log = Append(HeardBy(n), Deed(layer, 0))
HeardTwice(u) == \E n, m \in Nat : u.log = HeardBy(n) \o HeardBy(m)
PressedAs(s, u, key, on, driven) ==
  \/ Taken(s, u, on)
  \/ Followed(u, on, Claimed(s, key) /\ ~(driven /\ on = "win32"))
  \/ driven /\ on = "gtk" /\ key = "Tab" /\ s.stops = 0 /\ HeardTwice(u)
Leftover(s, u, key, on, driven) ==
  /\ u \in KeyState(on) /\ u.before = s.before
  /\ \/ u.pending = "none" /\ ~u.late
     \/ /\ u.pending = key /\ ~u.late /\ u.log = <<Deed("armed", 0)>> /\ ChordKey(s, key)
        /\ on # "android" => key \notin s.accels
     \/ /\ u.pending = s.pending /\ u.late = s.late
        /\ \/ on # "android" /\ key \in s.accels
           \/ ~driven /\ on = "gtk" /\ (~ChordKey(s, key) \/ Ran(u, "shortcut") \/ Ran(u, "overlay"))

(* The handlers hear a press that nothing has taken.                       *)
Hears(s, u, on) ==
  /\ u \in KeyState(on) /\ u.pending = s.pending /\ u.late = s.late /\ u.before = s.before
  /\ \E n \in Nat : u.log = HeardBy(n)
(* Where no layer has done anything the log is the handlers' alone, and    *)
(* without handlers a press is as it was.                                  *)
LEMMA HearsIs ==
  ASSUME NEW on, NEW s \in KeyState(on), s.log = <<>>
  PROVE  /\ Hears(s, Delivered(s), on)
         /\ \A key : Claimed(Delivered(s), key) <=> Claimed(s, key)
         /\ s.handlers = <<>> => Delivered(s) = s
<1>1. PICK hs \in Seq(KeyHandler), n \in Nat :
        /\ Delivered(s) = [s EXCEPT !.handlers = hs, !.log = s.log \o HeardBy(n)]
        /\ \A key : Claimed(Delivered(s), key) <=> Claimed(s, key)
        /\ s.handlers = <<>> => hs = <<>> /\ n = 0
  BY DeliveredIs
<1>2. HeardBy(n) \in Seq(Deeds) /\ (n = 0 => HeardBy(n) = <<>>)
  <2>1. \A i \in 1 .. n : Deed("handler", i) \in Deeds
    BY DEF Deed, Deeds
  <2> QED
    BY <2>1 DEF HeardBy
<1>3. s.log \o HeardBy(n) = HeardBy(n)
  BY <1>2, ConcatEmptySeq
<1>4. Delivered(s) = [s EXCEPT !.handlers = hs, !.log = HeardBy(n)]
  BY <1>1, <1>3, Zenon
<1>5. Hears(s, Delivered(s), on)
  BY <1>2, <1>4 DEF Hears, KeyState
<1>6. ASSUME s.handlers = <<>> PROVE Delivered(s) = s
  <2>1. Delivered(s) = [s EXCEPT !.handlers = <<>>, !.log = <<>>]
    BY <1>1, <1>2, <1>4, <1>6
  <2>2. s = [s EXCEPT !.handlers = s.handlers, !.log = s.log]
    BY DEF KeyState
  <2> QED
    BY <1>6, <2>1, <2>2, Zenon
<1> QED
  BY <1>1, <1>5, <1>6

(* What may follow, where no handler that heard the press claims it.       *)
LEMMA FollowedIs ==
  ASSUME NEW on, NEW s \in KeyState(on), s.log = <<>>, NEW h, h = s \/ Hears(s, h, on),
         NEW layers \in SUBSET LastLayers(on), NEW u, Leaves(h, u, on, layers),
         NEW claimed \in BOOLEAN, h = s \/ u = h \/ ~claimed
  PROVE  /\ u \in KeyState(on) /\ u.pending = s.pending /\ u.late = s.late /\ u.before = s.before
         /\ Followed(u, on, claimed)
<1>1. /\ h \in KeyState(on) /\ h.pending = s.pending /\ h.late = s.late /\ h.before = s.before
      /\ \E n \in Nat : h.log = HeardBy(n) /\ (h = s => n = 0)
  <2>1. HeardBy(0) = <<>>
    BY DEF HeardBy
  <2>2. CASE h = s
    BY <2>1, <2>2
  <2>3. CASE h # s
    BY <2>3 DEF Hears
  <2> QED
    BY <2>2, <2>3
<1>2. PICK n \in Nat : h.log = HeardBy(n) /\ (h = s => n = 0)
  BY <1>1
<1>3. CASE u.log = h.log
  BY <1>1, <1>2, <1>3 DEF Leaves, Followed
<1>4. CASE u.log # h.log
  <2>1. PICK layer \in LastLayers(on) : u.log = Append(HeardBy(n), Deed(layer, 0))
    BY <1>2, <1>4 DEF Leaves
  <2>2. n # 0 => ~claimed
    BY <1>2, <1>4
  <2> QED
    BY <1>1, <2>1, <2>2 DEF Leaves, Followed
<1> QED
  BY <1>3, <1>4

(* A press that the feed has seen: it is taken, or no prefix is armed.     *)
Cleared(s) == [s EXCEPT !.pending = "none", !.late = FALSE]
EndsAs(s, u, key, on, driven) == PressedAs(s, u, key, on, driven) /\ Leftover(s, u, key, on, driven)
(* What the feed of the chords takes is how the press ends; where it takes *)
(* nothing, it has cleared the prefix.                                     *)
LEMMA FedIs ==
  ASSUME NEW on \in {"gtk", "win32", "android"}, NEW s, KeysInv(s, on), NEW key \in AllKeys,
         NEW u, FedTo(s, u, key)
  PROVE  /\ u \in KeyState(on) /\ u.before = s.before
         /\ u.log = <<>> => u.pending = "none" /\ ~u.late /\ u = Cleared(s)
         /\ u.log # <<>> => ChordKey(s, key)
         /\ u.log # <<>> /\ (on = "android" \/ key \notin s.accels) =>
              \A driven : EndsAs(s, u, key, on, driven)
<1>1. s \in KeyState(on) /\ s.log = <<>>
  BY DEF KeysInv
<1>2. PICK p \in {key, "none"}, l \in Seq(Deeds) :
        /\ u = [s EXCEPT !.pending = p, !.late = FALSE, !.log = l]
        /\ \/ l = <<>> /\ p = "none"
           \/ l = <<Deed("armed", 0)>> /\ p = key /\ ChordKey(s, key)
           \/ /\ p = "none" /\ ChordKey(s, key)
              /\ \E i \in DOMAIN s.chords :
                   s.chords[i].first = s.before /\ l = <<Deed("chord", i)>>
  BY DEF FedTo
<1>3. u \in KeyState(on) /\ u.before = s.before /\ u.pending = p /\ ~u.late /\ u.log = l
  BY <1>1, <1>2 DEF KeyState
<1>4. ASSUME u.log = <<>>
      PROVE  u.pending = "none" /\ ~u.late /\ u = Cleared(s)
  <2>1. \A d : <<d>> # <<>>
    OBVIOUS
  <2>2. l = <<>> /\ p = "none"
    BY <1>2, <1>3, <1>4, <2>1
  <2>3. s = [s EXCEPT !.log = <<>>]
    BY <1>1 DEF KeyState
  <2>4. [s EXCEPT !.pending = "none", !.late = FALSE, !.log = <<>>]
          = Cleared(s)
    BY <1>1 DEF KeyState, Cleared
  <2> QED
    BY <1>2, <1>3, <2>2, <2>4, Zenon
<1>5. u.log # <<>> => ChordKey(s, key)
  BY <1>2, <1>3
<1>6. ASSUME u.log # <<>>, on = "android" \/ key \notin s.accels, NEW driven
      PROVE  EndsAs(s, u, key, on, driven)
  <2>1. Taken(s, u, on)
    BY <1>2, <1>3, <1>6 DEF Taken
  <2>2. Leftover(s, u, key, on, driven)
    BY <1>2, <1>3, <1>6 DEF Leftover
  <2> QED
    BY <2>1, <2>2 DEF EndsAs, PressedAs
<1> QED
  BY <1>3, <1>4, <1>5, <1>6

(* A shortcut fires after the feed, which has taken nothing, or before it. *)
LEMMA ShortcutIs ==
  ASSUME NEW on, NEW s \in KeyState(on), s.log = <<>>, NEW d \in Deeds, d.layer = "shortcut"
  PROVE  /\ Did(s, d) \in KeyState(on)
         /\ Did(s, d).log = <<d>> /\ Did(s, d).pending = s.pending /\ Did(s, d).late = s.late
         /\ Did(s, d).before = s.before /\ Ran(Did(s, d), "shortcut")
         /\ \A t : Taken(t, Did(s, d), on)
<1>1. Did(s, d) = [s EXCEPT !.log = Append(s.log, d)]
  BY DidIs
<1>2. Append(s.log, d) = <<d>> /\ <<d>> \in Seq(Deeds)
  OBVIOUS
<1>3. Did(s, d) = [s EXCEPT !.log = <<d>>]
  BY <1>1, <1>2, Zenon
<1> DEFINE u == Did(s, d)
<1>4. u \in KeyState(on) /\ u.log = <<d>> /\ u.pending = s.pending /\ u.late = s.late
      /\ u.before = s.before
  BY <1>2, <1>3 DEF KeyState
<1> HIDE DEF u
<1>5. DOMAIN u.log = {1} /\ u.log[1] = d
  BY <1>4
<1>6. Ran(u, "shortcut") /\ \A t : Taken(t, u, on)
  BY <1>4, <1>5 DEF Ran, Taken
<1> QED
  BY <1>4, <1>6 DEF u

(* All the shortcuts of a key, or its first.                               *)
LEMMA AllFiredIs ==
  ASSUME NEW on, NEW s \in KeyState(on), s.log = <<>>, NEW key,
         NEW u \in {AllFired(s, key), FirstFired(s, key)}
  PROVE  /\ Bound(s, key) = <<>> => u = s
         /\ Bound(s, key) # <<>> =>
              /\ u \in KeyState(on) /\ u.log # <<>> /\ u.pending = s.pending /\ u.late = s.late
              /\ u.before = s.before /\ \A t : Taken(t, u, on)
<1> DEFINE b == Bound(s, key)
<1>1. b \in Seq(Nat) /\ FiredBy(b) \in Seq(Deeds) /\ Len(FiredBy(b)) = Len(b)
  BY BoundIs
<1>2. b = <<>> => u = s
  BY FiredIs
<1>3. ASSUME b # <<>>, NEW l \in Seq(Deeds), l # <<>>,
             \A i \in DOMAIN l : l[i].layer = "shortcut", u = [s EXCEPT !.log = l]
      PROVE  /\ u \in KeyState(on) /\ u.log # <<>> /\ u.pending = s.pending /\ u.late = s.late
             /\ u.before = s.before /\ \A t : Taken(t, u, on)
  BY <1>3 DEF KeyState, Taken
<1>4. ASSUME b # <<>>, u = AllFired(s, key)
      PROVE  \E l \in Seq(Deeds) : /\ l # <<>> /\ \A i \in DOMAIN l : l[i].layer = "shortcut"
                                  /\ u = [s EXCEPT !.log = l]
  <2>1. u = [s EXCEPT !.log = FiredBy(b)]
    BY <1>4, FiredIs
  <2>2. FiredBy(b) # <<>> /\ \A i \in DOMAIN FiredBy(b) : FiredBy(b)[i].layer = "shortcut"
    <3>1. Len(b) # 0 /\ Len(FiredBy(b)) # 0
      BY <1>1, <1>4
    <3> QED
      BY <1>1, <3>1 DEF FiredBy, Deed
  <2> QED
    BY <1>1, <2>1, <2>2
<1>5. ASSUME b # <<>>, u = FirstFired(s, key)
      PROVE  \E l \in Seq(Deeds) : /\ l # <<>> /\ \A i \in DOMAIN l : l[i].layer = "shortcut"
                                  /\ u = [s EXCEPT !.log = l]
  <2> DEFINE d == Deed("shortcut", b[1])
  <2>1. u = [s EXCEPT !.log = <<d>>] /\ d \in Deeds
    BY <1>5, FiredIs
  <2>2. d.layer = "shortcut"
    BY DEF Deed
  <2> HIDE DEF d
  <2>3. <<d>> \in Seq(Deeds) /\ <<d>> # <<>> /\ \A i \in DOMAIN <<d>> : <<d>>[i].layer = "shortcut"
    BY <2>1, <2>2
  <2> QED
    BY <2>1, <2>3
<1> QED
  BY <1>2, <1>3, <1>4, <1>5

(* The feed that takes nothing touches nothing but the prefix.             *)
LEMMA ClearedIs ==
  ASSUME NEW on, NEW s \in KeyState(on)
  PROVE  /\ Cleared(s) \in KeyState(on) /\ Cleared(s).log = s.log /\ Cleared(s).pending = "none"
         /\ ~Cleared(s).late /\ Cleared(s).before = s.before /\ Cleared(s).handlers = s.handlers
         /\ Cleared(s).overlays = s.overlays /\ Cleared(s).stops = s.stops /\ Cleared(s).on = on
         /\ \A key : Claimed(Cleared(s), key) <=> Claimed(s, key)
         /\ \A key : Bound(Cleared(s), key) = Bound(s, key)
<1>1. /\ Cleared(s) \in KeyState(on) /\ Cleared(s).log = s.log /\ Cleared(s).pending = "none"
      /\ ~Cleared(s).late /\ Cleared(s).before = s.before /\ Cleared(s).handlers = s.handlers
      /\ Cleared(s).overlays = s.overlays /\ Cleared(s).stops = s.stops /\ Cleared(s).on = on
      /\ Cleared(s).shortcuts = s.shortcuts /\ Cleared(s).scope = s.scope
  BY DEF Cleared, KeyState
<1> QED
  BY <1>1, Zenon DEF Claimed, Bound

(* The chords, then the shortcuts: what has taken the press is its outcome *)
(* and where nothing has, no prefix is armed any more.                     *)
LEMMA TriedIs ==
  ASSUME NEW on \in {"gtk", "win32", "android"}, NEW s, KeysInv(s, on), NEW key \in AllKeys,
         on = "android" \/ key \notin s.accels, NEW fed, FedTo(s, fed, key), NEW driven,
         NEW tried, fed.log # s.log => tried = fed,
         fed.log = s.log => tried \in {AllFired(fed, key), FirstFired(fed, key)}
  PROVE  /\ tried.log # s.log => EndsAs(s, tried, key, on, driven)
         /\ tried.log = s.log => tried = Cleared(s) /\ Bound(s, key) = <<>> /\ fed.log = s.log
<1>1. s \in KeyState(on) /\ s.log = <<>>
  BY DEF KeysInv
<1>2. CASE fed.log # s.log
  BY <1>1, <1>2, FedIs
<1>3. CASE fed.log = s.log
  <2>1. fed = Cleared(s)
    BY <1>1, <1>3, FedIs
  <2>2. /\ fed \in KeyState(on) /\ fed.log = <<>> /\ fed.pending = "none" /\ ~fed.late
        /\ fed.before = s.before /\ Bound(fed, key) = Bound(s, key)
    BY <1>1, <2>1, ClearedIs
  <2>3. tried \in {AllFired(fed, key), FirstFired(fed, key)}
    BY <1>3
  <2>4. CASE Bound(s, key) = <<>>
    <3>1. tried = fed
      BY <2>2, <2>3, <2>4, AllFiredIs
    <3> QED
      BY <1>1, <1>3, <2>1, <2>2, <2>4, <3>1
  <2>5. CASE Bound(s, key) # <<>>
    <3>1. /\ tried \in KeyState(on) /\ tried.log # <<>> /\ tried.pending = "none" /\ ~tried.late
          /\ tried.before = s.before /\ Taken(s, tried, on)
      BY <2>2, <2>3, <2>5, AllFiredIs
    <3>2. EndsAs(s, tried, key, on, driven)
      BY <3>1 DEF EndsAs, PressedAs, Leftover
    <3> QED
      BY <1>1, <3>1, <3>2
  <2> QED
    BY <2>4, <2>5
<1> QED
  BY <1>2, <1>3

(* What a press comes to that nothing has taken.                           *)
LEMMA QuietIs ==
  ASSUME NEW on \in {"gtk", "win32", "android"}, NEW s, KeysInv(s, on), NEW key \in AllKeys,
         NEW driven \in BOOLEAN, NEW h, h = Cleared(s) \/ h = Delivered(Cleared(s)),
         NEW layers \in SUBSET LastLayers(on), NEW u, Leaves(h, u, on, layers),
         h = Cleared(s) \/ u = h \/ ~Claimed(s, key) \/ (driven /\ on = "win32")
  PROVE  EndsAs(s, u, key, on, driven)
<1> DEFINE c == Cleared(s)
           claimed == Claimed(s, key) /\ ~(driven /\ on = "win32")
<1>1. /\ c \in KeyState(on) /\ c.log = <<>> /\ c.pending = "none" /\ ~c.late
      /\ c.before = s.before
  BY ClearedIs DEF KeysInv
<1>2. h = c \/ Hears(c, h, on)
  BY <1>1, HearsIs
<1>3. claimed \in BOOLEAN /\ (h = c \/ u = h \/ ~claimed)
  OBVIOUS
<1> HIDE DEF c, claimed
<1>4. /\ u \in KeyState(on) /\ u.pending = c.pending /\ u.late = c.late /\ u.before = c.before
      /\ Followed(u, on, claimed)
  BY <1>1, <1>2, <1>3, FollowedIs
<1> QED
  BY <1>1, <1>4 DEF EndsAs, PressedAs, Leftover, claimed

(* An accelerator takes the press before the chords have seen it.          *)
LEMMA AcceleratedIs ==
  ASSUME NEW on \in {"gtk", "win32"}, NEW s, KeysInv(s, on), NEW key \in s.accels, NEW driven
  PROVE  EndsAs(s, Accelerated(s), key, on, driven)
<1> DEFINE u == Accelerated(s)
<1>1. s \in KeyState(on) /\ s.log = <<>>
  BY DEF KeysInv
<1>2. u = [s EXCEPT !.log = Append(s.log, Deed("accel", 0))]
  BY <1>1, DidIs DEF Accelerated
<1>3. u.log = <<Deed("accel", 0)>>
  BY <1>1, <1>2 DEF KeyState
<1>4. Leaves(s, u, on, {"accel"})
  BY <1>1, TailIs
<1> HIDE DEF u
<1> QED
  BY <1>1, <1>3, <1>4 DEF EndsAs, PressedAs, Leftover, Taken, Leaves, u

-----------------------------------------------------------------------------
(* A person's press, and the driver's, on each backend.                    *)

(* Win32: the chords and the shortcuts.                                    *)
LEMMA Win32TriedIs ==
  ASSUME NEW s, KeysInv(s, "win32"), NEW key \in AllKeys, key \notin s.accels, NEW driven
  PROVE  /\ Win32Shortcut(s, key).log # s.log =>
              EndsAs(s, Win32Shortcut(s, key), key, "win32", driven)
         /\ Win32Shortcut(s, key).log = s.log => Win32Shortcut(s, key) = Cleared(s)
<1> DEFINE fed == Win32Feed(s, key)
           tried == Win32Shortcut(s, key)
<1>1. /\ FedTo(s, fed, key) /\ KeysInv(s, "win32")
      /\ "win32" \in {"gtk", "win32", "android"} /\ ("win32" = "android" \/ key \notin s.accels)
  BY FeedIs
<1>2. /\ fed.log # s.log => tried = fed
      /\ fed.log = s.log => tried \in {AllFired(fed, key), FirstFired(fed, key)}
  BY DEF Win32Shortcut
<1> HIDE DEF fed, tried
<1>3. /\ tried.log # s.log => EndsAs(s, tried, key, "win32", driven)
      /\ tried.log = s.log => tried = Cleared(s)
  BY <1>1, <1>2, TriedIs
<1> QED
  BY <1>3 DEF tried

(* Win32: what the message loop does with a key.                           *)
LEMMA Win32PersonIs ==
  ASSUME NEW s, KeysInv(s, "win32"), NEW key \in AllKeys, NEW u \in Win32Typed(s, key)
  PROVE  EndsAs(s, u, key, "win32", FALSE)
<1> DEFINE tried == Win32Shortcut(s, key)
           heard == Delivered(tried)
<1>1. s \in KeyState("win32") /\ s.log = <<>>
  BY DEF KeysInv
<1>2. CASE key \in s.accels
  <2>1. u = Accelerated(s)
    BY <1>2 DEF Win32Typed
  <2> QED
    BY <1>2, <2>1, AcceleratedIs
<1>3. CASE key \notin s.accels
  <2>1. /\ tried.log # s.log => EndsAs(s, tried, key, "win32", FALSE)
        /\ tried.log = s.log => tried = Cleared(s)
    BY <1>3, Win32TriedIs
  <2>2. CASE tried.log # s.log
    <3>1. u = tried
      BY <1>3, <2>2 DEF Win32Typed
    <3> QED
      BY <2>1, <2>2, <3>1
  <2>3. CASE tried.log = s.log
    <3>1. u = Unclaimed(heard, key, IF key = "Escape" THEN heard ELSE Typed(heard, key))
      BY <1>3, <2>3 DEF Win32Typed
    <3>2. tried = Cleared(s) /\ Cleared(s) \in KeyState("win32") /\ Cleared(s).log = <<>>
      BY <1>1, <2>1, <2>3, ClearedIs
    <3> HIDE DEF tried
    <3>3. heard = Delivered(Cleared(s)) /\ (Claimed(heard, key) <=> Claimed(s, key))
      BY <1>1, <3>2, HearsIs, ClearedIs
    <3>4. heard \in KeyState("win32")
      BY <3>2, HearsIs DEF Hears
    <3> HIDE DEF heard
    <3>5. Leaves(heard, heard, "win32", {}) /\ Leaves(heard, Typed(heard, key), "win32", {"typed", "focus"})
      BY <3>4, TailIs
    <3>6. {} \in SUBSET LastLayers("win32") /\ {"typed", "focus"} \in SUBSET LastLayers("win32")
      BY DEF LastLayers
    <3>7. u = heard \/ (~Claimed(s, key) /\ u = Typed(heard, key))
      BY <3>1, <3>3 DEF Unclaimed
    <3> QED
      BY <3>3, <3>5, <3>6, <3>7, QuietIs
  <2> QED
    BY <2>2, <2>3
<1> QED
  BY <1>2, <1>3

(* Win32: what the driver does with one.                                   *)
LEMMA Win32DriverIs ==
  ASSUME NEW s, KeysInv(s, "win32"), NEW key \in AllKeys, key \notin s.accels
  PROVE  EndsAs(s, Win32Fired(s, key), key, "win32", TRUE)
<1> DEFINE tried == Win32Shortcut(s, key)
           heard == Delivered(tried)
           u == Win32Fired(s, key)
<1>1. s \in KeyState("win32") /\ s.log = <<>>
  BY DEF KeysInv
<1>2. /\ tried.log # s.log => EndsAs(s, tried, key, "win32", TRUE)
      /\ tried.log = s.log => tried = Cleared(s)
  BY Win32TriedIs
<1>3. CASE tried.log # s.log
  <2>1. u = tried
    BY <1>3 DEF Win32Fired
  <2> QED
    BY <1>2, <1>3, <2>1
<1>4. CASE tried.log = s.log
  <2>1. u \in {heard, Escaped(heard), Tabbed(heard)}
    BY <1>4 DEF Win32Fired
  <2>2. tried = Cleared(s) /\ Cleared(s) \in KeyState("win32") /\ Cleared(s).log = <<>>
    BY <1>1, <1>2, <1>4, ClearedIs
  <2> HIDE DEF tried, u
  <2>3. heard = Delivered(Cleared(s)) /\ heard \in KeyState("win32")
    BY <2>2, HearsIs DEF Hears
  <2> HIDE DEF heard
  <2>4. /\ Leaves(heard, heard, "win32", {}) /\ Leaves(heard, Tabbed(heard), "win32", {"focus"})
        /\ Leaves(heard, Escaped(heard), "win32", {"overlay"})
    BY <2>3, TailIs
  <2>5. \A layers \in {{}, {"focus"}, {"overlay"}} : layers \in SUBSET LastLayers("win32")
    BY DEF LastLayers
  <2>6. EndsAs(s, u, key, "win32", TRUE)
    BY <2>1, <2>3, <2>4, <2>5, QuietIs
  <2> QED
    BY <2>6 DEF u
<1> QED
  BY <1>3, <1>4

(* Android: the chords and the shortcuts.                                  *)
LEMMA AndroidTriedIs ==
  ASSUME NEW s, KeysInv(s, "android"), NEW key \in AllKeys, NEW driven
  PROVE  /\ AndroidShortcut(s, key).log # s.log =>
              EndsAs(s, AndroidShortcut(s, key), key, "android", driven)
         /\ AndroidShortcut(s, key).log = s.log => AndroidShortcut(s, key) = Cleared(s)
<1>1. FedTo(s, AndroidFeed(s, key), key)
  BY FeedIs
<1> QED
  BY <1>1, TriedIs DEF AndroidShortcut

(* Android: what the activity does with a key.                             *)
LEMMA AndroidPersonIs ==
  ASSUME NEW s, KeysInv(s, "android"), NEW key \in AllKeys, NEW u \in AndroidTyped(s, key)
  PROVE  EndsAs(s, u, key, "android", FALSE)
<1> DEFINE tried == AndroidShortcut(s, key)
           heard == Delivered(tried)
           after == CASE key = "Escape" -> Escaped(heard)
                      [] key \in s.accels -> Accelerated(heard)
                      [] OTHER -> Typed(heard, key)
<1>1. s \in KeyState("android") /\ s.log = <<>>
  BY DEF KeysInv
<1>2. /\ tried.log # s.log => EndsAs(s, tried, key, "android", FALSE)
      /\ tried.log = s.log => tried = Cleared(s)
  BY AndroidTriedIs
<1>3. u = IF tried.log # s.log THEN tried ELSE Unclaimed(heard, key, after)
  BY DEF AndroidTyped
<1>4. after \in {Escaped(heard), Accelerated(heard), Typed(heard, key)}
  BY Zenon
<1> HIDE DEF after
<1>5. CASE tried.log # s.log
  BY <1>2, <1>3, <1>5
<1>6. CASE tried.log = s.log
  <2>1. tried = Cleared(s) /\ Cleared(s) \in KeyState("android") /\ Cleared(s).log = <<>>
    BY <1>1, <1>2, <1>6, ClearedIs
  <2>2. u = Unclaimed(heard, key, after)
    BY <1>3, <1>6
  <2> HIDE DEF tried
  <2>3. heard = Delivered(Cleared(s)) /\ (Claimed(heard, key) <=> Claimed(s, key))
        /\ heard \in KeyState("android")
    BY <1>1, <2>1, HearsIs, ClearedIs DEF Hears
  <2> HIDE DEF heard
  <2>4. /\ Leaves(heard, heard, "android", {}) /\ Leaves(heard, Escaped(heard), "android", {"overlay"})
        /\ Leaves(heard, Accelerated(heard), "android", {"accel"})
        /\ Leaves(heard, Typed(heard, key), "android", {"typed", "focus"})
    BY <2>3, TailIs
  <2>5. \A layers \in {{}, {"overlay"}, {"accel"}, {"typed", "focus"}} :
          layers \in SUBSET LastLayers("android")
    BY DEF LastLayers
  <2>6. u = heard \/ (~Claimed(s, key) /\ u = after)
    BY <2>2, <2>3 DEF Unclaimed
  <2> QED
    BY <1>4, <2>3, <2>4, <2>5, <2>6, QuietIs
<1> QED
  BY <1>5, <1>6

(* Android: what the driver does with one.                                 *)
LEMMA AndroidDriverIs ==
  ASSUME NEW s, KeysInv(s, "android"), NEW key \in AllKeys
  PROVE  EndsAs(s, AndroidDriverKey(s, key), key, "android", TRUE)
<1> DEFINE tried == AndroidShortcut(s, key)
           u == AndroidDriverKey(s, key)
<1>1. s \in KeyState("android") /\ s.log = <<>>
  BY DEF KeysInv
<1>2. /\ tried.log # s.log => EndsAs(s, tried, key, "android", TRUE)
      /\ tried.log = s.log => tried = Cleared(s)
  BY AndroidTriedIs
<1>3. CASE tried.log # s.log
  <2>1. u = tried
    BY <1>3 DEF AndroidDriverKey
  <2> QED
    BY <1>2, <1>3, <2>1
<1>4. CASE tried.log = s.log
  <2>1. u \in {Delivered(tried), Escaped(tried), Tabbed(tried), tried}
    <3>1. CASE s.handlers # <<>>
      BY <1>4, <3>1 DEF AndroidDriverKey
    <3>2. CASE s.handlers = <<>>
      BY <1>4, <3>2 DEF AndroidDriverKey
    <3> QED
      BY <3>1, <3>2
  <2>2. tried = Cleared(s) /\ Cleared(s) \in KeyState("android") /\ Cleared(s).log = <<>>
    BY <1>1, <1>2, <1>4, ClearedIs
  <2> HIDE DEF tried, u
  <2>3. Delivered(tried) = Delivered(Cleared(s)) /\ Delivered(tried) \in KeyState("android")
    BY <2>2, HearsIs DEF Hears
  <2>4. /\ Leaves(tried, tried, "android", {}) /\ Leaves(tried, Tabbed(tried), "android", {"focus"})
        /\ Leaves(tried, Escaped(tried), "android", {"overlay"})
        /\ Leaves(Delivered(tried), Delivered(tried), "android", {})
    BY <2>2, <2>3, TailIs
  <2>5. \A layers \in {{}, {"focus"}, {"overlay"}} : layers \in SUBSET LastLayers("android")
    BY DEF LastLayers
  <2>6. EndsAs(s, u, key, "android", TRUE)
    BY <2>1, <2>2, <2>3, <2>4, <2>5, QuietIs
  <2> QED
    BY <2>6 DEF u
<1> QED
  BY <1>3, <1>4

(* GTK's driver, told of a Tab with nothing to focus, has it heard twice.  *)
LEMMA TwiceIs ==
  ASSUME NEW s, KeysInv(s, "gtk"), s.stops = 0, NEW u, u = Delivered(Delivered(Cleared(s)))
  PROVE  EndsAs(s, u, "Tab", "gtk", TRUE)
<1> DEFINE c == Cleared(s)
           h == Delivered(c)
<1>1. c \in KeyState("gtk") /\ c.log = <<>> /\ c.pending = "none" /\ ~c.late /\ c.before = s.before
  BY ClearedIs DEF KeysInv
<1> HIDE DEF c
<1>2. Hears(c, h, "gtk")
  BY <1>1, HearsIs
<1> HIDE DEF h
<1>3. PICK n \in Nat : h.log = HeardBy(n)
  BY <1>2 DEF Hears
<1>4. PICK hs \in Seq(KeyHandler), m \in Nat :
        Delivered(h) = [h EXCEPT !.handlers = hs, !.log = h.log \o HeardBy(m)]
  BY <1>2, DeliveredIs DEF Hears
<1>5. u = Delivered(h)
  BY DEF h, c
<1> DEFINE l == h.log \o HeardBy(m)
<1>6. l \in Seq(Deeds)
  <2>1. \A i \in 1 .. m : Deed("handler", i) \in Deeds
    BY DEF Deed, Deeds
  <2>2. HeardBy(m) \in Seq(Deeds)
    BY <2>1 DEF HeardBy
  <2>3. h.log \in Seq(Deeds)
    BY <1>2 DEF Hears, KeyState
  <2> QED
    BY <2>2, <2>3, ConcatProperties
<1>7. u = [h EXCEPT !.handlers = hs, !.log = l]
  BY <1>4, <1>5
<1>8. HeardBy(n) \o HeardBy(m) = l
  BY <1>3
<1> HIDE DEF l
<1>9. u \in KeyState("gtk") /\ u.pending = h.pending /\ u.late = h.late /\ u.before = h.before /\ u.log = l
  BY <1>2, <1>6, <1>7 DEF Hears, KeyState
<1> QED
  BY <1>1, <1>2, <1>8, <1>9 DEF EndsAs, PressedAs, Leftover, HeardTwice, Hears

(* GTK: what the driver does with a key.                                   *)
LEMMA GtkDriverIs ==
  ASSUME NEW s, KeysInv(s, "gtk"), NEW key \in AllKeys, key \notin s.accels
  PROVE  EndsAs(s, GtkFired(s, key), key, "gtk", TRUE)
<1> DEFINE fed == GtkFeed(s, key)
           fired == IF fed.log # s.log THEN fed ELSE AllFired(fed, key)
           c == Cleared(s)
           heard == Delivered(c)
           u == GtkFired(s, key)
<1>1. s \in KeyState("gtk") /\ s.log = <<>>
  BY DEF KeysInv
<1>2. /\ fired.log # s.log => EndsAs(s, fired, key, "gtk", TRUE)
      /\ fired.log = s.log => fired = c
  <2>1. FedTo(s, fed, key)
    BY FeedIs
  <2> QED
    BY <2>1, TriedIs
<1>3. u = CASE fired.log # s.log -> fired
            [] fired.log = s.log /\ key = "Tab" -> GtkTabFired(fired)
            [] fired.log = s.log /\ key = "Escape" /\ s.overlays > 0 -> Escaped(fired)
            [] OTHER -> Delivered(fired)
  BY DEF GtkFired
<1> HIDE DEF fired, u
<1>4. CASE fired.log # s.log
  <2>1. u = fired
    BY <1>3, <1>4
  <2>2. EndsAs(s, u, key, "gtk", TRUE)
    BY <1>2, <1>4, <2>1
  <2> QED
    BY <2>2 DEF u
<1>5. CASE fired.log = s.log
  <2>1. /\ fired = c /\ c \in KeyState("gtk") /\ c.log = <<>> /\ c.stops = s.stops
        /\ \A k : Claimed(c, k) <=> Claimed(s, k)
    BY <1>1, <1>2, <1>5, ClearedIs
  <2> HIDE DEF c
  <2>2. heard \in KeyState("gtk") /\ \A k : Claimed(heard, k) <=> Claimed(c, k)
    BY <2>1, HearsIs DEF Hears
  <2>3. \/ u \in {heard, Escaped(c)}
        \/ key = "Tab" /\ u = GtkTabFired(c)
    BY <1>3, <1>5, <2>1
  <2> HIDE DEF heard
  <2>4. /\ Leaves(c, Escaped(c), "gtk", {"overlay"}) /\ Leaves(heard, heard, "gtk", {})
        /\ Leaves(heard, Tabbed(heard), "gtk", {"focus"})
    BY <2>1, <2>2, TailIs
  <2>5. \A layers \in {{}, {"focus"}, {"overlay"}} : layers \in SUBSET LastLayers("gtk")
    BY DEF LastLayers
  <2>6. CASE u \in {heard, Escaped(c)}
    <3>1. EndsAs(s, u, key, "gtk", TRUE)
      BY <2>4, <2>5, <2>6, QuietIs DEF c, heard
    <3> QED
      BY <3>1 DEF u
  <2>7. CASE key = "Tab" /\ u = GtkTabFired(c)
    <3>1. \/ u = heard
          \/ ~Claimed(heard, "Tab") /\ u = Tabbed(heard)
          \/ ~(c.stops > 0) /\ u = Delivered(heard)
      BY <2>7 DEF GtkTabFired, heard
    <3>2. CASE u = heard \/ (~Claimed(heard, "Tab") /\ u = Tabbed(heard))
      <4>1. EndsAs(s, u, key, "gtk", TRUE)
        BY <2>1, <2>2, <2>4, <2>5, <2>7, <3>2, QuietIs DEF c, heard
      <4> QED
        BY <4>1 DEF u
    <3>3. CASE ~(c.stops > 0) /\ u = Delivered(heard)
      <4>1. s.stops = 0
        BY <1>1, <2>1, <3>3 DEF KeyState
      <4>2. EndsAs(s, u, "Tab", "gtk", TRUE)
        BY <3>3, <4>1, TwiceIs DEF c, heard
      <4> QED
        BY <2>7, <4>2 DEF u
    <3> QED
      BY <3>1, <3>2, <3>3
  <2> QED
    BY <2>3, <2>6, <2>7
<1> QED
  BY <1>4, <1>5

(* A person's key that nothing took, before or after the feed.             *)
LEMMA GtkQuietIs ==
  ASSUME NEW s, KeysInv(s, "gtk"), NEW key \in AllKeys,
         NEW t, t = Cleared(s) \/ t = s, NEW h, h = t \/ h = Delivered(t),
         NEW layers \in SUBSET LastLayers("gtk"), NEW u, Leaves(h, u, "gtk", layers),
         h = t \/ u = h \/ ~Claimed(s, key),
         t = s => ~ChordKey(s, key) \/ Ran(u, "overlay")
  PROVE  EndsAs(s, u, key, "gtk", FALSE)
<1>1. s \in KeyState("gtk") /\ s.log = <<>>
  BY DEF KeysInv
<1>2. CASE t = Cleared(s)
  BY <1>2, QuietIs
<1>3. CASE t = s
  <2> DEFINE claimed == Claimed(s, key)
  <2>1. h = s \/ Hears(s, h, "gtk")
    BY <1>1, <1>3, HearsIs
  <2>2. claimed \in BOOLEAN /\ (h = s \/ u = h \/ ~claimed)
    BY <1>3 DEF Claimed
  <2> HIDE DEF claimed
  <2>3. /\ u \in KeyState("gtk") /\ u.pending = s.pending /\ u.late = s.late /\ u.before = s.before
        /\ Followed(u, "gtk", claimed)
    BY <1>1, <2>1, <2>2, FollowedIs
  <2> QED
    BY <1>3, <2>3 DEF EndsAs, PressedAs, Leftover, Followed, claimed
<1> QED
  BY <1>2, <1>3

(* What GTK's one controller may do: a shortcut, a chord or Escape's own.  *)
LEMMA GtkControllerIs ==
  ASSUME NEW s, KeysInv(s, "gtk"), NEW key \in AllKeys, key \notin s.accels,
         NEW fed, fed = IF ChordKey(s, key) THEN GtkFeed(s, key) ELSE s,
         NEW u \in GtkControllers(s, key)
  PROVE  EndsAs(s, u, key, "gtk", FALSE)
<1> DEFINE before == IF fed.log = s.log THEN {s, fed} ELSE {s}
<1>1. s \in KeyState("gtk") /\ s.log = <<>>
  BY DEF KeysInv
<1>2. /\ fed.log = s.log => fed = s \/ fed = Cleared(s)
      /\ fed.log # s.log => EndsAs(s, fed, key, "gtk", FALSE)
      /\ ~ChordKey(s, key) => fed = s
  <2>1. CASE ChordKey(s, key)
    <3>1. FedTo(s, fed, key)
      BY <2>1, FeedIs
    <3> QED
      BY <1>1, <2>1, <3>1, FedIs
  <2>2. CASE ~ChordKey(s, key)
    BY <2>2
  <2> QED
    BY <2>1, <2>2
<1>3. \A b \in before : b = s \/ b = Cleared(s)
  BY <1>2
<1>4. \/ \E i \in DOMAIN Bound(s, key), b \in before : u = Did(b, Deed("shortcut", Bound(s, key)[i]))
      \/ fed.log # s.log /\ u = fed
      \/ key = "Escape" /\ s.overlays > 0 /\ \E b \in before : u = Escaped(b)
  <2> DEFINE fired == {Did(b, Deed("shortcut", Bound(s, key)[i])) : i \in DOMAIN Bound(s, key), b \in before}
             escaped == IF key = "Escape" /\ s.overlays > 0 THEN {Escaped(b) : b \in before} ELSE {}
  <2>1. GtkControllers(s, key) = fired \cup (IF fed.log # s.log THEN {fed} ELSE {}) \cup escaped
    BY DEF GtkControllers
  <2>2. u \in fired => \E i \in DOMAIN Bound(s, key), b \in before : u = Did(b, Deed("shortcut", Bound(s, key)[i]))
    BY SMT
  <2>3. u \in escaped => key = "Escape" /\ s.overlays > 0 /\ \E b \in before : u = Escaped(b)
    BY Zenon
  <2> HIDE DEF fired, escaped, before
  <2> QED
    BY <2>1, <2>2, <2>3
<1> HIDE DEF before
<1>5. ASSUME NEW i \in DOMAIN Bound(s, key), NEW b \in before, u = Did(b, Deed("shortcut", Bound(s, key)[i]))
      PROVE  EndsAs(s, u, key, "gtk", FALSE)
  <2> DEFINE d == Deed("shortcut", Bound(s, key)[i])
  <2>1. Bound(s, key)[i] \in Nat
    BY <1>1, <1>5, BoundIs
  <2>2. d \in Deeds /\ d.layer = "shortcut"
    BY <2>1 DEF Deed, Deeds
  <2>3. /\ b \in KeyState("gtk") /\ b.log = <<>> /\ b.before = s.before
        /\ b = s \/ (b.pending = "none" /\ ~b.late)
    BY <1>1, <1>3, <1>5, ClearedIs
  <2>4. u = Did(b, d)
    BY <1>5
  <2> HIDE DEF d
  <2>5. /\ u \in KeyState("gtk") /\ u.pending = b.pending /\ u.late = b.late /\ u.before = b.before
        /\ Ran(u, "shortcut") /\ Taken(s, u, "gtk")
    BY <2>2, <2>3, <2>4, ShortcutIs
  <2> QED
    BY <2>3, <2>5 DEF EndsAs, PressedAs, Leftover
<1>6. ASSUME s.overlays > 0, NEW b \in before, u = Escaped(b)
      PROVE  EndsAs(s, u, key, "gtk", FALSE)
  <2>1. b \in KeyState("gtk") /\ b.log = <<>> /\ b.overlays = s.overlays /\ (b = s \/ b = Cleared(s))
    BY <1>1, <1>3, <1>6, ClearedIs
  <2>2. Leaves(b, u, "gtk", {"overlay"}) /\ {"overlay"} \in SUBSET LastLayers("gtk")
    BY <1>6, <2>1, TailIs DEF LastLayers
  <2>3. Ran(u, "overlay")
    <3> DEFINE less == [b EXCEPT !.overlays = @ - 1]
    <3>1. b.overlays # 0
      BY <1>6, <2>1
    <3>2. u = Did(less, Deed("overlay", 0))
      BY <1>6, <3>1 DEF Escaped
    <3>3. u.log = Append(b.log, Deed("overlay", 0))
      BY <2>1, <3>2 DEF Did, KeyState
    <3>4. DOMAIN u.log = {1} /\ u.log[1] = Deed("overlay", 0)
      BY <2>1, <3>3
    <3> QED
      BY <3>4 DEF Ran, Deed
  <2> QED
    BY <2>1, <2>2, <2>3, GtkQuietIs
<1> QED
  BY <1>2, <1>4, <1>5, <1>6

(* GTK: what the window does with a key.                                   *)
LEMMA GtkPersonIs ==
  ASSUME NEW s, KeysInv(s, "gtk"), NEW key \in AllKeys, NEW u \in GtkTyped(s, key)
  PROVE  EndsAs(s, u, key, "gtk", FALSE)
<1> DEFINE fed == IF ChordKey(s, key) THEN GtkFeed(s, key) ELSE s
<1>1. s \in KeyState("gtk") /\ s.log = <<>>
  BY DEF KeysInv
<1>2. CASE key \in s.accels
  <2>1. u = Accelerated(s)
    BY <1>2 DEF GtkTyped
  <2> QED
    BY <1>2, <2>1, AcceleratedIs
<1>3. CASE key \notin s.accels /\ GtkControllers(s, key) # {}
  <2>1. u \in GtkControllers(s, key)
    BY <1>3 DEF GtkTyped
  <2> QED
    BY <1>3, <2>1, GtkControllerIs
<1>4. CASE key \notin s.accels /\ GtkControllers(s, key) = {}
  <2>1. u \in {GtkAnyKey(fed, key), Typed(fed, key)}
    BY <1>4 DEF GtkTyped
  <2>2. fed.log = s.log
    <3>1. ASSUME fed.log # s.log PROVE fed \in GtkControllers(s, key)
      BY <3>1 DEF GtkControllers
    <3> QED
      BY <1>4, <3>1
  <2>3. (fed = s /\ ~ChordKey(s, key)) \/ fed = Cleared(s)
    <3>1. CASE ChordKey(s, key)
      <4>1. FedTo(s, fed, key)
        BY <3>1, FeedIs
      <4> QED
        BY <1>1, <2>2, <4>1, FedIs
    <3>2. CASE ~ChordKey(s, key)
      BY <3>2
    <3> QED
      BY <3>1, <3>2
  <2> HIDE DEF fed
  <2>4. fed \in KeyState("gtk") /\ fed.log = <<>> /\ \A k : Claimed(fed, k) <=> Claimed(s, k)
    BY <1>1, <2>3, ClearedIs
  <2> DEFINE heard == Delivered(fed)
  <2>5. heard \in KeyState("gtk") /\ \A k : Claimed(heard, k) <=> Claimed(s, k)
    BY <2>4, HearsIs DEF Hears
  <2>6. \/ u = heard \/ (~Claimed(s, key) /\ u = Typed(heard, key))
        \/ u = Typed(fed, key)
    BY <2>1, <2>5 DEF GtkAnyKey, Unclaimed
  <2> HIDE DEF heard
  <2>7. /\ Leaves(heard, heard, "gtk", {}) /\ Leaves(heard, Typed(heard, key), "gtk", {"typed", "focus"})
        /\ Leaves(fed, Typed(fed, key), "gtk", {"typed", "focus"})
    BY <2>4, <2>5, TailIs
  <2>8. \A layers \in {{}, {"typed", "focus"}} : layers \in SUBSET LastLayers("gtk")
    BY DEF LastLayers
  <2>9. fed = s => ~ChordKey(s, key) \/ fed = Cleared(s)
    BY <2>3
  <2>10. CASE fed = s /\ ~ChordKey(s, key)
    BY <2>6, <2>7, <2>8, <2>10, GtkQuietIs DEF heard
  <2>11. CASE fed = Cleared(s)
    BY <2>6, <2>7, <2>8, <2>11, QuietIs DEF heard
  <2> QED
    BY <2>3, <2>10, <2>11
<1> QED
  BY <1>2, <1>3, <1>4

(* A person's press on any of the three.                                   *)
LEMMA PersonIs ==
  ASSUME NEW on \in {"gtk", "win32", "android"}, NEW s, KeysInv(s, on), NEW key \in AllKeys,
         NEW u \in PersonTypes(s, key)
  PROVE  EndsAs(s, u, key, on, FALSE)
<1>1. s.on = on
  BY DEF KeysInv, KeyState
<1> QED
  BY <1>1, GtkPersonIs, Win32PersonIs, AndroidPersonIs DEF PersonTypes

(* The driver's on any of the three; an accelerator of Android's comes     *)
(* before the chords have seen the key.                                    *)
LEMMA DriverIs ==
  ASSUME NEW on \in {"gtk", "win32", "android"}, NEW s, KeysInv(s, on), NEW key \in AllKeys
  PROVE  LET u == DriverSends(s, key)
         IN /\ PressedAs(s, u, key, on, TRUE)
            /\ key \notin s.accels => Leftover(s, u, key, on, TRUE)
            /\ key \in s.accels => Leaves(s, u, on, {"accel"})
<1> DEFINE u == DriverSends(s, key)
<1>1. s \in KeyState(on) /\ s.log = <<>> /\ s.on = on
  BY DEF KeysInv, KeyState
<1>2. CASE key \notin s.accels
  <2>1. EndsAs(s, u, key, on, TRUE)
    BY <1>1, <1>2, GtkDriverIs, Win32DriverIs, AndroidDriverIs DEF DriverSends
  <2> QED
    BY <1>2, <2>1 DEF EndsAs
<1>3. CASE key \in s.accels
  <2>1. u = Accelerated(s)
    BY <1>3 DEF DriverSends
  <2>2. Leaves(s, u, on, {"accel"})
    BY <1>1, <2>1, TailIs
  <2>3. u.log = <<Deed("accel", 0)>>
    <3>1. u = [s EXCEPT !.log = Append(s.log, Deed("accel", 0))]
      BY <1>1, <2>1, DidIs DEF Accelerated
    <3> QED
      BY <1>1, <3>1 DEF KeyState
  <2>4. <<Deed("accel", 0)>> = Append(HeardBy(0), Deed("accel", 0))
    <3>1. HeardBy(0) = <<>>
      BY DEF HeardBy
    <3> QED
      BY <3>1
  <2> HIDE DEF u
  <2>5. ASSUME on = "android" PROVE PressedAs(s, u, key, on, TRUE)
    <3>1. "accel" \in LastLayers(on) /\ u.log = Append(HeardBy(0), Deed("accel", 0))
      BY <2>3, <2>4, <2>5 DEF LastLayers
    <3>2. Followed(u, on, Claimed(s, key) /\ ~(TRUE /\ on = "win32"))
      BY <3>1 DEF Followed
    <3> QED
      BY <3>2 DEF PressedAs
  <2>6. ASSUME on # "android" PROVE PressedAs(s, u, key, on, TRUE)
    <3>1. Taken(s, u, on)
      BY <2>3, <2>6 DEF Taken
    <3> QED
      BY <3>1 DEF PressedAs
  <2>7. PressedAs(s, u, key, on, TRUE)
    BY <2>5, <2>6
  <2> QED
    BY <1>3, <2>2, <2>7 DEF u
<1> QED
  BY <1>2, <1>3

-----------------------------------------------------------------------------
(* A press, with what becomes of it, and the other steps.                  *)

(* A person's press leaves the invariant true: the prefix it leaves armed  *)
(* is the press it was, where it reached the chords.                       *)
LEMMA PersonPressesKeeps ==
  ASSUME NEW on \in {"gtk", "win32", "android"}, NEW s, KeysInv(s, on), NEW key \in AllKeys,
         NEW u \in PersonTypes(s, key), NEW aside \in BOOLEAN,
         on = "gtk" /\ (~ChordKey(s, key) \/ Ran(u, "shortcut") \/ Ran(u, "overlay")) => aside,
         on # "android" /\ key \in s.accels => aside,
         aside => \/ on = "gtk" /\ (~ChordKey(s, key) \/ Ran(u, "shortcut") \/ Ran(u, "overlay"))
                  \/ on # "android" /\ key \in s.accels
  PROVE  KeysInv([u EXCEPT !.log = <<>>, !.before = IF aside THEN @ ELSE key], on)
<1> DEFINE b == IF aside THEN s.before ELSE key
           t == [u EXCEPT !.log = <<>>, !.before = IF aside THEN @ ELSE key]
<1>1. /\ s.before \in AllKeys \cup {"none"} /\ (s.late => on = "android")
      /\ s.pending # "none" /\ ~s.late => s.before = s.pending
  BY DEF KeysInv, KeyState
<1>2. Leftover(s, u, key, on, FALSE)
  BY PersonIs DEF EndsAs
<1>3. u \in KeyState(on) /\ u.before = s.before
  BY <1>2 DEF Leftover
<1>4. /\ t \in KeyState(on) /\ t.log = <<>> /\ t.before = b /\ t.pending = u.pending
      /\ t.late = u.late
  <2>1. b \in AllKeys \cup {"none"}
    BY <1>1
  <2>2. t = [u EXCEPT !.log = <<>>, !.before = b]
    BY <1>3
  <2>3. <<>> \in Seq(Deeds)
    OBVIOUS
  <2> HIDE DEF t, b
  <2> QED
    BY <1>3, <2>1, <2>2, <2>3 DEF KeyState
<1>5. u.log = <<Deed("armed", 0)>> => ~Ran(u, "shortcut") /\ ~Ran(u, "overlay")
  BY DEF Ran, Deed
<1> HIDE DEF t
<1>6. u.late => on = "android"
  BY <1>1, <1>2 DEF Leftover
<1>7. u.pending # "none" /\ ~u.late => b = u.pending
  BY <1>1, <1>2, <1>5 DEF Leftover
<1>8. KeysInv(t, on)
  BY <1>4, <1>6, <1>7 DEF KeysInv
<1> QED
  BY <1>8 DEF t

(* So does the driver's.                                                   *)
LEMMA DriverPressesKeeps ==
  ASSUME NEW on \in {"gtk", "win32", "android"}, NEW s, KeysInv(s, on), NEW key \in AllKeys
  PROVE  KeysInv([DriverSends(s, key) EXCEPT !.log = <<>>,
                                             !.before = IF key \in s.accels THEN @ ELSE key], on)
<1> DEFINE u == DriverSends(s, key)
           t == [u EXCEPT !.log = <<>>, !.before = IF key \in s.accels THEN @ ELSE key]
<1>1. /\ s.before \in AllKeys \cup {"none"} /\ (s.late => on = "android")
      /\ s.pending # "none" /\ ~s.late => s.before = s.pending
  BY DEF KeysInv, KeyState
<1>2. /\ key \notin s.accels => Leftover(s, u, key, on, TRUE)
      /\ key \in s.accels => Leaves(s, u, on, {"accel"})
  BY DriverIs
<1> HIDE DEF u
<1>3. u \in KeyState(on) /\ u.before = s.before
  BY <1>2 DEF Leftover, Leaves
<1> DEFINE b == IF key \in s.accels THEN s.before ELSE key
<1>4. /\ t \in KeyState(on) /\ t.log = <<>> /\ t.before = b /\ t.pending = u.pending
      /\ t.late = u.late
  <2>1. b \in AllKeys \cup {"none"}
    BY <1>1
  <2>2. t = [u EXCEPT !.log = <<>>, !.before = b]
    BY <1>3
  <2>3. <<>> \in Seq(Deeds)
    OBVIOUS
  <2> HIDE DEF t, b
  <2> QED
    BY <1>3, <2>1, <2>2, <2>3 DEF KeyState
<1> HIDE DEF t
<1>5. u.late => on = "android"
  BY <1>1, <1>2 DEF Leftover, Leaves
<1>6. u.pending # "none" /\ ~u.late => t.before = u.pending
  BY <1>1, <1>2, <1>4 DEF Leftover, Leaves
<1>7. KeysInv(t, on)
  BY <1>4, <1>5, <1>6 DEF KeysInv
<1> QED
  BY <1>7 DEF t, u

(* And what binds a chord, a shortcut or a handler.                        *)
LEMMA BindsKeep ==
  ASSUME NEW on, NEW s, KeysInv(s, on)
  PROVE  /\ \A key \in AllKeys, scoped \in BOOLEAN : KeysInv(AddShortcut(s, key, scoped), on)
         /\ \A first, second \in ChordKeys : KeysInv(AddChord(s, first, second), on)
         /\ \A claims \in SUBSET (AllKeys \cup Claimable), adds \in BOOLEAN :
              KeysInv(AddHandler(s, claims, adds), on)
<1>1. s \in KeyState(on)
  BY DEF KeysInv
<1>2. ASSUME NEW key \in AllKeys, NEW scoped \in BOOLEAN
      PROVE  KeysInv(AddShortcut(s, key, scoped), on)
  <2> DEFINE l == Append(s.shortcuts, [key |-> key, scoped |-> scoped])
  <2>1. l \in Seq(Shortcut)
    <3>1. [key |-> key, scoped |-> scoped] \in Shortcut
      BY DEF Shortcut
    <3> QED
      BY <1>1, <3>1 DEF KeyState
  <2>2. AddShortcut(s, key, scoped) = [s EXCEPT !.shortcuts = l]
    BY DEF AddShortcut
  <2> HIDE DEF l
  <2> QED
    BY <2>1, <2>2 DEF KeysInv, KeyState
<1>3. ASSUME NEW first \in ChordKeys, NEW second \in ChordKeys
      PROVE  KeysInv(AddChord(s, first, second), on)
  <2> DEFINE l == Append(s.chords, [first |-> first, second |-> second])
  <2>1. l \in Seq(Chord)
    <3>1. [first |-> first, second |-> second] \in Chord
      BY DEF Chord
    <3> QED
      BY <1>1, <3>1 DEF KeyState
  <2>2. AddChord(s, first, second) = [s EXCEPT !.chords = l]
    BY DEF AddChord
  <2> HIDE DEF l
  <2> QED
    BY <2>1, <2>2 DEF KeysInv, KeyState
<1>4. ASSUME NEW claims \in SUBSET (AllKeys \cup Claimable), NEW adds \in BOOLEAN
      PROVE  KeysInv(AddHandler(s, claims, adds), on)
  <2> DEFINE l == Append(s.handlers, [claims |-> claims, adds |-> adds])
  <2>1. l \in Seq(KeyHandler)
    <3>1. [claims |-> claims, adds |-> adds] \in KeyHandler
      BY DEF KeyHandler
    <3> QED
      BY <1>1, <3>1 DEF KeyState
  <2>2. AddHandler(s, claims, adds) = [s EXCEPT !.handlers = l]
    BY DEF AddHandler
  <2> HIDE DEF l
  <2> QED
    BY <2>1, <2>2 DEF KeysInv, KeyState
<1> QED
  BY <1>2, <1>3, <1>4

(* Every step of the keys keeps the invariant.                             *)
LEMMA KeyStepKeeps ==
  ASSUME KeysInv(st, backend), backend \in {"gtk", "win32", "android"}, KeyStep
  PROVE  KeysInv(st', backend)
<1>1. ASSUME NEW key \in Bindable, NEW scoped \in BOOLEAN, BindsShortcut(key, scoped)
      PROVE  KeysInv(st', backend)
  BY <1>1, BindsKeep DEF BindsShortcut, In, Bindable
<1>2. ASSUME NEW first \in ChordKeys, NEW second \in ChordKeys, BindsChord(first, second)
      PROVE  KeysInv(st', backend)
  BY <1>2, BindsKeep DEF BindsChord, In
<1>3. ASSUME NEW claims \in {{}} \cup {{key} : key \in Claimable}, NEW adds \in BOOLEAN,
             Listens(claims, adds)
      PROVE  KeysInv(st', backend)
  <2>1. claims \in SUBSET (AllKeys \cup Claimable)
    OBVIOUS
  <2> QED
    BY <1>3, <2>1, BindsKeep DEF Listens, In
<1>4. CASE Scopes
  BY <1>4 DEF Scopes, In, KeysInv, KeyState
<1>5. CASE OpensOverlay
  BY <1>5 DEF OpensOverlay, In, KeysInv, KeyState
<1>6. CASE Expires
  BY <1>6 DEF Expires, PrefixExpires, In, KeysInv, KeyState
<1>7. ASSUME NEW key \in AllKeys, PersonPresses(key)
      PROVE  KeysInv(st', backend)
  <2>1. PICK new \in PersonTypes(st, key) :
          st' = [new EXCEPT !.log = <<>>, !.before = IF Aside(key, new) THEN @ ELSE key]
    BY <1>7 DEF PersonPresses, In
  <2> DEFINE aside == Aside(key, new)
  <2>2. /\ aside \in BOOLEAN
        /\ aside <=> \/ backend = "gtk" /\ (~ChordKey(st, key) \/ Ran(new, "shortcut") \/ Ran(new, "overlay"))
                     \/ backend # "android" /\ key \in st.accels
    BY DEF Aside
  <2>3. st' = [new EXCEPT !.log = <<>>, !.before = IF aside THEN @ ELSE key]
    BY <2>1
  <2> HIDE DEF aside
  <2>4. KeysInv([new EXCEPT !.log = <<>>, !.before = IF aside THEN @ ELSE key], backend)
    BY <2>2, PersonPressesKeeps
  <2> QED
    BY <2>3, <2>4, Zenon
<1>8. ASSUME NEW key \in AllKeys, DriverPresses(key)
      PROVE  KeysInv(st', backend)
  BY <1>8, DriverPressesKeeps DEF DriverPresses, In
<1> QED
  BY <1>1, <1>2, <1>3, <1>4, <1>5, <1>6, <1>7, <1>8 DEF KeyStep

-----------------------------------------------------------------------------
(* What a press that comes to this has done, as the properties say it.     *)

(* A log of one layer's deeds shows that layer only.                       *)
LEMMA AloneIs ==
  ASSUME NEW on, NEW u \in KeyState(on), NEW layer, u.log # <<>>,
         \A i \in DOMAIN u.log : u.log[i].layer = layer
  PROVE  /\ Layers(u) = {layer} /\ Cardinality(Layers(u)) = 1
         /\ layer # "handler" => \A n : Heards(u, n) = {}
<1>1. \E i \in DOMAIN u.log : TRUE
  BY DEF KeyState
<1>2. Layers(u) = {layer}
  BY <1>1 DEF Layers
<1>3. Cardinality({layer}) = 1
  BY FS_Singleton
<1>4. layer # "handler" => \A n : Heards(u, n) = {}
  BY DEF Heards, Deed
<1> QED
  BY <1>2, <1>3, <1>4

(* The log of the handlers, as a list.                                     *)
LEMMA SomeHandlers ==
  ASSUME NEW n \in Nat
  PROVE  /\ Len(HeardBy(n)) = n /\ DOMAIN HeardBy(n) = 1 .. n
         /\ \A i \in 1 .. n : HeardBy(n)[i] = Deed("handler", i)
         /\ HeardBy(n) \in Seq(Deeds)
<1>1. \A i \in 1 .. n : Deed("handler", i) \in Deeds
  BY DEF Deed, Deeds
<1> QED
  BY <1>1 DEF HeardBy

(* The handlers' press, and what may have followed.                        *)
LEMMA FollowedOnce ==
  ASSUME NEW on, NEW u \in KeyState(on), NEW claimed, Followed(u, on, claimed)
  PROVE  /\ Layers(u) \subseteq {"handler"} \cup LastLayers(on)
         /\ \A m : Cardinality(Heards(u, m)) <= 1
         /\ "handler" \in Layers(u) /\ Layers(u) # {"handler"} => ~claimed
<1>1. PICK n \in Nat :
        \/ u.log = HeardBy(n)
        \/ /\ n # 0 => ~claimed
           /\ \E layer \in LastLayers(on) : u.log = Append(HeardBy(n), Deed(layer, 0))
  BY DEF Followed
<1>2. /\ Len(HeardBy(n)) = n /\ DOMAIN HeardBy(n) = 1 .. n
      /\ \A i \in 1 .. n : HeardBy(n)[i] = Deed("handler", i)
      /\ HeardBy(n) \in Seq(Deeds)
  BY SomeHandlers
<1>3. \A m, i : Deed("handler", i) = Deed("handler", m) => i = m
  BY DEF Deed
<1>4. ASSUME NEW m, Heards(u, m) \subseteq {m}
      PROVE  Cardinality(Heards(u, m)) <= 1
  <2>1. IsFiniteSet({m}) /\ Cardinality({m}) = 1
    BY FS_Singleton
  <2> QED
    BY <1>4, <2>1, FS_Subset
<1>5. CASE u.log = HeardBy(n)
  <2>1. Layers(u) \subseteq {"handler"}
    BY <1>2, <1>5 DEF Layers, Deed
  <2>2. \A m : Heards(u, m) \subseteq {m}
    BY <1>2, <1>3, <1>5 DEF Heards
  <2> QED
    BY <1>4, <2>1, <2>2
<1>6. ASSUME n # 0 => ~claimed, NEW layer \in LastLayers(on),
             u.log = Append(HeardBy(n), Deed(layer, 0))
      PROVE  /\ Layers(u) \subseteq {"handler"} \cup LastLayers(on)
             /\ \A m : Cardinality(Heards(u, m)) <= 1
             /\ "handler" \in Layers(u) /\ Layers(u) # {"handler"} => ~claimed
  <2>1. layer # "handler"
    BY <1>6 DEF LastLayers
  <2>2. /\ DOMAIN u.log = 1 .. n + 1 /\ u.log[n + 1] = Deed(layer, 0)
        /\ \A i \in 1 .. n : u.log[i] = Deed("handler", i)
    BY <1>2, <1>6
  <2>3. \A i \in 1 .. n + 1 : i = n + 1 \/ i \in 1 .. n
    OBVIOUS
  <2>4. Layers(u) \subseteq {"handler", layer}
    <3>1. \A i \in DOMAIN u.log : u.log[i].layer \in {"handler", layer}
      <4>1. \A k, m : Deed(k, m).layer = k
        BY DEF Deed
      <4> QED
        BY <2>2, <2>3, <4>1
    <3> QED
      BY <3>1 DEF Layers
  <2>5. \A m : Heards(u, m) \subseteq {m}
    <3>1. \A m : Deed(layer, 0) # Deed("handler", m)
      BY <2>1 DEF Deed
    <3> QED
      BY <1>3, <2>2, <2>3, <3>1 DEF Heards
  <2>6. n = 0 => "handler" \notin Layers(u)
    BY <2>1, <2>2, <2>3 DEF Layers, Deed
  <2> QED
    BY <1>4, <1>6, <2>4, <2>5, <2>6
<1> QED
  BY <1>1, <1>5, <1>6

(* What the properties say of a press that comes to u.                     *)
AsClaimed(s, u, key, on, driven) ==
  /\ \A i \in DOMAIN u.log :
       u.log[i].layer = "chord" => s.before = s.chords[u.log[i].n].first
  /\ Layers(u) \cap ({"chord", "armed", "shortcut"}
                        \cup (IF on = "android" THEN {} ELSE {"accel"})) # {} =>
       Cardinality(Layers(u)) = 1
  /\ \A n : Cardinality(Heards(u, n)) > 1 =>
             driven /\ on = "gtk" /\ key = "Tab" /\ s.stops = 0
  /\ "handler" \in Layers(u) /\ Claimed(s, key) /\ Layers(u) # {"handler"} =>
       driven /\ on = "win32"
(* A press that has ended as the lemmas above say is as the properties     *)
(* say.                                                                    *)
LEMMA PressedIsOne ==
  ASSUME NEW on, NEW s \in KeyState(on), NEW key, NEW driven \in BOOLEAN,
         NEW u \in KeyState(on), PressedAs(s, u, key, on, driven)
  PROVE  AsClaimed(s, u, key, on, driven)
<1>1. ASSUME NEW layer, u.log # <<>>, \A i \in DOMAIN u.log : u.log[i].layer = layer,
             layer # "handler", layer # "chord"
      PROVE  /\ \A i \in DOMAIN u.log :
                   u.log[i].layer = "chord" => s.before = s.chords[u.log[i].n].first
             /\ Cardinality(Layers(u)) = 1
             /\ \A n : ~(Cardinality(Heards(u, n)) > 1)
             /\ "handler" \notin Layers(u)
  <2>1. Layers(u) = {layer} /\ Cardinality(Layers(u)) = 1 /\ \A n : Heards(u, n) = {}
    BY <1>1, AloneIs
  <2>2. \A n : Cardinality(Heards(u, n)) = 0
    BY <2>1, FS_EmptySet, Zenon
  <2>3. \A n : ~(Cardinality(Heards(u, n)) > 1)
    BY <2>2
  <2> QED
    BY <1>1, <2>1, <2>3
<1>2. CASE u.log \in {<<Deed("armed", 0)>>, <<Deed("accel", 0)>>}
  <2>1. PICK layer \in {"armed", "accel"} : u.log = <<Deed(layer, 0)>>
    BY <1>2
  <2>2. u.log # <<>> /\ \A i \in DOMAIN u.log : u.log[i].layer = layer
    BY <2>1 DEF Deed
  <2> QED
    BY <1>1, <2>2 DEF AsClaimed
<1>3. ASSUME NEW i \in DOMAIN s.chords, s.chords[i].first = s.before, u.log = <<Deed("chord", i)>>
      PROVE  /\ \A j \in DOMAIN u.log : s.before = s.chords[u.log[j].n].first
             /\ Cardinality(Layers(u)) = 1
             /\ \A n : ~(Cardinality(Heards(u, n)) > 1)
             /\ "handler" \notin Layers(u)
  <2>1. u.log # <<>> /\ \A j \in DOMAIN u.log : u.log[j].layer = "chord" /\ u.log[j].n = i
    BY <1>3 DEF Deed
  <2>2. Layers(u) = {"chord"} /\ Cardinality(Layers(u)) = 1 /\ \A n : Heards(u, n) = {}
    BY <2>1, AloneIs
  <2>3. \A n : Cardinality(Heards(u, n)) = 0
    BY <2>2, FS_EmptySet, Zenon
  <2>4. \A n : ~(Cardinality(Heards(u, n)) > 1)
    BY <2>3
  <2> QED
    BY <1>3, <2>1, <2>2, <2>4
<1>4. CASE u.log # <<>> /\ \A i \in DOMAIN u.log : u.log[i].layer = "shortcut"
  BY <1>1, <1>4 DEF AsClaimed
<1>5. CASE Followed(u, on, Claimed(s, key) /\ ~(driven /\ on = "win32"))
  <2> DEFINE claimed == Claimed(s, key) /\ ~(driven /\ on = "win32")
  <2>1. /\ Layers(u) \subseteq {"handler"} \cup LastLayers(on)
        /\ \A m : Cardinality(Heards(u, m)) <= 1
        /\ "handler" \in Layers(u) /\ Layers(u) # {"handler"} => ~claimed
    <3>1. Followed(u, on, claimed)
      BY <1>5
    <3> HIDE DEF claimed
    <3> QED
      BY <3>1, FollowedOnce
  <2>2. "chord" \notin Layers(u)
    BY <2>1 DEF LastLayers
  <2>3. \A i \in DOMAIN u.log : u.log[i].layer # "chord"
    BY <2>2 DEF Layers
  <2>4. \A m : ~(Cardinality(Heards(u, m)) > 1)
    <3>1. \A m : Cardinality(Heards(u, m)) \in Nat
      <4>1. ASSUME NEW m PROVE Cardinality(Heards(u, m)) \in Nat
        <5>1. Heards(u, m) \subseteq 1 .. Len(u.log) /\ Len(u.log) \in Nat
          BY DEF Heards, KeyState
        <5>2. IsFiniteSet(1 .. Len(u.log))
          BY <5>1, FS_Interval
        <5> QED
          BY <5>1, <5>2, FS_Subset, FS_CardinalityType
      <4> QED
        BY <4>1
    <3> QED
      BY <2>1, <3>1
  <2>5. Layers(u) \cap ({"chord", "armed", "shortcut"}
                         \cup (IF on = "android" THEN {} ELSE {"accel"})) = {}
    BY <2>1 DEF LastLayers
  <2> QED
    BY <2>1, <2>3, <2>4, <2>5 DEF AsClaimed
<1>6. CASE driven /\ on = "gtk" /\ key = "Tab" /\ s.stops = 0 /\ HeardTwice(u)
  <2>1. PICK n, m \in Nat : u.log = HeardBy(n) \o HeardBy(m)
    BY <1>6 DEF HeardTwice
  <2>2. \A i \in DOMAIN u.log : u.log[i].layer = "handler"
    <3>1. \A k \in Nat : /\ HeardBy(k) \in Seq(Deeds) /\ Len(HeardBy(k)) = k
                         /\ \A i \in 1 .. k : HeardBy(k)[i].layer = "handler"
      <4>1. \A i : Deed("handler", i).layer = "handler"
        BY DEF Deed
      <4> QED
        BY <4>1, SomeHandlers
    <3>2. /\ DOMAIN u.log = 1 .. n + m
          /\ \A i \in 1 .. n + m :
               u.log[i] = IF i <= n THEN HeardBy(n)[i] ELSE HeardBy(m)[i - n]
      <4> DEFINE a == HeardBy(n)
                 b == HeardBy(m)
      <4>1. a \in Seq(Deeds) /\ b \in Seq(Deeds) /\ Len(a) = n /\ Len(b) = m /\ u.log = a \o b
        BY <2>1, <3>1
      <4> HIDE DEF a, b
      <4>2. /\ DOMAIN u.log = 1 .. n + m
            /\ \A i \in 1 .. n + m : u.log[i] = IF i <= n THEN a[i] ELSE b[i - n]
        <5> DEFINE l == a \o b
        <5>1. /\ l \in Seq(Deeds) /\ Len(l) = n + m
              /\ \A i \in 1 .. n + m : l[i] = IF i <= n THEN a[i] ELSE b[i - n]
          BY <4>1, ConcatProperties, Zenon
        <5>2. u.log = l
          BY <4>1
        <5> HIDE DEF l
        <5>3. DOMAIN l = 1 .. n + m
          BY <5>1
        <5> QED
          BY <5>1, <5>2, <5>3
      <4> QED
        BY <4>2 DEF a, b
    <3>3. ASSUME NEW i \in 1 .. n + m
          PROVE  u.log[i].layer = "handler"
      <4>1. CASE i <= n
        <5>1. i \in 1 .. n /\ u.log[i] = HeardBy(n)[i]
          BY <3>2, <4>1
        <5> QED
          BY <3>1, <5>1
      <4>2. CASE ~(i <= n)
        <5>1. i - n \in 1 .. m /\ u.log[i] = HeardBy(m)[i - n]
          BY <3>2, <4>2
        <5> QED
          BY <3>1, <5>1
      <4> QED
        BY <4>1, <4>2
    <3> QED
      BY <3>2, <3>3
  <2>3. Layers(u) \subseteq {"handler"}
    BY <2>2 DEF Layers
  <2> QED
    BY <1>6, <2>2, <2>3 DEF AsClaimed
<1> QED
  BY <1>2, <1>3, <1>4, <1>5, <1>6 DEF PressedAs, Taken, AsClaimed

-----------------------------------------------------------------------------
(* The driver's press and a person's, but for what is typed.               *)

(* An entry that is swept away leaves what was kept before it.             *)
LEMMA KeptWithoutLast ==
  ASSUME NEW S, NEW s \in Seq(S), NEW e \in S, NEW K, NEW L, Len(s) + 1 \notin L,
         \A i \in 1 .. Len(s) : i \in L <=> i \in K
  PROVE  Kept(Append(s, e), L) = Kept(s, K)
<1> DEFINE n == Len(s)
           long == Append(s, e)
<1>1. n \in Nat /\ long \in Seq(S) /\ Len(long) = n + 1 /\ \A i \in 1 .. n : long[i] = s[i]
  OBVIOUS
<1>2. PICK g : TurnsTo(S, s, K, n, g) /\ Kept(s, K) = g[n]
  BY KeptTurns
<1> HIDE DEF long
<1>3. PICK h : TurnsTo(S, long, L, n + 1, h) /\ Kept(long, L) = h[n + 1]
  BY <1>1, KeptTurns
<1>4. \A i \in 0 .. n : g[i] = Turn(s, K, g, i)
  BY <1>2 DEF TurnsTo
<1>5. \A i \in 0 .. n + 1 : h[i] = Turn(long, L, h, i)
  BY <1>3 DEF TurnsTo
<1>0. n + 1 \notin L
  OBVIOUS
<1> HIDE DEF n
<1>6. h[n + 1] = h[n]
  <2>1. n + 1 \in 0 .. n + 1 /\ n + 1 # 0 /\ n + 1 - 1 = n
    BY <1>1
  <2>2. \A k : k # 0 /\ k \notin L => Turn(long, L, h, k) = h[k - 1]
    BY DEF Turn
  <2>3. Turn(long, L, h, n + 1) = h[n]
    BY <1>0, <1>1, <2>1, <2>2
  <2> QED
    BY <1>5, <2>1, <2>3
<1> DEFINE Agree == {i \in 0 .. n : h[i] = g[i]}
<1>7. 0 \in Agree
  <2>1. 0 \in 0 .. n /\ 0 \in 0 .. n + 1
    BY <1>1
  <2>2. g[0] = <<>> /\ h[0] = <<>>
    BY <1>4, <1>5, <2>1 DEF Turn
  <2> QED
    BY <2>1, <2>2
<1>8. ASSUME NEW m \in 1 .. n, m - 1 \in Agree
      PROVE  m \in Agree
  <2>1. m \in 0 .. n /\ m \in 0 .. n + 1 /\ m # 0 /\ h[m - 1] = g[m - 1]
    BY <1>1, <1>8
  <2>2. (m \in L <=> m \in K) /\ long[m] = s[m]
    BY <1>1 DEF n
  <2>3. h[m] = g[m]
    BY <1>4, <1>5, <2>1, <2>2 DEF Turn
  <2> QED
    BY <2>1, <2>3
<1> HIDE DEF Agree
<1>9. n \in Agree
  <2>1. \A i \in 0 .. n : i \in Agree
    BY <1>1, <1>7, <1>8, Climb
  <2> QED
    BY <1>1, <2>1
<1> QED
  BY <1>2, <1>3, <1>6, <1>9 DEF Agree, long

(* What is typed is not looked at.                                         *)
AsSeen(u, prefix) ==
  [u EXCEPT !.log = Untyped(@), !.pending = IF prefix THEN "none" ELSE @]
(* A key that is typed and one that nothing follows look alike.            *)
LEMMA TypingIsUnseen ==
  ASSUME NEW on, NEW u \in KeyState(on), NEW key, key # "Tab", NEW prefix
  PROVE  AsSeen(Typed(u, key), prefix) = AsSeen(u, prefix)
<1> DEFINE d == Deed("typed", 0)
           long == Append(u.log, d)
           L == {i \in DOMAIN long : long[i].layer # "typed"}
           K == {i \in DOMAIN u.log : u.log[i].layer # "typed"}
<1>1. d \in Deeds /\ d.layer = "typed"
  BY DEF Deed, Deeds
<1>2. u.log \in Seq(Deeds)
  BY DEF KeyState
<1>3. Typed(u, key) = [u EXCEPT !.log = long]
  BY DidIs DEF Typed
<1>4. Len(u.log) + 1 \notin L /\ \A i \in 1 .. Len(u.log) : i \in L <=> i \in K
  <2> HIDE DEF d
  <2>1. /\ Len(u.log) \in Nat /\ DOMAIN u.log = 1 .. Len(u.log)
        /\ DOMAIN long = 1 .. Len(u.log) + 1
        /\ long[Len(u.log) + 1] = d /\ \A i \in 1 .. Len(u.log) : long[i] = u.log[i]
    BY <1>1, <1>2
  <2> HIDE DEF long
  <2> QED
    BY <1>1, <2>1
<1> HIDE DEF d, L, K
<1>5. Kept(long, L) = Kept(u.log, K)
  BY <1>1, <1>2, <1>4, KeptWithoutLast
<1>6. Untyped(long) = Untyped(u.log)
  BY <1>5, Zenon DEF Untyped, L, K
<1> HIDE DEF long
<1>7. [u EXCEPT !.log = long].log = long /\ [u EXCEPT !.log = long].pending = u.pending
  BY DEF KeyState
<1>8. [u EXCEPT !.log = Untyped(long), !.pending = IF prefix THEN "none" ELSE u.pending]
        = [[u EXCEPT !.log = long]
             EXCEPT !.log = Untyped(long), !.pending = IF prefix THEN "none" ELSE u.pending]
  BY DEF KeyState
<1> QED
  BY <1>3, <1>6, <1>7, <1>8 DEF AsSeen

(* Two presses that differ at most in a prefix left armed.                 *)
Same(u, v, prefix) == u = v \/ (prefix /\ u = [v EXCEPT !.pending = "none"])
(* What is done to both leaves them the same.                              *)
LEMMA SameSteps ==
  ASSUME NEW on, NEW v \in KeyState(on), NEW prefix \in BOOLEAN, NEW u, Same(u, v, prefix)
  PROVE  /\ AsSeen(u, prefix) = AsSeen(v, prefix)
         /\ \A d : Same(Did(u, d), Did(v, d), prefix)
         /\ Same(Delivered(u), Delivered(v), prefix)
         /\ Same(Escaped(u), Escaped(v), prefix) /\ Same(Tabbed(u), Tabbed(v), prefix)
         /\ \A key : Claimed(u, key) <=> Claimed(v, key)
<1>1. CASE u = v
  BY <1>1 DEF Same
<1>2. CASE prefix /\ u = [v EXCEPT !.pending = "none"]
  <2>1. /\ u.log = v.log /\ u.handlers = v.handlers /\ u.on = v.on /\ u.overlays = v.overlays
        /\ u.stops = v.stops /\ u \in KeyState(on)
    BY <1>2 DEF KeyState
  <2>2. AsSeen(u, prefix) = AsSeen(v, prefix)
    BY <1>2, <2>1 DEF AsSeen, KeyState
  <2>3. \A d : Did(u, d) = [Did(v, d) EXCEPT !.pending = "none"]
    BY <1>2, <2>1 DEF Did, KeyState
  <2>4. Delivered(u) = [Delivered(v) EXCEPT !.pending = "none"]
    <3>1. HandlersAfter(u) = HandlersAfter(v) /\ Hearers(u) = Hearers(v)
      BY <2>1, Zenon DEF HandlersAfter, Hearers, Adders
    <3> DEFINE hs == HandlersAfter(v)
               l == v.log \o [i \in 1 .. Hearers(v) |-> Deed("handler", i)]
    <3>2. Delivered(u) = [u EXCEPT !.handlers = hs, !.log = l]
      BY <2>1, <3>1 DEF Delivered
    <3>3. Delivered(v) = [v EXCEPT !.handlers = hs, !.log = l]
      BY DEF Delivered
    <3> HIDE DEF hs, l
    <3> QED
      BY <1>2, <3>2, <3>3 DEF KeyState
  <2>5. Tabbed(u) = [Tabbed(v) EXCEPT !.pending = "none"]
    BY <1>2, <2>1, <2>3 DEF Tabbed
  <2>6. Escaped(u) = [Escaped(v) EXCEPT !.pending = "none"]
    <3>1. CASE v.overlays = 0
      BY <1>2, <2>1, <3>1 DEF Escaped
    <3>2. CASE v.overlays # 0
      <4> DEFINE o == v.overlays - 1
                 l == Append(v.log, Deed("overlay", 0))
      <4>1. Escaped(u) = [u EXCEPT !.overlays = o, !.log = l]
        BY <2>1, <3>2 DEF Escaped, Did, KeyState
      <4>2. Escaped(v) = [v EXCEPT !.overlays = o, !.log = l]
        BY <3>2 DEF Escaped, Did, KeyState
      <4> HIDE DEF o, l
      <4> QED
        BY <1>2, <4>1, <4>2 DEF KeyState
    <3> QED
      BY <3>1, <3>2
  <2>7. \A key : Claimed(u, key) <=> Claimed(v, key)
    BY <2>1, Zenon DEF Claimed
  <2> QED
    BY <1>2, <2>2, <2>3, <2>4, <2>5, <2>6, <2>7 DEF Same
<1> QED
  BY <1>1, <1>2 DEF Same

(* Of the person's presses one looks like the driver's.                    *)
Could(s, key, prefix) ==
  \E new \in PersonTypes(s, key) : AsSeen(DriverSends(s, key), prefix) = AsSeen(new, prefix)
(* Win32, where the message loop and the driver share the chords and the   *)
(* shortcuts.                                                              *)
LEMMA Win32Could ==
  ASSUME NEW s, KeysInv(s, "win32"), NEW key \in AllKeys, NEW prefix,
         ~(key = "Escape" /\ s.overlays > 0), ~(key = "Tab" /\ Claimed(s, key))
  PROVE  Could(s, key, prefix)
<1> DEFINE tried == Win32Shortcut(s, key)
           heard == Delivered(tried)
<1>1. s \in KeyState("win32") /\ s.log = <<>> /\ s.on = "win32"
  BY DEF KeysInv, KeyState
<1>2. PersonTypes(s, key) = Win32Typed(s, key)
  BY <1>1 DEF PersonTypes
<1>3. CASE key \in s.accels
  <2>1. Accelerated(s) \in Win32Typed(s, key)
    BY <1>3 DEF Win32Typed
  <2> QED
    BY <1>2, <1>3, <2>1 DEF Could, DriverSends
<1>4. CASE key \notin s.accels
  <2>1. DriverSends(s, key) = Win32Fired(s, key)
    BY <1>1, <1>4 DEF DriverSends
  <2>2. tried.log = s.log => tried = Cleared(s)
    BY <1>4, Win32TriedIs
  <2>3. CASE tried.log # s.log
    <3>1. Win32Fired(s, key) = tried /\ tried \in Win32Typed(s, key)
      BY <1>4, <2>3 DEF Win32Fired, Win32Typed
    <3> QED
      BY <1>2, <2>1, <3>1 DEF Could
  <2>4. CASE tried.log = s.log
    <3> DEFINE new == Unclaimed(heard, key, IF key = "Escape" THEN heard ELSE Typed(heard, key))
    <3>1. new \in Win32Typed(s, key)
      BY <1>4, <2>4 DEF Win32Typed
    <3>2. Win32Fired(s, key) = IF key = "Escape" THEN Escaped(heard)
                               ELSE IF key = "Tab" THEN Tabbed(heard) ELSE heard
      BY <2>4 DEF Win32Fired
    <3>3. /\ tried \in KeyState("win32") /\ tried.log = <<>> /\ tried.overlays = s.overlays
          /\ \A k : Claimed(tried, k) <=> Claimed(s, k)
      BY <1>1, <2>2, <2>4, ClearedIs
    <3> HIDE DEF tried
    <3>4. /\ heard \in KeyState("win32") /\ heard.overlays = s.overlays
          /\ \A k : Claimed(heard, k) <=> Claimed(s, k)
      BY <3>3, HearsIs DEF Hears, Delivered, KeyState
    <3> HIDE DEF heard
    <3>5. CASE key = "Escape"
      <4>1. Escaped(heard) = heard
        BY <1>1, <3>4, <3>5 DEF Escaped, KeyState
      <4>2. new = heard
        BY <3>5 DEF Unclaimed
      <4> QED
        BY <1>2, <2>1, <3>1, <3>2, <3>5, <4>1, <4>2 DEF Could
    <3>6. CASE key = "Tab"
      <4>1. new = Tabbed(heard)
        BY <3>4, <3>6 DEF Unclaimed, Typed
      <4> QED
        BY <1>2, <2>1, <3>1, <3>2, <3>6, <4>1 DEF Could
    <3>7. CASE key \notin {"Escape", "Tab"}
      <4>1. AsSeen(new, prefix) = AsSeen(heard, prefix)
        BY <3>4, <3>7, TypingIsUnseen DEF Unclaimed
      <4>2. Win32Fired(s, key) = heard
        BY <3>2, <3>7
      <4> HIDE DEF new
      <4> QED
        BY <1>2, <2>1, <3>1, <4>1, <4>2 DEF Could
    <3> QED
      BY <3>5, <3>6, <3>7
  <2> QED
    BY <2>3, <2>4
<1> QED
  BY <1>3, <1>4

(* Android, where no handler is there or the key is neither Escape nor     *)
(* Tab.                                                                    *)
LEMMA AndroidCould ==
  ASSUME NEW s, KeysInv(s, "android"), NEW key \in AllKeys, NEW prefix,
         ~(key \in {"Escape", "Tab"} /\ s.handlers # <<>>), key \notin s.accels
  PROVE  Could(s, key, prefix)
<1> DEFINE tried == AndroidShortcut(s, key)
           heard == Delivered(tried)
           new == Unclaimed(heard, key, IF key = "Escape" THEN Escaped(heard) ELSE Typed(heard, key))
<1>1. s \in KeyState("android") /\ s.log = <<>> /\ s.on = "android"
  BY DEF KeysInv, KeyState
<1>2. PersonTypes(s, key) = IF tried.log # s.log THEN {tried} ELSE {new}
  BY <1>1 DEF PersonTypes, AndroidTyped
<1>3. DriverSends(s, key) = AndroidDriverKey(s, key)
  BY <1>1 DEF DriverSends
<1>4. CASE tried.log # s.log
  <2>1. AndroidDriverKey(s, key) = tried
    BY <1>4 DEF AndroidDriverKey
  <2> QED
    BY <1>2, <1>3, <1>4, <2>1 DEF Could
<1>5. CASE tried.log = s.log
  <2>1. /\ tried \in KeyState("android") /\ tried.log = <<>> /\ tried.handlers = s.handlers
        /\ \A k : Claimed(tried, k) <=> Claimed(s, k)
    BY <1>1, <1>5, AndroidTriedIs, ClearedIs
  <2>2. AndroidDriverKey(s, key) =
          IF s.handlers # <<>> THEN heard
          ELSE IF key = "Escape" THEN Escaped(tried)
               ELSE IF key = "Tab" THEN Tabbed(tried) ELSE tried
    BY <1>5 DEF AndroidDriverKey
  <2>3. PersonTypes(s, key) = {new}
    BY <1>2, <1>5
  <2> HIDE DEF tried
  <2>4. heard \in KeyState("android") /\ \A k : Claimed(heard, k) <=> Claimed(s, k)
    BY <2>1, HearsIs DEF Hears
  <2>5. s.handlers = <<>> => heard = tried /\ ~Claimed(heard, key)
    <3>1. s.handlers = <<>> => heard = tried
      BY <2>1, HearsIs
    <3>2. s.handlers = <<>> => ~Claimed(s, key)
      BY DEF Claimed
    <3> QED
      BY <2>4, <3>1, <3>2
  <2> HIDE DEF heard
  <2>6. CASE key = "Escape" \/ key = "Tab"
    <3>1. s.handlers = <<>>
      BY <2>6
    <3>2. AndroidDriverKey(s, key) = new
      BY <2>2, <2>5, <2>6, <3>1 DEF Unclaimed, Typed
    <3> QED
      BY <1>3, <2>3, <3>2 DEF Could
  <2>7. CASE key \notin {"Escape", "Tab"}
    <3>1. AsSeen(new, prefix) = AsSeen(heard, prefix)
      BY <2>4, <2>7, TypingIsUnseen DEF Unclaimed
    <3>2. AndroidDriverKey(s, key) = heard
      BY <2>2, <2>5, <2>7
    <3> HIDE DEF new
    <3> QED
      BY <1>3, <2>3, <3>1, <3>2 DEF Could
  <2> QED
    BY <2>6, <2>7
<1> QED
  BY <1>4, <1>5

(* GTK's one controller and what follows it, and its driver.               *)
LEMMA GtkFedIs ==
  ASSUME NEW s, KeysInv(s, "gtk"), NEW key \in AllKeys, key \notin s.accels,
         NEW fed, fed = IF ChordKey(s, key) THEN GtkFeed(s, key) ELSE s
  PROVE  /\ GtkFeed(s, key).log # s.log => fed = GtkFeed(s, key)
         /\ GtkFeed(s, key).log = s.log =>
              /\ GtkFeed(s, key) = Cleared(s) /\ fed \in KeyState("gtk") /\ fed.log = s.log
              /\ Same(Cleared(s), fed, ~ChordKey(s, key))
<1>1. s \in KeyState("gtk") /\ s.log = <<>> /\ ~s.late
  BY DEF KeysInv
<1>2. FedTo(s, GtkFeed(s, key), key)
  BY FeedIs
<1>3. /\ GtkFeed(s, key).log # s.log => ChordKey(s, key)
      /\ GtkFeed(s, key).log = s.log => GtkFeed(s, key) = Cleared(s)
  BY <1>1, <1>2, FedIs
<1>4. Cleared(s) \in KeyState("gtk") /\ Cleared(s).log = s.log
  BY <1>1, ClearedIs
<1>5. Cleared(s) = [s EXCEPT !.pending = "none"]
  BY <1>1 DEF Cleared, KeyState
<1> QED
  BY <1>1, <1>3, <1>4, <1>5 DEF Same

(* GTK, where the key has one shortcut at most and there is something to   *)
(* focus.                                                                  *)
LEMMA GtkCould ==
  ASSUME NEW s, KeysInv(s, "gtk"), NEW key \in AllKeys,
         ~(Len(Bound(s, key)) > 1), ~(key = "Tab" /\ s.stops = 0)
  PROVE  Could(s, key, ~ChordKey(s, key))
<1> DEFINE fed == IF ChordKey(s, key) THEN GtkFeed(s, key) ELSE s
           before == IF fed.log = s.log THEN {s, fed} ELSE {s}
           prefix == ~ChordKey(s, key)
           c == Cleared(s)
           b == Bound(s, key)
           u == DriverSends(s, key)
           fired == {Did(t, Deed("shortcut", b[i])) : i \in DOMAIN b, t \in before}
           escaped == IF key = "Escape" /\ s.overlays > 0 THEN {Escaped(t) : t \in before} ELSE {}
<1>1. s \in KeyState("gtk") /\ s.log = <<>> /\ s.on = "gtk"
  BY DEF KeysInv, KeyState
<1>2. PersonTypes(s, key) = GtkTyped(s, key)
  BY <1>1 DEF PersonTypes
<1>3. CASE key \in s.accels
  <2>1. Accelerated(s) \in GtkTyped(s, key)
    BY <1>3 DEF GtkTyped
  <2> QED
    BY <1>2, <1>3, <2>1 DEF Could, DriverSends
<1>4. CASE key \notin s.accels
  <2>1. u = GtkFired(s, key)
    BY <1>1, <1>4 DEF DriverSends
  <2>2. /\ GtkFeed(s, key).log # s.log => fed = GtkFeed(s, key)
        /\ GtkFeed(s, key).log = s.log =>
             /\ GtkFeed(s, key) = c /\ fed \in KeyState("gtk") /\ fed.log = s.log
             /\ Same(c, fed, prefix)
    BY <1>4, GtkFedIs
  <2>3. GtkControllers(s, key) = fired \cup (IF fed.log # s.log THEN {fed} ELSE {}) \cup escaped
    BY DEF GtkControllers
  <2>4. GtkTyped(s, key) = IF GtkControllers(s, key) # {} THEN GtkControllers(s, key)
                           ELSE {GtkAnyKey(fed, key)}
                                  \cup (IF key \in {"Escape", "Tab"} THEN {} ELSE {Typed(fed, key)})
    BY <1>4 DEF GtkTyped
  <2>5. CASE GtkFeed(s, key).log # s.log
    <3>1. u = GtkFeed(s, key)
      BY <2>1, <2>5 DEF GtkFired
    <3>2. fed \in GtkControllers(s, key)
      BY <2>2, <2>3, <2>5
    <3>3. u \in PersonTypes(s, key)
      BY <1>2, <2>2, <2>4, <2>5, <3>1, <3>2
    <3> QED
      BY <3>3 DEF Could
  <2>6. CASE GtkFeed(s, key).log = s.log
    <3>1. /\ fed \in KeyState("gtk") /\ fed.log = s.log /\ Same(c, fed, prefix)
          /\ c \in KeyState("gtk") /\ c.log = s.log /\ c.stops = s.stops
          /\ Bound(c, key) = b
      BY <1>1, <2>2, <2>6, ClearedIs
    <3>2. before = {s, fed}
      BY <3>1
    <3>3. GtkFired(s, key) =
            LET shot == AllFired(c, key)
            IN CASE shot.log # s.log -> shot
                 [] shot.log = s.log /\ key = "Tab" -> GtkTabFired(shot)
                 [] shot.log = s.log /\ key = "Escape" /\ s.overlays > 0 -> Escaped(shot)
                 [] OTHER -> Delivered(shot)
      BY <2>2, <2>6 DEF GtkFired
    <3>4. /\ b \in Seq(Nat) /\ Len(b) \in Nat /\ ~(Len(b) > 1)
          /\ \A i \in DOMAIN b : b[i] \in Nat
      <4>1. b \in Seq(Nat)
        BY <1>1, BoundIs
      <4> QED
        BY <4>1
    <3>5. prefix \in BOOLEAN
      OBVIOUS
    <3> HIDE DEF fed, before, b, u, c, prefix
    <3>6. CASE b # <<>>
      <4> DEFINE d == Deed("shortcut", b[1])
      <4>1. Len(b) = 1 /\ 1 \in DOMAIN b
        <5>1. Len(b) # 0
          BY <3>4, <3>6
        <5>2. Len(b) = 1
          <6> DEFINE l == Len(b)
          <6>1. l \in Nat /\ ~(l > 1) /\ l # 0
            BY <3>4, <5>1, Zenon
          <6> HIDE DEF l
          <6>2. l = 1
            BY <6>1
          <6> QED
            BY <6>2 DEF l
        <5>3. DOMAIN b = 1 .. Len(b)
          BY <3>4
        <5> QED
          BY <5>2, <5>3
      <4>2. AllFired(c, key) = [c EXCEPT !.log = <<d>>]
        <5>1. AllFired(c, key) = [c EXCEPT !.log = FiredBy(Bound(c, key))]
              /\ (Len(Bound(c, key)) = 1 => FiredBy(Bound(c, key)) = <<Deed("shortcut", Bound(c, key)[1])>>)
          BY <1>1, <3>1, FiredIs
        <5> QED
          BY <3>1, <4>1, <5>1
      <4>3. Did(c, d) = [c EXCEPT !.log = <<d>>]
        <5>1. Did(c, d) = [c EXCEPT !.log = Append(c.log, d)]
          BY <3>1, DidIs
        <5>2. Append(c.log, d) = <<d>>
          BY <1>1, <3>1
        <5> QED
          BY <5>1, <5>2, Zenon
      <4>4. AllFired(c, key).log # s.log
        BY <1>1, <3>1, <4>2 DEF KeyState
      <4>5. u = Did(c, d)
        BY <2>1, <3>3, <4>2, <4>3, <4>4
      <4>6. Did(fed, d) \in GtkControllers(s, key)
        <5>1. Did(fed, d) \in fired
          BY <3>2, <4>1
        <5> HIDE DEF fired, escaped
        <5> QED
          BY <2>3, <5>1
      <4>7. Did(fed, d) \in PersonTypes(s, key)
        BY <1>2, <2>4, <4>6
      <4>8. Same(Did(c, d), Did(fed, d), prefix)
        BY <3>1, <3>5, SameSteps
      <4> HIDE DEF d
      <4>9. Did(fed, d) \in KeyState("gtk")
        <5>1. b[1] \in Nat
          BY <3>4, <4>1
        <5>2. d \in Deeds /\ d.layer = "shortcut"
          BY <5>1 DEF Deed, Deeds, d
        <5> QED
          BY <1>1, <3>1, <5>2, ShortcutIs
      <4>10. AsSeen(Did(c, d), prefix) = AsSeen(Did(fed, d), prefix)
        BY <3>5, <4>8, <4>9, SameSteps
      <4> QED
        BY <4>5, <4>7, <4>10 DEF Could, u, prefix
    <3>7. CASE b = <<>>
      <4>1. AllFired(c, key) = c
        BY <1>1, <3>1, <3>7, FiredIs
      <4>2. u = CASE key = "Tab" -> GtkTabFired(c)
                  [] key = "Escape" /\ s.overlays > 0 -> Escaped(c)
                  [] OTHER -> Delivered(c)
        BY <2>1, <3>1, <3>3, <4>1
      <4>3. fired = {}
        BY <3>7
      <4> HIDE DEF fired, escaped
      <4>4. GtkControllers(s, key) = escaped
        BY <2>3, <3>1, <4>3
      <4>5. CASE key = "Escape" /\ s.overlays > 0
        <5>1. u = Escaped(c)
          BY <4>2, <4>5
        <5>2. Escaped(fed) \in escaped
          BY <3>2, <4>5 DEF escaped
        <5>3. Escaped(fed) \in PersonTypes(s, key)
          BY <1>2, <2>4, <4>4, <5>2
        <5>4. Same(Escaped(c), Escaped(fed), prefix)
          BY <3>1, <3>5, SameSteps
        <5>5. Escaped(fed) \in KeyState("gtk")
          BY <3>1, TailIs DEF Leaves
        <5>6. AsSeen(Escaped(c), prefix) = AsSeen(Escaped(fed), prefix)
          BY <3>5, <5>4, <5>5, SameSteps
        <5> QED
          BY <5>1, <5>3, <5>6 DEF Could, u, prefix
      <4>6. CASE ~(key = "Escape" /\ s.overlays > 0)
        <5> DEFINE hc == Delivered(c)
                   hf == Delivered(fed)
        <5>1. GtkControllers(s, key) = {}
          BY <4>4, <4>6 DEF escaped
        <5>2. Unclaimed(hf, key, Typed(hf, key)) \in PersonTypes(s, key)
          BY <1>2, <2>4, <5>1 DEF GtkAnyKey
        <5>3. Same(hc, hf, prefix)
          BY <3>1, <3>5, SameSteps
        <5>4. hf \in KeyState("gtk") /\ hc \in KeyState("gtk") /\ hc.stops = c.stops
          <6>1. hf \in KeyState("gtk") /\ hc \in KeyState("gtk")
            BY <1>1, <3>1, HearsIs DEF Hears
          <6>2. hc.stops = c.stops
            BY <3>1 DEF Delivered, KeyState
          <6> QED
            BY <6>1, <6>2
        <5>5. u = CASE key = "Tab" -> GtkTabFired(c) [] OTHER -> hc
          BY <4>2, <4>6
        <5>6. GtkTabFired(c) = CASE Claimed(hc, "Tab") -> hc
                                 [] ~Claimed(hc, "Tab") /\ c.stops > 0 -> Tabbed(hc)
                                 [] OTHER -> Delivered(hc)
          BY DEF GtkTabFired
        <5> HIDE DEF hc, hf
        <5>7. /\ AsSeen(hc, prefix) = AsSeen(hf, prefix)
              /\ Same(Tabbed(hc), Tabbed(hf), prefix)
              /\ \A k : Claimed(hc, k) <=> Claimed(hf, k)
          BY <3>5, <5>3, <5>4, SameSteps
        <5>8. Tabbed(hf) \in KeyState("gtk")
          BY <5>4, TailIs DEF Leaves
        <5>9. AsSeen(Tabbed(hc), prefix) = AsSeen(Tabbed(hf), prefix)
          BY <3>5, <5>7, <5>8, SameSteps
        <5>10. CASE key = "Tab"
          <6>1. c.stops > 0
            BY <1>1, <3>1, <5>10 DEF KeyState
          <6>2. u = IF Claimed(hc, "Tab") THEN hc ELSE Tabbed(hc)
            BY <5>5, <5>6, <5>10, <6>1
          <6>3. Unclaimed(hf, key, Typed(hf, key)) = IF Claimed(hc, "Tab") THEN hf ELSE Tabbed(hf)
            BY <5>7, <5>10 DEF Unclaimed, Typed
          <6> QED
            BY <5>2, <5>7, <5>9, <6>2, <6>3 DEF Could, u, prefix
        <5>11. CASE key # "Tab"
          <6>1. u = hc
            BY <5>5, <5>11
          <6>2. AsSeen(Unclaimed(hf, key, Typed(hf, key)), prefix) = AsSeen(hf, prefix)
            BY <5>4, <5>11, TypingIsUnseen DEF Unclaimed
          <6> QED
            BY <5>2, <5>7, <6>1, <6>2 DEF Could, u, prefix
        <5> QED
          BY <5>10, <5>11
      <4> QED
        BY <4>5, <4>6
    <3> QED
      BY <3>6, <3>7
  <2> QED
    BY <2>5, <2>6
<1> QED
  BY <1>3, <1>4

-----------------------------------------------------------------------------
(* What holds of a press between presses, as the properties say it.        *)
LEMMA PressesAreOne ==
  ASSUME backend \in {"gtk", "win32", "android"}, KeysInv(st, backend), form = "keys"
  PROVE  ChordsInARow /\ OneLayer
<1>1. st \in KeyState(backend)
  BY DEF KeysInv
<1>2. ASSUME NEW key \in AllKeys, NEW new \in Outcomes(key)
      PROVE  AsClaimed(st, new, key, backend, new = DriverSends(st, key))
  <2> DEFINE driven == new = DriverSends(st, key)
  <2>1. CASE ~driven
    <3>1. new \in PersonTypes(st, key)
      BY <1>2, <2>1 DEF Outcomes
    <3>2. PressedAs(st, new, key, backend, FALSE) /\ new \in KeyState(backend)
      BY <3>1, PersonIs DEF EndsAs, Leftover
    <3>3. AsClaimed(st, new, key, backend, FALSE)
      BY <1>1, <3>2, PressedIsOne
    <3> QED
      BY <2>1, <3>3 DEF AsClaimed
  <2>2. CASE driven
    <3>1. PressedAs(st, new, key, backend, TRUE) /\ new \in KeyState(backend)
      <4>1. /\ PressedAs(st, DriverSends(st, key), key, backend, TRUE)
            /\ key \notin st.accels => Leftover(st, DriverSends(st, key), key, backend, TRUE)
            /\ key \in st.accels => Leaves(st, DriverSends(st, key), backend, {"accel"})
        BY DriverIs, Zenon
      <4>2. new = DriverSends(st, key)
        BY <2>2
      <4> QED
        BY <4>1, <4>2 DEF Leftover, Leaves
    <3>2. AsClaimed(st, new, key, backend, TRUE)
      BY <1>1, <3>1, PressedIsOne
    <3> QED
      BY <2>2, <3>2 DEF AsClaimed
  <2> QED
    BY <2>1, <2>2
<1>3. ChordsInARow
  BY <1>2 DEF ChordsInARow, AsClaimed
<1>4. OneLayer
  BY <1>2 DEF OneLayer, AsClaimed
<1> QED
  BY <1>3, <1>4

(* And what the driver sends a person could type, on every backend.        *)
LEMMA DriverCould ==
  ASSUME backend \in {"gtk", "win32", "android"}, KeysInv(st, backend), form = "keys"
  PROVE  DriverTypesAsAPerson
<1>1. ASSUME NEW key \in AllKeys, ~Apart(key)
      PROVE  Could(st, key, backend = "gtk" /\ ~ChordKey(st, key))
  <2>1. CASE backend = "gtk"
    <3>1. Could(st, key, ~ChordKey(st, key))
      BY <1>1, <2>1, GtkCould DEF Apart
    <3>2. (backend = "gtk" /\ ~ChordKey(st, key)) = ~ChordKey(st, key)
      BY <2>1
    <3> QED
      BY <3>1, <3>2
  <2>2. CASE backend = "win32"
    <3>1. \A prefix : Could(st, key, prefix)
      BY <1>1, <2>2, Win32Could DEF Apart
    <3> QED
      BY <3>1
  <2>3. CASE backend = "android"
    <3>1. \A prefix : Could(st, key, prefix)
      BY <1>1, <2>3, AndroidCould DEF Apart
    <3> QED
      BY <3>1
  <2> QED
    BY <2>1, <2>2, <2>3
<1>2. ASSUME NEW key \in AllKeys, NEW prefix, Could(st, key, prefix)
      PROVE  LET Seen(s) == [s EXCEPT !.log = Untyped(@), !.pending = IF prefix THEN "none" ELSE @]
             IN Seen(DriverSends(st, key)) \in {Seen(new) : new \in PersonTypes(st, key)}
  BY <1>2 DEF Could, AsSeen
<1> QED
  BY <1>1, <1>2 DEF DriverTypesAsAPerson

(* Nothing is bound to begin with.                                         *)
LEMMA NoKeysKept ==
  ASSUME NEW on \in {"gtk", "win32", "android"}, NEW stops \in 0 .. 1, NEW accels \in SUBSET ChordKeys
  PROVE  KeysInv(NoKeys(on, stops, accels), on)
<1>1. /\ <<>> \in Seq(Shortcut) /\ <<>> \in Seq(Chord) /\ <<>> \in Seq(KeyHandler)
      /\ <<>> \in Seq(Deeds) /\ stops \in {0, 1}
  OBVIOUS
<1> QED
  BY <1>1 DEF NoKeys, KeysInv, KeyState

(* A step of another form is no step of the keys.                          *)
LEMMA OnlyKeysStep ==
  ASSUME form = "keys", [Next]_vars
  PROVE  KeyStep \/ UNCHANGED st
<1>1. CASE UNCHANGED vars
  BY <1>1 DEF vars
<1>2. CASE Running /\ WhileRunning
  BY <1>2 DEF Running
<1>3. ASSUME NEW h, ToastExpires(h) \/ ExitEnds(h)
      PROVE  FALSE
  BY <1>3 DEF ToastExpires, ExitEnds, Running
<1> QED
  BY <1>1, <1>2, <1>3 DEF Next

ShellKeysInv == backend \in {"gtk", "win32", "android"} /\ (form = "keys" => KeysInv(st, backend))

(* For any keys, and any number of chords, shortcuts and handlers, on every*)
(* backend: a chord is two presses in a row, a press is one layer's and is *)
(* heard once by a handler, and what the driver sends a person could type, *)
(* but for the exceptions the property names.                              *)
THEOREM PressIsOneLayers == SafeSpec => []KeysHold
<1>1. Init => ShellKeysInv
  BY ShellAssumption, NoKeysKept DEF Init, ShellKeysInv
<1>2. ShellKeysInv /\ [Next]_vars => ShellKeysInv'
  BY FormStays, OnlyKeysStep, KeyStepKeeps DEF ShellKeysInv
<1>3. ShellKeysInv => KeysHold
  <2>1. form # "keys" => KeysHold
    BY DEF KeysHold, ChordsInARow, OneLayer, DriverTypesAsAPerson
  <2> QED
    BY <2>1, PressesAreOne, DriverCould DEF ShellKeysInv, KeysHold
<1> QED
  BY <1>1, <1>2, <1>3, PTL DEF SafeSpec

-----------------------------------------------------------------------------
(* Dragging.                                                               *)

Items == DOMAIN Long
Rows == Seq(Items)
DropRecord ==
  [moved : {TRUE}, stack : {1, 2}, at : {0, 1, 2} \X Int, item : Items \cup {0},
   rebuilt : BOOLEAN, before : Rows, gap : Nat]
DragState(on) ==
  [on : {on}, kids : [{1, 2} -> Rows], held : {"no", "pressed", "drag"},
   src : [stack : {0, 1, 2}, from : Int], at : {0, 1, 2} \X Int, bar : {0, 1, 2},
   item : Items \cup {0}, rebuilt : BOOLEAN, last : {NoDrop} \cup DropRecord]

(* The child at from is the one that was pressed, as long as its stack has *)
(* not been rebuilt.                                                       *)
IsPressed(s, stack, from) ==
  /\ stack \in {1, 2} /\ from \in Int
  /\ ~s.rebuilt => from + 1 \in DOMAIN s.kids[stack] /\ s.kids[stack][from + 1] = s.item
(* The last drop did what a drop should.                                   *)
Dropped(kids, last, on) ==
  LET after == kids[last.stack]
      over == {ChildAt(last.before, last.at[2])} \ {-1}
  IN /\ ~last.rebuilt =>
          /\ Without(after, last.item) = Without(last.before, last.item)
          /\ Above(after, last.item) = {last.before[i] : i \in 1 .. last.gap} \ {last.item}
          /\ last.at[1] = last.stack => (\A i \in over : last.before[i + 1] # last.item)
     /\ last.at[1] # last.stack => on = "win32"

(* A drag remembers the stack and the index of what was pressed; GTK only  *)
(* finds them when the press becomes a drag.                               *)
ReorderInv(s, on) ==
  /\ s \in DragState(on)
  /\ \A stack \in {1, 2} : IsInjective(s.kids[stack])
  /\ s.held = "drag" \/ (s.held = "pressed" /\ on = "win32") =>
       IsPressed(s, s.src.stack, s.src.from)
  /\ s.held = "pressed" =>
       /\ on # "android"
       /\ on = "gtk" => IsPressed(s, s.at[1], ChildAt(s.kids[s.at[1]], s.at[2]))
  /\ on # "android" /\ (s.held = "no" \/ (s.held = "pressed" /\ on = "gtk")) => s.src = NoSource
  /\ s.bar # 0 => s.held = "drag" /\ s.bar = s.src.stack
  /\ s.last.moved => Dropped(s.kids, s.last, on)

(* Where a child begins, from what is above it.                            *)
LEMMA TopStep ==
  ASSUME NEW kids \in Rows
  PROVE  /\ \A i \in 1 .. Len(kids) + 1 : Top(kids, i) \in Nat
         /\ \A i \in 1 .. Len(kids) : Top(kids, i + 1) = Top(kids, i) + Long[kids[i]] + 1
<1> DEFINE n == Len(kids)
           Step(g, j) == IF j = 1 THEN 0 ELSE g[j - 1] + Long[kids[j - 1]] + 1
           Loop(g) == g = [j \in 1 .. n + 1 |-> Step(g, j)]
           loop == CHOOSE g : Loop(g)
           F == [i \in 1 .. n |-> [x \in Nat |-> x + Long[kids[i]] + 1]]
<1>1. n \in Nat /\ \A i \in 1 .. n : Long[kids[i]] \in Nat
  BY DragAssumption DEF Rows, Items
<1> HIDE DEF n
<1>2. F \in [1 .. n -> [Nat -> Nat]]
  BY <1>1
<1>3. PICK g : LoopRun(n, Nat, 0, F, g)
  BY <1>1, <1>2, LoopRuns
<1>4. /\ g[0] = 0 /\ \A i \in 0 .. n : g[i] \in Nat
      /\ \A i \in 1 .. n : g[i] = g[i - 1] + Long[kids[i]] + 1
  <2>1. \A i \in 1 .. n : i - 1 \in 0 .. n
    BY <1>1
  <2> QED
    BY <1>3, <2>1 DEF LoopRun
<1> HIDE DEF F
<1> DEFINE h == [j \in 1 .. n + 1 |-> g[j - 1]]
<1>5. Loop(h)
  <2>1. ASSUME NEW j \in 1 .. n + 1
        PROVE  g[j - 1] = Step(h, j)
    <3>1. CASE j = 1
      BY <1>4, <3>1
    <3>2. CASE j # 1
      <4>1. j - 1 \in 1 .. n /\ j - 1 \in 1 .. n + 1
        BY <1>1, <3>2
      <4>2. h[j - 1] = g[(j - 1) - 1]
        BY <4>1
      <4> QED
        BY <1>4, <3>2, <4>1, <4>2
    <3> QED
      BY <3>1, <3>2
  <2> QED
    BY <2>1
<1> HIDE DEF h
<1>6. Loop(loop)
  <2> HIDE DEF Loop
  <2> QED
    BY <1>5
<1>7. \A i \in 1 .. n + 1 : Top(kids, i) = loop[i]
  BY DEF Top, n
<1> HIDE DEF loop
<1>8. \A i \in 1 .. n + 1 : loop[i] = Step(loop, i)
  BY <1>6
<1> DEFINE Agree == {i \in 0 .. n : loop[i + 1] = g[i]}
<1>9. 0 \in Agree
  BY <1>1, <1>4, <1>8
<1>10. ASSUME NEW i \in 1 .. n, i - 1 \in Agree
       PROVE  i \in Agree
  <2>1. i + 1 \in 1 .. n + 1 /\ i + 1 # 1 /\ (i + 1) - 1 = i /\ (i - 1) + 1 = i
    BY <1>1
  <2>2. loop[i + 1] = loop[i] + Long[kids[i]] + 1
    BY <1>8, <2>1
  <2>3. loop[i] = g[i - 1]
    BY <1>10, <2>1
  <2> QED
    BY <1>1, <1>4, <2>2, <2>3
<1> HIDE DEF Agree
<1>11. \A i \in 0 .. n : i \in Agree
  BY <1>1, <1>9, <1>10, Climb
<1>12. \A i \in 0 .. n : Top(kids, i + 1) = g[i]
  BY <1>1, <1>7, <1>11 DEF Agree
<1>13. \A i \in 1 .. n + 1 : i - 1 \in 0 .. n /\ (i - 1) + 1 = i
  BY <1>1
<1>14. \A i \in 1 .. n + 1 : Top(kids, i) = g[i - 1]
  BY <1>12, <1>13
<1>15. \A i \in 1 .. n : i \in 1 .. n + 1 /\ i \in 0 .. n
  BY <1>1
<1> QED
  BY <1>4, <1>12, <1>13, <1>14, <1>15 DEF n

(* What comes after a child begins below its end.                          *)
LEMMA TopGrows ==
  ASSUME NEW kids \in Rows, NEW i \in DOMAIN kids, NEW j \in DOMAIN kids, i < j
  PROVE  Top(kids, i) + Long[kids[i]] < Top(kids, j)
<1> DEFINE n == Len(kids)
           Below == {m \in 0 .. n : \A k \in 1 .. m : Top(kids, k) + Long[kids[k]] < Top(kids, m + 1)}
<1>1. n \in Nat /\ DOMAIN kids = 1 .. n /\ \A k \in 1 .. n : Long[kids[k]] \in Nat
  BY DragAssumption DEF Rows, Items
<1>2. /\ \A k \in 1 .. n + 1 : Top(kids, k) \in Nat
      /\ \A k \in 1 .. n : Top(kids, k + 1) = Top(kids, k) + Long[kids[k]] + 1
  BY TopStep
<1> HIDE DEF n
<1>3. 0 \in Below
  BY <1>1
<1>4. ASSUME NEW m \in 1 .. n, m - 1 \in Below
      PROVE  m \in Below
  <2>1. ASSUME NEW k \in 1 .. m
        PROVE  Top(kids, k) + Long[kids[k]] < Top(kids, m + 1)
    <3>1. /\ k \in 1 .. n /\ k \in 1 .. n + 1 /\ m \in 1 .. n + 1 /\ (m - 1) + 1 = m
          /\ k = m \/ k \in 1 .. (m - 1)
      BY <1>1
    <3>2. /\ Top(kids, m + 1) = Top(kids, m) + Long[kids[m]] + 1
          /\ Top(kids, m) \in Nat /\ Long[kids[m]] \in Nat
          /\ Top(kids, k) \in Nat /\ Long[kids[k]] \in Nat
      BY <1>1, <1>2, <3>1
    <3>3. CASE k = m
      <4>1. Top(kids, m) + Long[kids[m]] < Top(kids, m + 1)
        BY <3>2
      <4> QED
        BY <3>3, <4>1
    <3>4. CASE k # m
      <4>1. Top(kids, k) + Long[kids[k]] < Top(kids, m)
        BY <1>4, <3>1, <3>4
      <4> QED
        BY <3>2, <4>1
    <3> QED
      BY <3>3, <3>4
  <2> QED
    BY <1>1, <2>1
<1> HIDE DEF Below
<1>5. \A m \in 0 .. n : m \in Below
  BY <1>1, <1>3, <1>4, Climb
<1>6. j - 1 \in 0 .. n /\ i \in 1 .. (j - 1) /\ (j - 1) + 1 = j
  BY <1>1
<1> QED
  BY <1>5, <1>6 DEF Below

(* The child that a point is in.                                           *)
LEMMA ChildAtIs ==
  ASSUME NEW kids \in Rows, NEW p
  PROVE  \/ ChildAt(kids, p) = -1
         \/ \E c \in DOMAIN kids :
              /\ ChildAt(kids, p) = c - 1
              /\ p >= Top(kids, c) /\ p < Top(kids, c) + Long[kids[c]]
BY DEF ChildAt

(* The gap a point is nearest to: of a point in a child, one of its two.   *)
LEMMA GapAtIs ==
  ASSUME NEW kids \in Rows, NEW p \in Int
  PROVE  /\ GapAt(kids, p) \in 0 .. Len(kids)
         /\ \A c \in DOMAIN kids :
              p >= Top(kids, c) /\ p < Top(kids, c) + Long[kids[c]] => GapAt(kids, p) \in {c - 1, c}
<1> DEFINE n == Len(kids)
           above == {i \in DOMAIN kids : 2 * Top(kids, i) + Long[kids[i]] < 2 * p}
<1>1. n \in Nat /\ DOMAIN kids = 1 .. n /\ \A k \in 1 .. n : Long[kids[k]] \in Nat
  BY DragAssumption DEF Rows, Items
<1>2. \A k \in 1 .. n : Top(kids, k) \in Nat
  BY <1>1, TopStep
<1>3. GapAt(kids, p) = Cardinality(above)
  BY DEF GapAt
<1>4. \A m \in 0 .. n : IsFiniteSet(1 .. m) /\ Cardinality(1 .. m) = m
  BY <1>1, FS_Interval
<1>5. Cardinality(above) \in 0 .. n
  <2>1. above \in SUBSET (1 .. n) /\ n \in 0 .. n
    BY <1>1
  <2>2. IsFiniteSet(above) /\ Cardinality(above) <= n
    BY <1>4, <2>1, FS_Subset
  <2> QED
    BY <1>1, <2>2, FS_CardinalityType
<1>6. ASSUME NEW c \in DOMAIN kids, p >= Top(kids, c), p < Top(kids, c) + Long[kids[c]]
      PROVE  Cardinality(above) \in {c - 1, c}
  <2>1. ASSUME NEW i \in DOMAIN kids, i < c
        PROVE  i \in above
    <3>1. Top(kids, i) + Long[kids[i]] < Top(kids, c)
      BY <2>1, TopGrows
    <3>2. /\ Top(kids, i) \in Nat /\ Long[kids[i]] \in Nat /\ Top(kids, c) \in Nat
          /\ p >= Top(kids, c)
      BY <1>1, <1>2, <1>6
    <3>3. 2 * Top(kids, i) + Long[kids[i]] < 2 * p
      BY <3>1, <3>2
    <3> QED
      BY <3>3
  <2>2. ASSUME NEW i \in DOMAIN kids, i > c
        PROVE  i \notin above
    <3>1. Top(kids, c) + Long[kids[c]] < Top(kids, i)
      BY <2>2, TopGrows
    <3>2. /\ Top(kids, i) \in Nat /\ Long[kids[i]] \in Nat /\ Top(kids, c) \in Nat
          /\ Long[kids[c]] \in Nat /\ p < Top(kids, c) + Long[kids[c]]
      BY <1>1, <1>2, <1>6
    <3>3. ~(2 * Top(kids, i) + Long[kids[i]] < 2 * p)
      BY <3>1, <3>2
    <3> QED
      BY <3>3
  <2>3. \A i \in above : i \in DOMAIN kids
    OBVIOUS
  <2> HIDE DEF above, n
  <2>4. above = 1 .. (c - 1) \/ above = 1 .. c
    <3>1. \A i : i \in above => i \in 1 .. n /\ i <= c
      BY <1>1, <2>2, <2>3
    <3>2. \A i \in 1 .. (c - 1) : i \in above
      BY <1>1, <2>1
    <3>3. CASE c \in above
      <4>1. \A i : i \in above <=> i \in 1 .. c
        BY <1>1, <3>1, <3>2, <3>3
      <4> QED
        BY <4>1
    <3>4. CASE c \notin above
      <4>1. \A i : i \in above <=> i \in 1 .. (c - 1)
        BY <1>1, <3>1, <3>2, <3>4
      <4> QED
        BY <4>1
    <3> QED
      BY <3>3, <3>4
  <2> QED
    BY <1>1, <1>4, <2>4
<1> QED
  BY <1>3, <1>5, <1>6

(* The rows but the one at f, in their order.                              *)
Others(kids, f) ==
  [j \in 1 .. Len(kids) - 1 |-> IF j < f THEN kids[j] ELSE kids[j + 1]]

(* They are what taking that one out leaves.                               *)
LEMMA RemoveAtIs ==
  ASSUME NEW kids \in Rows, NEW f \in DOMAIN kids
  PROVE  /\ RemoveAt(kids, f) = Others(kids, f) /\ Others(kids, f) \in Rows
         /\ Len(Others(kids, f)) = Len(kids) - 1
<1> DEFINE n == Len(kids)
<1>1. n \in Nat /\ DOMAIN kids = 1 .. n /\ f \in 1 .. n /\ n - 1 \in Nat
      /\ \A i \in 1 .. n : kids[i] \in Items
  BY DEF Rows
<1>2. Others(kids, f) \in Rows /\ Len(Others(kids, f)) = n - 1
  <2>1. Others(kids, f) \in [1 .. n - 1 -> Items]
    BY <1>1 DEF Others
  <2> HIDE DEF n
  <2>2. \A m \in Nat : \A g \in [1 .. m -> Items] : g \in Seq(Items) /\ Len(g) = m
    OBVIOUS
  <2> QED
    BY <1>1, <2>1, <2>2 DEF Rows
<1>3. RemoveAt(kids, f) = Others(kids, f)
  <2> DEFINE a == SubSeq(kids, 1, f - 1)
             b == SubSeq(kids, f + 1, n)
  <2>1. a \in Rows /\ Len(a) = f - 1 /\ \A j \in 1 .. f - 1 : a[j] = kids[j]
    BY <1>1 DEF Rows
  <2>2. b \in Rows /\ Len(b) = n - f /\ \A j \in 1 .. n - f : b[j] = kids[f + j]
    BY <1>1 DEF Rows
  <2>3. RemoveAt(kids, f) = a \o b
    BY DEF RemoveAt
  <2> HIDE DEF a, b, n
  <2>4. a \o b \in Rows /\ Len(a \o b) = n - 1
    <3>1. a \o b \in Seq(Items) /\ Len(a \o b) = Len(a) + Len(b)
      BY <2>1, <2>2, ConcatProperties DEF Rows
    <3>2. (f - 1) + (n - f) = n - 1
      BY <1>1
    <3> QED
      BY <2>1, <2>2, <3>1, <3>2 DEF Rows
  <2>5. ASSUME NEW j \in 1 .. n - 1
        PROVE  (a \o b)[j] = Others(kids, f)[j]
    <3>1. Others(kids, f)[j] = IF j < f THEN kids[j] ELSE kids[j + 1]
      BY <2>5 DEF Others, n
    <3>2. CASE j < f
      BY <1>1, <2>1, <2>2, <3>1, <3>2 DEF Rows
    <3>3. CASE ~(j < f)
      <4>1. j - (f - 1) \in 1 .. n - f /\ f + (j - (f - 1)) = j + 1
        BY <1>1, <3>3
      <4>2. (a \o b)[j] = b[j - (f - 1)]
        BY <1>1, <2>1, <2>2, <3>3 DEF Rows
      <4> QED
        BY <2>2, <3>1, <3>3, <4>1, <4>2
    <3> QED
      BY <3>2, <3>3
  <2>6. \A x, y \in Seq(Items) : Len(x) = Len(y) /\ (\A j \in 1 .. Len(x) : x[j] = y[j]) => x = y
    BY SeqEqual
  <2> QED
    BY <1>2, <2>3, <2>4, <2>5, <2>6 DEF Rows
<1> QED
  BY <1>2, <1>3

(* A row put in at t, the others in their order.                           *)
LEMMA InsertAtIs ==
  ASSUME NEW kids \in Rows, NEW t \in 1 .. Len(kids) + 1, NEW e \in Items
  PROVE  LET put == InsertAt(kids, t, e)
         IN /\ put \in Rows /\ Len(put) = Len(kids) + 1
            /\ \A j \in 1 .. Len(kids) + 1 :
                 put[j] = IF j < t THEN kids[j] ELSE IF j = t THEN e ELSE kids[j - 1]
<1> DEFINE n == Len(kids)
           a == SubSeq(kids, 1, t - 1)
           b == SubSeq(kids, t, n)
           put == (a \o <<e>>) \o b
<1>1. n \in Nat /\ t \in 1 .. n + 1 /\ \A i \in 1 .. n : kids[i] \in Items
  BY DEF Rows
<1>2. a \in Rows /\ Len(a) = t - 1 /\ \A j \in 1 .. t - 1 : a[j] = kids[j]
  BY <1>1 DEF Rows
<1>3. b \in Rows /\ Len(b) = n - t + 1 /\ \A j \in 1 .. n - t + 1 : b[j] = kids[t + j - 1]
  BY <1>1 DEF Rows
<1>4. InsertAt(kids, t, e) = put
  BY DEF InsertAt
<1> HIDE DEF a, b, n
<1> DEFINE ae == a \o <<e>>
<1>5. ae \in Rows /\ Len(ae) = t /\ ae[t] = e /\ \A j \in 1 .. t - 1 : ae[j] = kids[j]
  <2>1. ae = Append(a, e)
    BY <1>2, AppendIsConcat DEF Rows
  <2> HIDE DEF ae
  <2> QED
    BY <1>1, <1>2, <2>1 DEF Rows
<1> HIDE DEF ae
<1>6. put = ae \o b
  BY DEF ae
<1> HIDE DEF put
<1>7. put \in Rows /\ Len(put) = n + 1
  <2>1. put \in Seq(Items) /\ Len(put) = Len(ae) + Len(b)
    BY <1>3, <1>5, <1>6, ConcatProperties DEF Rows
  <2>2. t + (n - t + 1) = n + 1
    BY <1>1
  <2> QED
    BY <1>3, <1>5, <2>1, <2>2 DEF Rows
<1>8. ASSUME NEW j \in 1 .. n + 1
      PROVE  put[j] = IF j < t THEN kids[j] ELSE IF j = t THEN e ELSE kids[j - 1]
  <2>1. CASE j <= t
    <3>1. put[j] = ae[j]
      BY <1>1, <1>3, <1>5, <1>6, <2>1 DEF Rows
    <3> QED
      BY <1>1, <1>5, <2>1, <3>1
  <2>2. CASE j > t
    <3>1. put[j] = b[j - t] /\ j - t \in 1 .. n - t + 1 /\ t + (j - t) - 1 = j - 1
      BY <1>1, <1>3, <1>5, <1>6, <2>2 DEF Rows
    <3> QED
      BY <1>1, <1>3, <2>2, <3>1
  <2> QED
    BY <1>1, <2>1, <2>2
<1> QED
  BY <1>4, <1>7, <1>8 DEF n

(* Rows that differ stay so when one is taken out.                         *)
LEMMA OthersApart ==
  ASSUME NEW kids \in Rows, IsInjective(kids), NEW f \in DOMAIN kids
  PROVE  /\ IsInjective(Others(kids, f))
         /\ \A j \in DOMAIN Others(kids, f) : Others(kids, f)[j] # kids[f]
<1> DEFINE n == Len(kids)
           Old(j) == IF j < f THEN j ELSE j + 1
<1>1. n \in Nat /\ DOMAIN kids = 1 .. n /\ f \in 1 .. n
  BY DEF Rows
<1>2. DOMAIN Others(kids, f) = 1 .. n - 1
  BY DEF Others
<1>3. \A j \in 1 .. n - 1 : Others(kids, f)[j] = kids[Old(j)] /\ Old(j) \in 1 .. n /\ Old(j) # f
  BY <1>1 DEF Others
<1>4. \A i, j \in 1 .. n - 1 : Old(i) = Old(j) => i = j
  BY <1>1
<1>5. \A i, j \in 1 .. n : kids[i] = kids[j] => i = j
  BY <1>1 DEF IsInjective
<1> HIDE DEF Old, n
<1> QED
  BY <1>1, <1>2, <1>3, <1>4, <1>5 DEF IsInjective

(* A child moved: the others keep their order, and none is there twice.    *)
LEMMA MovedToIs ==
  ASSUME NEW kids \in Rows, IsInjective(kids),
         NEW f \in DOMAIN kids, NEW t \in DOMAIN kids
  PROVE  LET after == MovedTo(kids, f - 1, t - 1)
         IN /\ after \in Rows /\ Len(after) = Len(kids) /\ IsInjective(after)
            /\ after[t] = kids[f] /\ Others(after, t) = Others(kids, f)
            /\ \A j \in 1 .. t - 1 : after[j] = IF j < f THEN kids[j] ELSE kids[j + 1]
<1> DEFINE n == Len(kids)
           r == Others(kids, f)
           after == InsertAt(r, t, kids[f])
<1>1. n \in Nat /\ DOMAIN kids = 1 .. n /\ f \in 1 .. n /\ t \in 1 .. n /\ kids[f] \in Items
  BY DEF Rows
<1>2. r \in Rows /\ Len(r) = n - 1 /\ RemoveAt(kids, f) = r /\ DOMAIN r = 1 .. n - 1
  BY RemoveAtIs DEF Rows
<1>3. MovedTo(kids, f - 1, t - 1) = after
  <2>1. (f - 1) + 1 = f /\ (t - 1) + 1 = t
    BY <1>1
  <2> QED
    BY <1>2, <2>1 DEF MovedTo
<1>4. \A j \in 1 .. t - 1 : r[j] = IF j < f THEN kids[j] ELSE kids[j + 1]
  BY <1>1 DEF Others
<1>5. IsInjective(r) /\ \A j \in 1 .. n - 1 : r[j] # kids[f]
  BY <1>2, OthersApart
<1> HIDE DEF r
<1>6. /\ after \in Rows /\ Len(after) = n
      /\ \A j \in 1 .. n : after[j] = IF j < t THEN r[j] ELSE IF j = t THEN kids[f] ELSE r[j - 1]
  <2>1. t \in 1 .. Len(r) + 1 /\ Len(r) + 1 = n
    BY <1>1, <1>2
  <2> QED
    BY <1>1, <1>2, <2>1, InsertAtIs
<1> HIDE DEF after, n
<1>7. IsInjective(after)
  <2>1. DOMAIN after = 1 .. n
    BY <1>6 DEF Rows
  <2>2. \A i, j \in 1 .. n - 1 : r[i] = r[j] => i = j
    BY <1>2, <1>5 DEF IsInjective
  <2>3. ASSUME NEW i \in 1 .. n, NEW j \in 1 .. n, after[i] = after[j]
        PROVE  i = j
    <3> DEFINE Old(k) == IF k < t THEN k ELSE k - 1
    <3>1. \A k \in 1 .. n : k # t => after[k] = r[Old(k)] /\ Old(k) \in 1 .. n - 1
      BY <1>1, <1>6
    <3>2. after[t] = kids[f]
      BY <1>1, <1>6
    <3>3. (i = t) = (j = t)
      BY <1>5, <2>3, <3>1, <3>2
    <3>4. i # t /\ j # t /\ Old(i) = Old(j) => i = j
      BY <1>1
    <3> HIDE DEF Old
    <3> QED
      BY <2>2, <2>3, <3>1, <3>3, <3>4
  <2> QED
    BY <2>1, <2>3 DEF IsInjective
<1>8. Others(after, t) = r
  <2>1. \A j \in 1 .. n - 1 : r[j] = IF j < t THEN after[j] ELSE after[j + 1]
    BY <1>1, <1>6
  <2>2. r = [j \in 1 .. n - 1 |-> r[j]]
    BY <1>2 DEF Rows
  <2> QED
    BY <1>6, <2>1, <2>2 DEF Others
<1>9. after[t] = kids[f] /\ \A j \in 1 .. t - 1 : after[j] = r[j]
  BY <1>1, <1>6
<1> QED
  BY <1>3, <1>4, <1>6, <1>7, <1>8, <1>9 DEF after, r, n

(* What is left of rows without one of them is the others, in their order. *)
LEMMA WithoutIs ==
  ASSUME NEW kids \in Rows, IsInjective(kids), NEW f \in DOMAIN kids
  PROVE  Without(kids, kids[f]) = Others(kids, f)
<1> DEFINE n == Len(kids)
           K == {i \in DOMAIN kids : kids[i] # kids[f]}
           Part(m) == [j \in 1 .. IF m < f THEN m ELSE m - 1 |->
                         IF j < f THEN kids[j] ELSE kids[j + 1]]
<1>1. n \in Nat /\ DOMAIN kids = 1 .. n /\ f \in 1 .. n /\ \A i \in 1 .. n : kids[i] \in Items
  BY DEF Rows
<1>2. \A i \in 1 .. n : i \in K <=> i # f
  BY <1>1 DEF IsInjective
<1>3. PICK g : TurnsTo(Items, kids, K, n, g) /\ Kept(kids, K) = g[n]
  BY KeptTurns DEF Rows
<1> HIDE DEF K, n
<1>4. /\ g[0] = <<>> /\ \A i \in 0 .. n : g[i] \in Seq(Items)
      /\ \A i \in 1 .. n : g[i] = IF i # f THEN Append(g[i - 1], kids[i]) ELSE g[i - 1]
  <2>1. \A i \in 0 .. n : g[i] = Turn(kids, K, g, i) /\ g[i] \in Seq(Items)
    BY <1>3 DEF TurnsTo
  <2>2. \A i \in 1 .. n : i \in 0 .. n /\ i # 0
    BY <1>1
  <2>3. g[0] = <<>>
    BY <1>1, <2>1 DEF Turn
  <2>4. ASSUME NEW i \in 1 .. n
        PROVE  g[i] = IF i # f THEN Append(g[i - 1], kids[i]) ELSE g[i - 1]
    BY <1>2, <2>1, <2>2 DEF Turn
  <2> QED
    BY <2>1, <2>3, <2>4
<1> DEFINE Right == {m \in 0 .. n : g[m] = Part(m)}
<1>5. 0 \in Right
  <2>1. Part(0) = <<>>
    BY <1>1
  <2> QED
    BY <1>1, <1>4, <2>1
<1>6. ASSUME NEW m \in 1 .. n, m - 1 \in Right
      PROVE  m \in Right
  <2>1. g[m - 1] = Part(m - 1) /\ m \in 0 .. n
    BY <1>6
  <2>2. CASE m = f
    <3>1. Part(m) = Part(m - 1)
      BY <1>1, <2>2
    <3> QED
      BY <1>4, <2>1, <2>2, <3>1
  <2>3. CASE m # f
    <3> DEFINE l == IF m < f THEN m - 1 ELSE m - 2
               p == Part(m - 1)
    <3>1. /\ l \in Nat /\ p = [j \in 1 .. l |-> IF j < f THEN kids[j] ELSE kids[j + 1]]
          /\ Part(m) = [j \in 1 .. l + 1 |-> IF j < f THEN kids[j] ELSE kids[j + 1]]
          /\ kids[m] = IF l + 1 < f THEN kids[l + 1] ELSE kids[(l + 1) + 1]
      BY <1>1, <2>3
    <3>2. p \in Seq(Items) /\ g[m] = Append(p, kids[m])
      <4>1. m - 1 \in 0 .. n
        BY <1>1
      <4> QED
        BY <1>4, <2>1, <2>3, <4>1
    <3> HIDE DEF Part, l, p
    <3>3. Len(p) = l
      BY <3>1, <3>2
    <3>4. Append(p, kids[m]) = [j \in 1 .. l + 1 |-> IF j < f THEN kids[j] ELSE kids[j + 1]]
      <4>1. Append(p, kids[m]) = [j \in 1 .. l + 1 |-> IF j = l + 1 THEN kids[m] ELSE p[j]]
        BY <3>1, <3>2, <3>3
      <4>2. ASSUME NEW j \in 1 .. l + 1
            PROVE  (IF j = l + 1 THEN kids[m] ELSE p[j]) = IF j < f THEN kids[j] ELSE kids[j + 1]
        <5>1. j # l + 1 => j \in 1 .. l
          BY <3>1
        <5> QED
          BY <3>1, <5>1
      <4> QED
        BY <4>1, <4>2
    <3> QED
      BY <2>1, <3>1, <3>2, <3>4
  <2> QED
    BY <2>2, <2>3
<1> HIDE DEF Right
<1>7. \A m \in 0 .. n : m \in Right
  BY <1>1, <1>5, <1>6, Climb
<1>8. g[n] = Part(n)
  BY <1>1, <1>7 DEF Right
<1>9. Part(n) = Others(kids, f)
  <2>1. (IF n < f THEN n ELSE n - 1) = n - 1
    BY <1>1
  <2>2. Part(n) = [j \in 1 .. n - 1 |-> IF j < f THEN kids[j] ELSE kids[j + 1]]
    BY <2>1
  <2> QED
    BY <2>2 DEF Others, n
<1> QED
  BY <1>3, <1>8, <1>9 DEF Without, K

(* The index a gap comes to: the gaps on both sides of a child are its own.*)
LEMMA ReorderTargetIs ==
  ASSUME NEW n \in Nat \ {0}, NEW from \in 0 .. n - 1, NEW gap \in 0 .. n
  PROVE  /\ ReorderTarget(from, gap, n) = IF gap > from THEN gap - 1 ELSE gap
         /\ ReorderTarget(from, gap, n) \in 0 .. n - 1
BY DEF ReorderTarget

(* What is above the child that was moved: what was above the gap.         *)
LEMMA AboveIs ==
  ASSUME NEW kids \in Rows, IsInjective(kids), NEW from \in Nat, from + 1 \in DOMAIN kids,
         NEW gap \in 0 .. Len(kids)
  PROVE  LET to == ReorderTarget(from, gap, Len(kids))
         IN Above(MovedTo(kids, from, to), kids[from + 1])
              = {kids[i] : i \in 1 .. gap} \ {kids[from + 1]}
<1> DEFINE n == Len(kids)
           to == ReorderTarget(from, gap, n)
           f == from + 1
           t == to + 1
           after == MovedTo(kids, from, to)
           item == kids[f]
<1>1. n \in Nat /\ n # 0 /\ DOMAIN kids = 1 .. n /\ f \in 1 .. n /\ from \in 0 .. n - 1
  BY DEF Rows
<1>2. to = (IF gap > from THEN gap - 1 ELSE gap) /\ to \in 0 .. n - 1 /\ t \in 1 .. n
  <2> HIDE DEF n
  <2>1. gap \in 0 .. n /\ n \in Nat \ {0}
    BY <1>1 DEF n
  <2>2. to = (IF gap > from THEN gap - 1 ELSE gap) /\ to \in 0 .. n - 1
    BY <1>1, <2>1, ReorderTargetIs
  <2> HIDE DEF to
  <2> QED
    BY <1>1, <2>2
<1> HIDE DEF n, to
<1>3. from = f - 1 /\ to = t - 1
  BY <1>1, <1>2
<1>4. /\ after \in Rows /\ Len(after) = n /\ IsInjective(after) /\ after[t] = item
      /\ \A j \in 1 .. t - 1 : after[j] = IF j < f THEN kids[j] ELSE kids[j + 1]
  <2>1. MovedTo(kids, f - 1, t - 1) = after
    BY <1>3
  <2> HIDE DEF after, f, t
  <2>2. f \in DOMAIN kids /\ t \in DOMAIN kids
    BY <1>1, <1>2
  <2> QED
    BY <2>1, <2>2, MovedToIs DEF n
<1> HIDE DEF after, item, t
<1>5. DOMAIN after = 1 .. n /\ t \in DOMAIN after
  BY <1>2, <1>4 DEF Rows
<1>6. (CHOOSE i \in DOMAIN after : after[i] = item) = t
  BY <1>4, <1>5 DEF IsInjective
<1>7. Above(after, item) = {after[j] : j \in 1 .. t} \ {item}
  BY <1>6 DEF Above
<1>8. \A i \in 1 .. n : kids[i] = item => i = f
  BY <1>1 DEF IsInjective, item
<1>9. ASSUME NEW j \in 1 .. t, after[j] # item
      PROVE  \E i \in 1 .. gap : kids[i] = after[j]
  <2>1. j \in 1 .. t - 1
    BY <1>2, <1>4, <1>5, <1>9
  <2>2. j < f => j \in 1 .. gap
    BY <1>1, <1>2, <1>3, <2>1
  <2>3. ~(j < f) => j + 1 \in 1 .. gap
    BY <1>1, <1>2, <1>3, <2>1
  <2> QED
    BY <1>4, <2>1, <2>2, <2>3
<1>10. ASSUME NEW i \in 1 .. gap, kids[i] # item
       PROVE  \E j \in 1 .. t : after[j] = kids[i]
  <2>1. i # f /\ gap \in 0 .. n
    BY <1>10 DEF item, n
  <2>2. CASE i < f
    <3>1. i \in 1 .. t - 1 /\ i \in 1 .. t
      BY <1>1, <1>2, <1>3, <2>1, <2>2
    <3> QED
      BY <1>4, <2>2, <3>1
  <2>3. CASE i > f
    <3>1. i - 1 \in 1 .. t - 1 /\ i - 1 \in 1 .. t /\ ~(i - 1 < f) /\ (i - 1) + 1 = i
      BY <1>1, <1>2, <1>3, <2>1, <2>3
    <3> QED
      BY <1>4, <3>1
  <2> QED
    BY <1>1, <2>1, <2>2, <2>3
<1>11. {after[j] : j \in 1 .. t} \ {item} = {kids[i] : i \in 1 .. gap} \ {item}
  BY <1>9, <1>10
<1> QED
  BY <1>7, <1>11 DEF after, item, to, n

(* A step that changes the stacks and the last drop, if anything, and both *)
(* are as they should be.                                                  *)
Settles(s, u, on) ==
  \E kids \in [{1, 2} -> Rows] : \E last \in {NoDrop} \cup DropRecord :
    /\ u = [s EXCEPT !.kids = kids, !.last = last]
    /\ \A k \in {1, 2} : IsInjective(kids[k])
    /\ last.moved => Dropped(kids, last, on)

(* A drop that moves anything is what it should be.                        *)
LEMMA DeliverIs ==
  ASSUME NEW on, NEW s \in DragState(on), \A k \in {1, 2} : IsInjective(s.kids[k]),
         s.last.moved => Dropped(s.kids, s.last, on),
         NEW stack, NEW from, IsPressed(s, stack, from),
         s.at[1] # stack => on = "win32"
  PROVE  Settles(s, Deliver(s, stack, from, GapAt(s.kids[stack], s.at[2])), on)
<1> DEFINE kids == s.kids[stack]
           p == s.at[2]
           n == Len(kids)
           gap == GapAt(kids, p)
           to == ReorderTarget(from, gap, n)
           u == Deliver(s, stack, from, gap)
<1>1. kids \in Rows /\ stack \in {1, 2} /\ IsInjective(kids) /\ p \in Int
  BY DEF DragState, IsPressed
<1>2. n \in Nat /\ DOMAIN kids = 1 .. n
  BY <1>1 DEF Rows
<1>3. gap \in 0 .. n
  BY <1>1, GapAtIs
<1>4. (IF gap > n THEN n ELSE gap) = gap
  BY <1>2, <1>3
<1>5. u = IF from < 0 \/ from >= n \/ to = from THEN s
          ELSE [s EXCEPT !.kids[stack] = MovedTo(kids, from, to),
                         !.last = [moved |-> TRUE, stack |-> stack, at |-> s.at, item |-> s.item,
                                   rebuilt |-> s.rebuilt, before |-> kids, gap |-> gap]]
  BY <1>4 DEF Deliver
<1> HIDE DEF u
<1>6. CASE from < 0 \/ from >= n \/ to = from
  <2>1. u = [s EXCEPT !.kids = s.kids, !.last = s.last]
    BY <1>5, <1>6 DEF DragState
  <2> QED
    BY <2>1 DEF DragState, u, Settles
<1>7. CASE ~(from < 0) /\ ~(from >= n) /\ to # from
  <2> DEFINE after == MovedTo(kids, from, to)
             all == [s.kids EXCEPT ![stack] = after]
             last == [moved |-> TRUE, stack |-> stack, at |-> s.at, item |-> s.item,
                      rebuilt |-> s.rebuilt, before |-> kids, gap |-> gap]
  <2>1. /\ n \in Nat \ {0} /\ from \in 0 .. n - 1 /\ from + 1 \in DOMAIN kids
        /\ (from + 1) - 1 = from
    BY <1>2, <1>7 DEF IsPressed
  <2> HIDE DEF gap, n, kids
  <2>3. to = (IF gap > from THEN gap - 1 ELSE gap) /\ to \in 0 .. n - 1
    BY <1>3, <2>1, ReorderTargetIs
  <2> HIDE DEF to
  <2>2. to \in 0 .. n - 1 /\ to + 1 \in DOMAIN kids /\ (to + 1) - 1 = to
    BY <1>2, <2>1, <2>3
  <2>4. /\ after \in Rows /\ IsInjective(after) /\ Len(after) = n
        /\ after[to + 1] = kids[from + 1] /\ Others(after, to + 1) = Others(kids, from + 1)
    <3>1. MovedTo(kids, (from + 1) - 1, (to + 1) - 1) = after
      BY <2>1, <2>2
    <3> DEFINE f == from + 1
               t == to + 1
    <3> HIDE DEF after, f, t
    <3>2. MovedTo(kids, f - 1, t - 1) = after /\ f \in DOMAIN kids /\ t \in DOMAIN kids
      BY <2>1, <2>2, <3>1 DEF f, t
    <3>3. /\ after \in Rows /\ IsInjective(after) /\ Len(after) = n
          /\ after[t] = kids[f] /\ Others(after, t) = Others(kids, f)
      BY <1>1, <3>2, MovedToIs DEF n
    <3> QED
      BY <3>3 DEF f, t
  <2>5. Above(after, kids[from + 1]) = {kids[i] : i \in 1 .. gap} \ {kids[from + 1]}
    BY <1>1, <1>3, <2>1, AboveIs DEF n, to
  <2>6. Without(after, kids[from + 1]) = Without(kids, kids[from + 1])
    <3>1. Without(kids, kids[from + 1]) = Others(kids, from + 1)
      BY <1>1, <2>1, WithoutIs
    <3>2. to + 1 \in DOMAIN after
      BY <1>2, <2>2, <2>4 DEF Rows
    <3>3. Without(after, after[to + 1]) = Others(after, to + 1)
      BY <2>4, <3>2, WithoutIs
    <3> QED
      BY <2>4, <3>1, <3>3
  <2>7. ASSUME NEW i \in {ChildAt(kids, p)} \ {-1}
        PROVE  kids[i + 1] # kids[from + 1]
    <3>1. PICK c \in DOMAIN kids :
            i = c - 1 /\ p >= Top(kids, c) /\ p < Top(kids, c) + Long[kids[c]]
      BY <1>1, ChildAtIs
    <3>2. gap \in {c - 1, c}
      BY <1>1, <3>1, GapAtIs DEF gap
    <3>3. i + 1 = c
      BY <1>2, <3>1
    <3>4. c # from + 1
      BY <1>2, <1>7, <2>1, <2>3, <3>2
    <3> QED
      BY <1>1, <2>1, <3>3, <3>4 DEF IsInjective
  <2> HIDE DEF after
  <2>8. u = [s EXCEPT !.kids = all, !.last = last]
    BY <1>5, <1>7, <2>1 DEF after, all, kids, n, to, gap, DragState
  <2>9. all \in [{1, 2} -> Rows] /\ \A k \in {1, 2} : IsInjective(all[k])
    BY <1>1, <2>4 DEF all, DragState
  <2>10. last \in DropRecord
    BY <1>1, <1>2, <1>3 DEF DropRecord, DragState, last
  <2>11. all[stack] = after
    BY <1>1 DEF DragState, all
  <2>12. ~s.rebuilt => kids[from + 1] = s.item
    BY DEF IsPressed, kids
  <2> HIDE DEF all
  <2>13. Dropped(all, last, on)
    BY <2>5, <2>6, <2>7, <2>11, <2>12 DEF Dropped, p
  <2> QED
    BY <2>8, <2>9, <2>10, <2>13 DEF u, gap, kids, Settles
<1> QED
  BY <1>6, <1>7

(* A child is where it was pressed.                                        *)
LEMMA ChildOf ==
  ASSUME NEW on, NEW s \in DragState(on), NEW stack \in {1, 2}, NEW p
  PROVE  /\ ChildAt(s.kids[stack], p) \in Int
         /\ ChildAt(s.kids[stack], p) # -1 =>
              /\ ChildAt(s.kids[stack], p) + 1 \in DOMAIN s.kids[stack]
              /\ s.kids[stack][ChildAt(s.kids[stack], p) + 1] \in Items
<1> DEFINE kids == s.kids[stack]
<1>1. kids \in Rows
  BY DEF DragState
<1>2. DOMAIN kids \subseteq Int /\ \A c \in DOMAIN kids : c \in Int /\ kids[c] \in Items /\ (c - 1) + 1 = c
  BY <1>1 DEF Rows
<1>3. ChildAt(kids, p) = -1 \/ \E c \in DOMAIN kids : ChildAt(kids, p) = c - 1
  BY <1>1, ChildAtIs
<1> HIDE DEF kids
<1>4. /\ ChildAt(kids, p) \in Int
      /\ ChildAt(kids, p) # -1 =>
           ChildAt(kids, p) + 1 \in DOMAIN kids /\ kids[ChildAt(kids, p) + 1] \in Items
  BY <1>2, <1>3
<1> QED
  BY <1>4 DEF kids

(* A press in a stack.                                                     *)
LEMMA PressKeeps ==
  ASSUME NEW on \in {"gtk", "win32", "android"}, NEW s, ReorderInv(s, on), s.held = "no",
         NEW stack \in {1, 2}, NEW p \in Int, ChildAt(s.kids[stack], p) # -1
  PROVE  ReorderInv(Press(s, stack, p), on)
<1> DEFINE from == ChildAt(s.kids[stack], p)
           item == s.kids[stack][from + 1]
           begun == IF on = "android" THEN "drag" ELSE "pressed"
           src == IF on = "gtk" THEN s.src ELSE [stack |-> stack, from |-> from]
           u == [s EXCEPT !.held = begun, !.at = <<stack, p>>, !.rebuilt = FALSE, !.last = NoDrop,
                          !.item = item, !.src = src]
<1>1. s \in DragState(on) /\ s.on = on /\ s.bar = 0 /\ (on # "android" => s.src = NoSource)
  BY DEF ReorderInv, DragState
<1>2. from \in Int /\ from + 1 \in DOMAIN s.kids[stack] /\ item \in Items
  BY <1>1, ChildOf
<1>3. Press(s, stack, p) = u
  BY <1>1 DEF Press, GtkPress, Win32Press, AndroidPress, PressIn, Source, DragState
<1> HIDE DEF from
<1>4. src \in [stack : {0, 1, 2}, from : Int]
  BY <1>1, <1>2 DEF DragState
<1> HIDE DEF src, item
<1>5. u \in DragState(on)
  <2>1. begun \in {"no", "pressed", "drag"} /\ <<stack, p>> \in {0, 1, 2} \X Int
    OBVIOUS
  <2> HIDE DEF begun
  <2> QED
    BY <1>1, <1>2, <1>4, <2>1 DEF DragState
<1>6. /\ u.kids = s.kids /\ u.held = begun /\ u.src = src /\ u.at[1] = stack /\ u.at[2] = p
      /\ u.bar = 0 /\ u.item = item /\ ~u.rebuilt /\ u.last = NoDrop
  BY <1>1 DEF DragState
<1> HIDE DEF u
<1>7. IsPressed(u, stack, from)
  BY <1>2, <1>6 DEF IsPressed, item
<1>8. on # "gtk" => src.stack = stack /\ src.from = from
  BY DEF src
<1>9. on = "gtk" => src = NoSource
  BY <1>1 DEF src
<1>10. ~u.last.moved
  BY <1>6 DEF NoDrop
<1>11. ReorderInv(u, on)
  <2>1. \A k \in {1, 2} : IsInjective(u.kids[k])
    BY <1>6 DEF ReorderInv
  <2>2. ChildAt(u.kids[u.at[1]], u.at[2]) = from
    BY <1>6 DEF from
  <2> QED
    BY <1>5, <1>6, <1>7, <1>8, <1>9, <1>10, <2>1, <2>2 DEF ReorderInv
<1> QED
  BY <1>3, <1>11

(* Its first move, and its being let go before that.                       *)
LEMMA DragBeginsKeeps ==
  ASSUME NEW on \in {"gtk", "win32", "android"}, NEW s, ReorderInv(s, on), s.held = "pressed"
  PROVE  ReorderInv(DragBegins(s), on) /\ ReorderInv(Clicked(s), on)
<1>1. /\ s \in DragState(on) /\ s.on = on /\ s.bar = 0 /\ on # "android"
      /\ \A k \in {1, 2} : IsInjective(s.kids[k])
      /\ s.last.moved => Dropped(s.kids, s.last, on)
      /\ on = "win32" => IsPressed(s, s.src.stack, s.src.from)
      /\ on = "gtk" => s.src = NoSource /\ IsPressed(s, s.at[1], ChildAt(s.kids[s.at[1]], s.at[2]))
  BY DEF ReorderInv, DragState
<1>2. ReorderInv(Clicked(s), on)
  <2> DEFINE u == Clicked(s)
  <2>1. /\ u \in DragState(on) /\ u.kids = s.kids /\ u.held = "no" /\ u.src = NoSource /\ u.bar = 0
        /\ u.last = s.last
    <3>1. NoSource \in [stack : {0, 1, 2}, from : Int]
      BY DEF NoSource
    <3> QED
      BY <1>1, <3>1 DEF Clicked, DragState
  <2> HIDE DEF u
  <2> QED
    BY <1>1, <2>1 DEF ReorderInv, u
<1>3. CASE on = "gtk"
  <2> DEFINE src == Source(s, s.at[1], s.at[2])
             from == ChildAt(s.kids[s.at[1]], s.at[2])
             u == DragBegins(s)
  <2>1. src = [stack |-> s.at[1], from |-> from] /\ s.at[1] \in {1, 2} /\ from \in Int
    BY <1>1, <1>3 DEF Source, IsPressed
  <2>2. u = IF src.from = -1 THEN [s EXCEPT !.held = "no"] ELSE [s EXCEPT !.held = "drag", !.src = src]
    BY <1>1, <1>3 DEF DragBegins, GtkDragBegins
  <2>3. IsPressed(s, src.stack, src.from)
    BY <1>1, <1>3, <2>1
  <2> HIDE DEF from
  <2>4. src \in [stack : {0, 1, 2}, from : Int]
    BY <2>1
  <2> SUFFICES ReorderInv(u, on)
    BY <1>2
  <2> HIDE DEF src, u
  <2>5. CASE src.from = -1
    <3>1. /\ u \in DragState(on) /\ u.kids = s.kids /\ u.held = "no" /\ u.src = s.src /\ u.bar = 0
          /\ u.last = s.last
      BY <1>1, <2>2, <2>5 DEF DragState
    <3> QED
      BY <1>1, <1>3, <3>1 DEF ReorderInv
  <2>6. CASE src.from # -1
    <3>1. /\ u \in DragState(on) /\ u.kids = s.kids /\ u.held = "drag" /\ u.src = src /\ u.bar = 0
          /\ u.last = s.last /\ u.rebuilt = s.rebuilt /\ u.item = s.item
      BY <1>1, <2>2, <2>4, <2>6 DEF DragState
    <3>2. IsPressed(u, src.stack, src.from)
      BY <2>3, <3>1 DEF IsPressed
    <3> QED
      BY <1>1, <1>3, <3>1, <3>2 DEF ReorderInv
  <2> QED
    BY <2>5, <2>6
<1>4. CASE on = "win32"
  <2> DEFINE u == DragBegins(s)
  <2>1. /\ u \in DragState(on) /\ u.kids = s.kids /\ u.held = "drag" /\ u.src = s.src
        /\ u.bar = s.src.stack /\ u.last = s.last /\ u.rebuilt = s.rebuilt /\ u.item = s.item
    BY <1>1, <1>4 DEF DragBegins, Win32DragBegins, DragState
  <2> HIDE DEF u
  <2>2. IsPressed(u, u.src.stack, u.src.from)
    BY <1>1, <1>4, <2>1 DEF IsPressed
  <2> QED
    BY <1>1, <1>2, <1>4, <2>1, <2>2 DEF ReorderInv, u
<1> QED
  BY <1>1, <1>3, <1>4

(* The pointer somewhere else, in a drag.                                  *)
LEMMA OverKeeps ==
  ASSUME NEW on \in {"gtk", "win32", "android"}, NEW s, ReorderInv(s, on), s.held = "drag",
         NEW stack \in {0, 1, 2}, NEW p \in Int
  PROVE  ReorderInv(Over(s, stack, p), on)
<1> DEFINE u == Over(s, stack, p)
<1>1. /\ s \in DragState(on) /\ s.on = on
      /\ \A k \in {1, 2} : IsInjective(s.kids[k])
      /\ s.last.moved => Dropped(s.kids, s.last, on)
      /\ s.bar # 0 => s.bar = s.src.stack
      /\ IsPressed(s, s.src.stack, s.src.from)
  BY DEF ReorderInv, DragState
<1>2. /\ u \in DragState(on) /\ u.kids = s.kids /\ u.held = "drag" /\ u.src = s.src
      /\ u.bar # 0 => u.bar = u.src.stack
      /\ u.last = s.last /\ u.rebuilt = s.rebuilt /\ u.item = s.item
  <2> DEFINE bar == IF on = "win32" THEN s.bar ELSE IF stack = s.src.stack THEN stack ELSE 0
             at == <<stack, p>>
  <2>1. u = [s EXCEPT !.at = at, !.bar = bar]
    BY <1>1 DEF Over, DragState
  <2>2. bar \in {0, 1, 2} /\ (bar # 0 => bar = s.src.stack) /\ at \in {0, 1, 2} \X Int
    BY <1>1 DEF DragState
  <2> HIDE DEF bar, at, u
  <2> QED
    BY <1>1, <2>1, <2>2 DEF DragState
<1> HIDE DEF u
<1>3. IsPressed(u, u.src.stack, u.src.from)
  BY <1>1, <1>2 DEF IsPressed
<1> QED
  BY <1>1, <1>2, <1>3 DEF ReorderInv, u

(* A drag that is let go or cancelled, and what it moves.                  *)
LEMMA DeliveredKeeps ==
  ASSUME NEW on \in {"gtk", "win32", "android"}, NEW s, ReorderInv(s, on), s.held = "no",
         NEW stack, NEW from, IsPressed(s, stack, from), s.at[1] # stack => on = "win32"
  PROVE  ReorderInv(Deliver(s, stack, from, GapAt(s.kids[stack], s.at[2])), on)
<1> DEFINE u == Deliver(s, stack, from, GapAt(s.kids[stack], s.at[2]))
<1>1. /\ s \in DragState(on)
      /\ \A k \in {1, 2} : IsInjective(s.kids[k])
      /\ s.last.moved => Dropped(s.kids, s.last, on)
      /\ s.bar = 0 /\ (on # "android" => s.src = NoSource)
  BY DEF ReorderInv, DragState
<1>2. Settles(s, u, on)
  BY <1>1, DeliverIs
<1> HIDE DEF u
<1>3. PICK kids \in [{1, 2} -> Rows], last \in {NoDrop} \cup DropRecord :
        /\ u = [s EXCEPT !.kids = kids, !.last = last]
        /\ \A k \in {1, 2} : IsInjective(kids[k])
        /\ last.moved => Dropped(kids, last, on)
  BY <1>2 DEF Settles
<1>4. /\ u \in DragState(on) /\ u.kids = kids /\ u.held = "no" /\ u.src = s.src /\ u.bar = 0
      /\ u.last = last
  BY <1>1, <1>3 DEF DragState
<1>5. ReorderInv(u, on)
  BY <1>1, <1>3, <1>4 DEF ReorderInv
<1> QED
  BY <1>5 DEF u

(* However a drag ends.                                                    *)
LEMMA DropKeeps ==
  ASSUME NEW on \in {"gtk", "win32", "android"}, NEW s, ReorderInv(s, on), s.held = "drag"
  PROVE  ReorderInv(Drop(s), on) /\ ReorderInv(Cancelled(s), on)
<1> DEFINE e == Ended(s)
           stack == s.src.stack
           from == s.src.from
<1>1. /\ s \in DragState(on) /\ s.on = on
      /\ \A k \in {1, 2} : IsInjective(s.kids[k])
      /\ s.last.moved => Dropped(s.kids, s.last, on)
      /\ IsPressed(s, stack, from)
  BY DEF ReorderInv, DragState
<1>2. ASSUME NEW src \in [stack : {0, 1, 2}, from : Int], on # "android" => src = NoSource
      PROVE  ReorderInv([e EXCEPT !.src = src], on)
  <2> DEFINE u == [e EXCEPT !.src = src]
  <2>1. /\ u \in DragState(on) /\ u.kids = s.kids /\ u.held = "no" /\ u.src = src /\ u.bar = 0
        /\ u.last = s.last
    BY <1>1 DEF Ended, DragState, NoSource
  <2> HIDE DEF u
  <2>2. ReorderInv(u, on)
    BY <1>1, <1>2, <2>1 DEF ReorderInv
  <2> QED
    BY <2>2 DEF u
<1>3. /\ NoSource \in [stack : {0, 1, 2}, from : Int] /\ s.src \in [stack : {0, 1, 2}, from : Int]
      /\ e = [e EXCEPT !.src = NoSource]
  <2>1. NoSource \in [stack : {0, 1, 2}, from : Int]
    BY DEF NoSource
  <2> QED
    BY <1>1, <2>1 DEF Ended, DragState
<1>4. ReorderInv(e, on)
  BY <1>2, <1>3
<1>5. /\ e.kids = s.kids /\ e.at = s.at /\ e.held = "no" /\ e.rebuilt = s.rebuilt /\ e.item = s.item
  BY <1>1 DEF Ended, DragState
<1> HIDE DEF e
<1>6. IsPressed(e, stack, from)
  BY <1>1, <1>5 DEF IsPressed
<1>7. s.at[1] = stack \/ on = "win32" =>
        ReorderInv(Deliver(e, stack, from, GapAt(s.kids[stack], s.at[2])), on)
  BY <1>4, <1>5, <1>6, DeliveredKeeps
<1>8. ReorderInv(Drop(s), on)
  <2>1. CASE on = "gtk"
    BY <1>1, <1>4, <1>7, <2>1 DEF Drop, GtkDrop, e
  <2>2. CASE on = "win32"
    BY <1>1, <1>7, <2>2 DEF Drop, Win32Drop, e
  <2>3. CASE on = "android"
    BY <1>1, <1>2, <1>3, <1>7, <2>3 DEF Drop, AndroidDrop, e
  <2> QED
    BY <2>1, <2>2, <2>3
<1>9. ReorderInv(Cancelled(s), on)
  BY <1>1, <1>2, <1>3, <1>4 DEF Cancelled, e
<1> QED
  BY <1>8, <1>9

(* The driver's drag.                                                      *)
LEMMA FireKeeps ==
  ASSUME NEW on \in {"gtk", "win32", "android"}, NEW s, ReorderInv(s, on), s.held = "no",
         NEW stack \in {1, 2}, NEW item \in Range(s.kids[stack]), NEW p \in Int
  PROVE  ReorderInv(FireReorderDrag(s, stack, item, p), on)
<1> DEFINE kids == s.kids[stack]
           at == CHOOSE i \in DOMAIN kids : kids[i] = item
           u == [s EXCEPT !.last = NoDrop, !.item = item, !.rebuilt = FALSE, !.at = <<stack, p>>]
<1>1. /\ s \in DragState(on) /\ s.bar = 0 /\ (on # "android" => s.src = NoSource)
      /\ \A k \in {1, 2} : IsInjective(s.kids[k]) /\ s.kids[k] \in Rows
  BY DEF ReorderInv, DragState
<1>2. at \in DOMAIN kids /\ kids[at] = item
  BY DEF Range
<1>3. at \in Int /\ (at - 1) + 1 = at /\ item \in Items
  <2>1. kids \in Seq(Items)
    BY <1>1 DEF Rows
  <2> HIDE DEF at, kids
  <2> QED
    BY <1>2, <2>1
<1>4. /\ u \in DragState(on) /\ u.kids = s.kids /\ u.held = "no" /\ u.src = s.src /\ u.bar = 0
      /\ u.last = NoDrop /\ ~u.rebuilt /\ u.item = item /\ u.at[1] = stack /\ u.at[2] = p
  BY <1>1, <1>3 DEF DragState
<1>5. FireReorderDrag(s, stack, item, p) = Deliver(u, stack, at - 1, GapAt(u.kids[stack], u.at[2]))
  BY <1>4 DEF FireReorderDrag
<1> HIDE DEF u, at
<1>6. ReorderInv(u, on)
  BY <1>1, <1>4 DEF ReorderInv, NoDrop
<1>7. IsPressed(u, stack, at - 1)
  BY <1>2, <1>3, <1>4 DEF IsPressed
<1> QED
  BY <1>4, <1>5, <1>6, <1>7, DeliveredKeeps

(* The application makes a stack again, before, in or after a drag.        *)
LEMMA RebuiltKeeps ==
  ASSUME NEW on \in {"gtk", "win32", "android"}, NEW s, ReorderInv(s, on),
         NEW stack \in {1, 2}, NEW kids \in Rows, IsInjective(kids)
  PROVE  ReorderInv(Rebuilt(s, stack, kids), on)
<1> DEFINE mine == s.held # "no" /\ s.item \in Range(s.kids[stack])
           bar == IF s.bar = stack /\ on # "android" THEN 0 ELSE s.bar
           all == [s.kids EXCEPT ![stack] = kids]
           u == [s EXCEPT !.kids = all, !.last = NoDrop, !.rebuilt = s.rebuilt \/ mine, !.bar = bar]
<1>1. /\ s \in DragState(on) /\ s.on = on
      /\ \A k \in {1, 2} : IsInjective(s.kids[k])
      /\ s.bar # 0 => s.held = "drag" /\ s.bar = s.src.stack
  BY DEF ReorderInv, DragState
<1>2. Rebuilt(s, stack, kids) = u
  BY <1>1 DEF Rebuilt, DragState
<1>3. all \in [{1, 2} -> Rows] /\ \A k \in {1, 2} : IsInjective(all[k])
  BY <1>1 DEF DragState
<1>4. \A k \in {1, 2} : k # stack => all[k] = s.kids[k]
  BY <1>1 DEF DragState
<1>5. bar \in {0, 1, 2} /\ (bar # 0 => bar = s.bar)
  BY <1>1 DEF DragState
<1> HIDE DEF all, bar
<1>6. /\ u \in DragState(on) /\ u.kids = all /\ u.held = s.held /\ u.src = s.src /\ u.bar = bar
      /\ u.last = NoDrop /\ u.rebuilt = (s.rebuilt \/ mine) /\ u.item = s.item /\ u.at = s.at
  BY <1>1, <1>3, <1>5 DEF DragState
<1> HIDE DEF u
<1>7. ASSUME NEW k, NEW from, IsPressed(s, k, from), s.held # "no"
      PROVE  IsPressed(u, k, from)
  <2>1. CASE u.rebuilt
    BY <1>7, <2>1 DEF IsPressed
  <2>2. CASE ~u.rebuilt
    <3>1. k \in {1, 2} /\ from \in Int /\ from + 1 \in DOMAIN s.kids[k] /\ s.kids[k][from + 1] = s.item
      BY <1>6, <1>7, <2>2 DEF IsPressed
    <3>2. s.item \in Range(s.kids[k])
      BY <3>1 DEF Range
    <3>3. k # stack
      BY <1>6, <1>7, <2>2, <3>2
    <3> QED
      BY <1>4, <1>6, <3>1, <3>3 DEF IsPressed
  <2> QED
    BY <2>1, <2>2
<1>8. s.held = "pressed" /\ on = "gtk" =>
        IsPressed(u, u.at[1], ChildAt(u.kids[u.at[1]], u.at[2]))
  <2> SUFFICES ASSUME s.held = "pressed", on = "gtk"
               PROVE  IsPressed(u, u.at[1], ChildAt(u.kids[u.at[1]], u.at[2]))
    OBVIOUS
  <2> DEFINE k == s.at[1]
  <2>1. IsPressed(s, k, ChildAt(s.kids[k], s.at[2]))
    BY DEF ReorderInv
  <2>2. k \in {1, 2} /\ ChildAt(u.kids[k], u.at[2]) \in Int
    BY <1>6, <2>1, ChildOf DEF IsPressed
  <2>3. CASE u.rebuilt
    BY <1>6, <2>2, <2>3 DEF IsPressed
  <2>4. CASE ~u.rebuilt
    <3>1. IsPressed(u, k, ChildAt(s.kids[k], s.at[2]))
      BY <1>7, <2>1
    <3>2. k # stack
      <4>1. s.item \in Range(s.kids[k])
        BY <1>6, <2>1, <2>4 DEF IsPressed, Range
      <4> QED
        BY <1>6, <2>4, <4>1
    <3> QED
      BY <1>4, <1>6, <2>2, <3>1, <3>2
  <2> QED
    BY <2>3, <2>4
<1>9. s.held = "drag" \/ (s.held = "pressed" /\ on = "win32") =>
        IsPressed(u, u.src.stack, u.src.from)
  BY <1>6, <1>7 DEF ReorderInv
<1>10. ReorderInv(u, on)
  <2>1. ~u.last.moved
    BY <1>6 DEF NoDrop
  <2>2. /\ s.held = "pressed" => on # "android"
        /\ on # "android" /\ (s.held = "no" \/ (s.held = "pressed" /\ on = "gtk")) => s.src = NoSource
    BY DEF ReorderInv
  <2> QED
    BY <1>1, <1>3, <1>5, <1>6, <1>8, <1>9, <2>1, <2>2 DEF ReorderInv
<1> QED
  BY <1>2, <1>10

(* Nothing is dragged to begin with.                                       *)
LEMMA NoDragKept ==
  ASSUME NEW on
  PROVE  ReorderInv(NoDrag(on, Stacks), on)
<1> DEFINE u == NoDrag(on, Stacks)
<1>1. Stacks \in [{1, 2} -> Rows] /\ \A k \in {1, 2} : IsInjective(Stacks[k])
  BY ShellAssumption DEF Rows, Items
<1>2. NoSource \in [stack : {0, 1, 2}, from : Int] /\ <<0, 0>> \in {0, 1, 2} \X Int
  BY DEF NoSource
<1>3. /\ u \in DragState(on) /\ u.kids = Stacks /\ u.held = "no" /\ u.src = NoSource
      /\ u.bar = 0 /\ u.last = NoDrop
  BY <1>1, <1>2 DEF NoDrag, DragState
<1> HIDE DEF u
<1>4. ~u.last.moved
  BY <1>3 DEF NoDrop
<1>5. ReorderInv(u, on)
  BY <1>1, <1>3, <1>4 DEF ReorderInv
<1> QED
  BY <1>5 DEF u

(* Every step of a stack's keeps the invariant.                            *)
LEMMA ReorderStepKeeps ==
  ASSUME ReorderInv(st, backend), backend \in {"gtk", "win32", "android"}, ReorderStep
  PROVE  ReorderInv(st', backend)
<1>1. /\ \A k \in {1, 2} : st.kids[k] \in Rows /\ IsInjective(st.kids[k])
  BY DEF ReorderInv, DragState
<1>2. ASSUME NEW stack \in {1, 2}, NEW p \in 0 .. Extent(st.kids[stack])
      PROVE  p \in Int
  <2>1. Len(st.kids[stack]) + 1 \in 1 .. Len(st.kids[stack]) + 1
    BY <1>1 DEF Rows
  <2>2. Extent(st.kids[stack]) \in Nat
    BY <1>1, <2>1, TopStep DEF Extent
  <2> QED
    BY <2>2
<1>3. ASSUME NEW stack \in {1, 2}, NEW p \in Int, Presses(stack, p)
      PROVE  ReorderInv(st', backend)
  BY <1>3, PressKeeps DEF Presses, In
<1>4. ASSUME NEW stack \in {0, 1, 2}, NEW p \in Int, MovesOver(stack, p)
      PROVE  ReorderInv(st', backend)
  BY <1>4, OverKeeps DEF MovesOver, In
<1>5. ASSUME NEW stack \in {1, 2}, NEW p \in Int, NEW item \in Range(st.kids[stack]),
             DriverDrags(stack, item, p)
      PROVE  ReorderInv(st', backend)
  BY <1>5, FireKeeps DEF DriverDrags, In
<1>6. CASE DragsOff
  BY <1>6, DragBeginsKeeps DEF DragsOff, In
<1>7. CASE LetsGo
  BY <1>7, DragBeginsKeeps DEF LetsGo, In
<1>8. CASE Drops
  BY <1>8, DropKeeps DEF Drops, In
<1>9. CASE DragCancelled
  BY <1>9, DropKeeps DEF DragCancelled, In
<1>10. ASSUME NEW stack \in Remade, Rebuilds(stack)
       PROVE  ReorderInv(st', backend)
  <2> DEFINE kids == st.kids[stack]
  <2>1. stack \in {1, 2}
    BY ShellAssumption
  <2>2. kids \in Rows /\ IsInjective(kids)
    BY <1>1, <2>1
  <2>3. ASSUME NEW new \in Rows, IsInjective(new), st' = Rebuilt(st, stack, new)
        PROVE  ReorderInv(st', backend)
    BY <2>1, <2>3, RebuiltKeeps
  <2>4. CASE kids # <<>> /\ In("reorder", Rebuilt(st, stack, Tail(kids)))
    <3>1. Tail(kids) \in Rows /\ Len(Tail(kids)) = Len(kids) - 1
      BY <2>2, <2>4 DEF Rows
    <3>2. \A j \in 1 .. Len(kids) - 1 : Tail(kids)[j] = kids[j + 1]
      BY <2>2, <2>4 DEF Rows
    <3>3. IsInjective(Tail(kids))
      <4>1. DOMAIN Tail(kids) = 1 .. Len(kids) - 1 /\ DOMAIN kids = 1 .. Len(kids) /\ Len(kids) \in Nat
        BY <2>2, <3>1 DEF Rows
      <4>2. \A i, j \in 1 .. Len(kids) - 1 : kids[i + 1] = kids[j + 1] => i = j
        BY <2>2, <4>1 DEF IsInjective
      <4> QED
        BY <3>2, <4>1, <4>2 DEF IsInjective
    <3> QED
      BY <2>3, <2>4, <3>1, <3>3 DEF In
  <2>5. ASSUME NEW new \in DOMAIN Long \ Range(kids),
               In("reorder", Rebuilt(st, stack, <<new>> \o kids))
        PROVE  ReorderInv(st', backend)
    <3> DEFINE more == <<new>> \o kids
    <3>1. /\ more \in Rows /\ Len(more) = Len(kids) + 1 /\ more[1] = new
          /\ \A j \in 2 .. Len(kids) + 1 : more[j] = kids[j - 1]
      BY <2>2 DEF Rows, Items
    <3> HIDE DEF more
    <3>2. IsInjective(more)
      <4>1. DOMAIN more = 1 .. Len(kids) + 1 /\ DOMAIN kids = 1 .. Len(kids) /\ Len(kids) \in Nat
        BY <2>2, <3>1 DEF Rows
      <4>2. \A i \in 1 .. Len(kids) : kids[i] # new
        BY <2>5, <4>1 DEF Range
      <4>3. \A i, j \in 2 .. Len(kids) + 1 : kids[i - 1] = kids[j - 1] => i = j
        <5>1. \A i, j \in 1 .. Len(kids) : kids[i] = kids[j] => i = j
          BY <2>2, <4>1 DEF IsInjective
        <5>2. \A i \in 2 .. Len(kids) + 1 : i - 1 \in 1 .. Len(kids)
          BY <4>1
        <5> HIDE DEF kids
        <5> QED
          BY <4>1, <5>1, <5>2
      <4>4. \A i \in 1 .. Len(kids) + 1 : i = 1 \/ (i \in 2 .. Len(kids) + 1 /\ i - 1 \in 1 .. Len(kids))
        BY <4>1
      <4> QED
        BY <3>1, <4>1, <4>2, <4>3, <4>4 DEF IsInjective
    <3> QED
      BY <2>3, <2>5, <3>1, <3>2 DEF In, more
  <2> QED
    BY <1>10, <2>4, <2>5 DEF Rebuilds
<1> QED
  BY <1>2, <1>3, <1>4, <1>5, <1>6, <1>7, <1>8, <1>9, <1>10 DEF ReorderStep

-----------------------------------------------------------------------------
(* Files dragged out.                                                      *)

(* What Win32 still has of a press is the press's own, but for a stray one.*)
Paths == {"none", "a", "b"}
FileState(on) ==
  [on : {on}, path : [{1, 2} -> Paths], armed : SUBSET {1, 2}, button : -1 .. 2,
   pressed : 0 .. 2, active : Paths, meant : Paths, stray : BOOLEAN]
FilesInv(s, on) ==
  /\ s \in FileState(on)
  /\ s.button = -1 /\ s.pressed # 0 => s.stray
  /\ s.pressed # 0 => on = "win32" /\ (~s.stray => s.button \in {-1, s.pressed})
  /\ s.active # "none" => s.button # -1 /\ s.pressed = 0 /\ (~s.stray => s.active = s.meant)

(* Every step of theirs keeps their invariant.                             *)
LEMMA FileStepKeeps ==
  ASSUME FilesInv(st, backend), backend \in {"gtk", "win32", "android"}, FileStep
  PROVE  FilesInv(st', backend)
<1>1. st \in FileState(backend) /\ st.on = backend
  BY DEF FilesInv, FileState
<1>2. ASSUME NEW w \in {1, 2}, NEW path \in Paths, PathSet(w, path)
      PROVE  FilesInv(st', backend)
  <2>1. PICK armed \in SUBSET {1, 2} :
          st' = [st EXCEPT !.path = [st.path EXCEPT ![w] = path], !.armed = armed]
    BY <1>1, <1>2 DEF PathSet, In, Draggable, FileState
  <2>2. [st.path EXCEPT ![w] = path] \in [{1, 2} -> Paths]
    BY <1>1 DEF FileState
  <2>3. /\ st' \in FileState(backend) /\ st'.button = st.button /\ st'.pressed = st.pressed
        /\ st'.active = st.active /\ st'.meant = st.meant /\ st'.stray = st.stray
    BY <1>1, <2>1, <2>2 DEF FileState
  <2> QED
    BY <2>3 DEF FilesInv
<1>3. ASSUME NEW w \in 0 .. 2, ButtonPressed(w)
      PROVE  FilesInv(st', backend)
  <2> DEFINE pressed == IF backend = "win32" /\ w \in st.armed THEN w ELSE st.pressed
             stray == st.stray /\ w \notin st.armed
  <2>1. st' = [st EXCEPT !.button = w, !.pressed = pressed, !.stray = stray] /\ st.button = -1
    BY <1>1, <1>3 DEF ButtonPressed, ButtonDown, In, FileState
  <2>2. w \in -1 .. 2 /\ pressed \in 0 .. 2 /\ stray \in BOOLEAN
    BY <1>1 DEF FileState
  <2>3. /\ st.pressed # 0 => backend = "win32" /\ st.stray
        /\ st.active = "none"
    BY <2>1 DEF FilesInv
  <2>4. /\ pressed # 0 => backend = "win32" /\ (~stray => w = pressed)
    BY <2>3
  <2> HIDE DEF pressed, stray
  <2>5. /\ st' \in FileState(backend) /\ st'.button = w /\ st'.pressed = pressed
        /\ st'.active = st.active /\ st'.meant = st.meant /\ st'.stray = stray
    BY <1>1, <2>1, <2>2 DEF FileState
  <2> QED
    BY <2>3, <2>4, <2>5 DEF FilesInv
<1>4. ASSUME NEW w \in 0 .. 2, PointerOver(w)
      PROVE  FilesInv(st', backend)
  <2>1. /\ st.button # -1 /\ st.active = "none" /\ st' = PointerMoves(st, w)
        /\ st.button \in -1 .. 2 /\ st.pressed \in 0 .. 2 /\ st.armed \subseteq {1, 2}
        /\ st.pressed # 0 => backend = "win32" /\ (~st.stray => st.button = st.pressed)
    BY <1>1, <1>4 DEF PointerOver, In, FilesInv, FileState
  <2>2. ASSUME NEW v \in {1, 2}, ~st.stray => v = st.button
        PROVE  FilesInv(Begins(st, v), backend)
    <3> DEFINE active == st.path[v]
               meant == IF st.button = 0 THEN "none" ELSE st.path[st.button]
               u == Begins(st, v)
    <3>1. active \in Paths /\ meant \in Paths /\ 0 \in 0 .. 2
      BY <1>1, <2>1 DEF FileState, Paths
    <3>2. ~st.stray => active = meant
      BY <2>2
    <3>3. u = [st EXCEPT !.pressed = 0, !.active = active, !.meant = meant]
      BY DEF Begins
    <3> HIDE DEF active, meant, u
    <3>4. /\ u \in FileState(backend) /\ u.button = st.button /\ u.pressed = 0
          /\ u.active = active /\ u.meant = meant /\ u.stray = st.stray
      BY <1>1, <3>1, <3>3 DEF FileState
    <3>5. FilesInv(u, backend)
      BY <2>1, <3>2, <3>4 DEF FilesInv
    <3> QED
      BY <3>5 DEF u
  <2>3. st' = st \/ \E v \in {1, 2} : (~st.stray => v = st.button) /\ st' = Begins(st, v)
    <3>1. CASE backend = "gtk"
      BY <1>1, <2>1, <3>1 DEF PointerMoves, GtkMoves
    <3>2. CASE backend = "win32"
      <4>1. CASE w \in st.armed /\ st.pressed = w /\ st.path[w] # "none"
        <5>1. w \in {1, 2} /\ w # 0
          BY <2>1, <4>1
        <5>2. ~st.stray => w = st.button
          BY <2>1, <4>1, <5>1
        <5>3. st' = Begins(st, w)
          BY <1>1, <2>1, <3>2, <4>1 DEF PointerMoves, Win32Moves
        <5> QED
          BY <5>1, <5>2, <5>3
      <4>2. CASE ~(w \in st.armed /\ st.pressed = w /\ st.path[w] # "none")
        BY <1>1, <2>1, <3>2, <4>2 DEF PointerMoves, Win32Moves
      <4> QED
        BY <4>1, <4>2
    <3>3. CASE backend = "android"
      BY <1>1, <2>1, <3>3 DEF PointerMoves, AndroidHolds
    <3> QED
      BY <3>1, <3>2, <3>3
  <2> QED
    BY <2>2, <2>3
<1>5. ASSUME NEW w \in 0 .. 2, ButtonReleased(w)
      PROVE  FilesInv(st', backend)
  <2> DEFINE heard == backend = "win32" /\ w \in st.armed
             pressed == IF st.active # "none" \/ heard THEN 0 ELSE st.pressed
             stray == IF st.active # "none" THEN st.stray ELSE ~heard /\ st.pressed # 0
             meant == IF st.active # "none" THEN "none" ELSE st.meant
  <2>1. /\ st.pressed # 0 => backend = "win32"
        /\ st.active # "none" => st.pressed = 0
    BY DEF FilesInv
  <2>2. /\ st' \in FileState(backend) /\ st'.button = -1 /\ st'.pressed = pressed
        /\ st'.active = "none" /\ st'.stray = stray
    <3>1. st' = [st EXCEPT !.button = -1, !.active = "none", !.meant = meant,
                           !.pressed = pressed, !.stray = stray]
      BY <1>1, <1>5, <2>1 DEF ButtonReleased, ButtonUp, In, FileState
    <3>2. /\ pressed \in 0 .. 2 /\ stray \in BOOLEAN /\ meant \in Paths /\ "none" \in Paths
          /\ -1 \in -1 .. 2
      <4>1. pressed \in 0 .. 2
        BY <1>1 DEF FileState
      <4>2. stray \in BOOLEAN
        BY <1>1 DEF FileState
      <4>3. meant \in Paths /\ "none" \in Paths
        BY <1>1 DEF FileState, Paths
      <4> QED
        BY <4>1, <4>2, <4>3
    <3> HIDE DEF pressed, stray, meant
    <3> QED
      BY <1>1, <3>1, <3>2 DEF FileState
  <2>3. pressed # 0 => backend = "win32" /\ stray
    BY <2>1
  <2> HIDE DEF pressed, stray
  <2> QED
    BY <2>2, <2>3 DEF FilesInv
<1> QED
  BY <1>2, <1>3, <1>4, <1>5 DEF FileStep, Paths

(* Nothing is carried to begin with.                                       *)
LEMMA NoFilesKept ==
  ASSUME NEW on
  PROVE  FilesInv(NoFiles(on, {1, 2}), on)
BY DEF NoFiles, FilesInv, FileState, Paths

(* A step of another form is no step of a drag.                            *)
LEMMA OnlyDragSteps ==
  ASSUME [Next]_vars
  PROVE  /\ form = "reorder" => ReorderStep \/ UNCHANGED st
         /\ form = "files" => FileStep \/ UNCHANGED st
<1>1. CASE UNCHANGED vars
  BY <1>1 DEF vars
<1>2. CASE Running /\ WhileRunning
  BY <1>2 DEF Running
<1>3. ASSUME NEW h, ToastExpires(h) \/ ExitEnds(h)
      PROVE  form = "surfaces"
  BY <1>3 DEF ToastExpires, ExitEnds, Running
<1> QED
  BY <1>1, <1>2, <1>3 DEF Next

ShellDragInv ==
  /\ backend \in {"gtk", "win32", "android"}
  /\ form = "reorder" => ReorderInv(st, backend)
  /\ form = "files" => FilesInv(st, backend)

(* For stacks of any items, of any lengths, on every backend: a drop moves *)
(* the child that was pressed and only it, to the gap the pointer is       *)
(* nearest to, unless its stack was rebuilt since; a drag that has ended is*)
(* forgotten; and the file carried out is the pressed widget's.            *)
THEOREM DropsAreTrue == SafeSpec => []DragHolds
<1>1. Init => ShellDragInv
  BY ShellAssumption, NoDragKept, NoFilesKept DEF Init, ShellDragInv
<1>2. ShellDragInv /\ [Next]_vars => ShellDragInv'
  <2> SUFFICES ASSUME ShellDragInv, [Next]_vars
               PROVE  ShellDragInv'
    OBVIOUS
  <2>1. backend' = backend /\ form' = form
    BY FormStays
  <2>2. form = "reorder" => ReorderInv(st', backend)
    BY OnlyDragSteps, ReorderStepKeeps DEF ShellDragInv
  <2>3. form = "files" => FilesInv(st', backend)
    BY OnlyDragSteps, FileStepKeeps DEF ShellDragInv
  <2> QED
    BY <2>1, <2>2, <2>3 DEF ShellDragInv
<1>3. ShellDragInv => DragHolds
  <2> SUFFICES ASSUME ShellDragInv
               PROVE  DragHolds
    OBVIOUS
  <2>1. CASE form = "reorder"
    <3>1. st.last.moved => DropHolds(st.last)
      BY <2>1 DEF ShellDragInv, ReorderInv, DropHolds, Dropped
    <3> QED
      BY <2>1, <3>1 DEF ShellDragInv, ReorderInv, DragHolds
  <2>2. CASE form = "files"
    BY <2>2 DEF ShellDragInv, FilesInv, DragHolds
  <2>3. CASE form \notin {"reorder", "files"}
    BY <2>3 DEF DragHolds
  <2> QED
    BY <2>1, <2>2, <2>3
<1> QED
  BY <1>1, <1>2, <1>3, PTL DEF SafeSpec
===============================================================================
