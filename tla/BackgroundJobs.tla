--------------------------- MODULE BackgroundJobs ---------------------------
(***************************************************************************)
(* background_for, background, background_cancel and background_cancelled  *)
(* of ui/module.ae over the job table of aether_ui_system_extras.c.        *)
(*                                                                         *)
(* Three kinds of threads meet here: the UI thread, which makes the calls, *)
(* cancels, destroys widgets and runs completions; the pool threads of     *)
(* std.worker (external), which run the work and poll for cancellation;    *)
(* and the backend's poster, which brings a completion to the UI thread.   *)
(* Every critical section of g_bg_lock is one step, and so is every call   *)
(* between two of them.                                                    *)
(***************************************************************************)
EXTENDS Integers, FiniteSets

CONSTANTS
  MaxCalls,    \* bound: calls made in an execution, in the order 1, 2, ...
  Widgets,
  NoOwner,
  Owner,       \* [Calls -> Widgets \cup {NoOwner}]
  Plain,       \* the calls made with background(), which has no job
  TableSize,   \* BG_JOB_MAX, 1024 in the code
  IdMax,       \* the largest job id, 0x7fffffff in the code
  Threads      \* pool threads of std.worker

Calls == 1 .. MaxCalls

ASSUME CallsAssumption == MaxCalls \in Nat
ASSUME OwnerAssumption == /\ NoOwner \notin Widgets
                          /\ Owner \in [Calls -> Widgets \cup {NoOwner}]
                          /\ Plain \subseteq {c \in Calls : Owner[c] = NoOwner}
ASSUME TableAssumption == TableSize \in Nat \ {0} /\ IdMax \in Nat \ {0}

VARIABLES
  g_bg_jobs,      \* the table: slot -> its job's id, or 0, and cancel flag
  g_bg_next_id,
  phase,          \* how far each call has come
  job,            \* the job id each call was given, 0 if none
  ui,             \* the call the UI thread is in the middle of, 0 if none
  keep,           \* the local of that name in the completion being run
  alive,          \* the widgets whose registry slot still resolves
  asked,          \* calls the application cancelled while they were in flight
  told            \* calls whose work was told that it is cancelled

jobVars == <<g_bg_jobs, g_bg_next_id, phase, job, ui, keep, alive, asked, told>>

Slots == 1 .. TableSize
Slot == [id : 0 .. IdMax, cancelled : BOOLEAN]
FreeSlot == [id |-> 0, cancelled |-> FALSE]

(* "begun", "checked" and "ended" are moments in the middle of             *)
(* background_for and of the completion, when only the UI thread's other   *)
(* steps are excluded.                                                     *)
Phases == {"new", "refused", "begun", "queued", "working", "posted",
           "checked", "ended", "done", "dropped"}

InFlight == {c \in Calls \ Plain :
               phase[c] \in {"begun", "queued", "working", "posted", "checked"}}

JobsInit ==
  /\ g_bg_jobs = [s \in Slots |-> FreeSlot]
  /\ g_bg_next_id = 0
  /\ phase = [c \in Calls |-> "new"]
  /\ job = [c \in Calls |-> 0]
  /\ ui = 0
  /\ keep = FALSE
  /\ alive = Widgets
  /\ asked = {}
  /\ told = {}

Used(j) == {s \in Slots : g_bg_jobs[s].id = j}
First(S) == CHOOSE s \in S : \A t \in S : s <= t

(* bg_job_find: the first slot with this id, ids being positive.           *)
Found(j) == j > 0 /\ Used(j) # {}
Find(j) == First(Used(j))

UiFree == ui = 0
NextCall(c) ==
  phase[c] = "new" /\ \A d \in 1 .. c - 1 : phase[d] # "new"

(* --- the UI thread ----------------------------------------------------- *)

(* MUTANT of NextId: a job is named after its slot.                        *)
SlotAsId == First(Used(0))
NextId == IF g_bg_next_id = IdMax THEN 1 ELSE g_bg_next_id + 1

(* background_for up to aether_ui_bg_job_begin; a full table refuses it.   *)
JobBegin(c) ==
  /\ UiFree /\ NextCall(c) /\ c \notin Plain
  /\ IF Used(0) = {}
     THEN /\ phase' = [phase EXCEPT ![c] = "refused"]
          /\ UNCHANGED <<g_bg_jobs, g_bg_next_id, job, ui>>
     ELSE /\ g_bg_next_id' = NextId
          /\ g_bg_jobs' = [g_bg_jobs EXCEPT ![First(Used(0))] =
                             [id |-> NextId, cancelled |-> FALSE]]
          /\ job' = [job EXCEPT ![c] = NextId]
          /\ phase' = [phase EXCEPT ![c] = "begun"]
          /\ ui' = c
  /\ UNCHANGED <<keep, alive, asked, told>>

(* aether_ui_bg_job_end over the table.                                    *)
JobEnded(j) ==
  IF Found(j) THEN [g_bg_jobs EXCEPT ![Find(j)] = FreeSlot] ELSE g_bg_jobs

(* worker.run takes the work, and background_for returns the id ...        *)
RunAccepted(c) ==
  /\ ui = c /\ phase[c] = "begun"
  /\ phase' = [phase EXCEPT ![c] = "queued"]
  /\ ui' = 0
  /\ UNCHANGED <<g_bg_jobs, g_bg_next_id, job, keep, alive, asked, told>>

(* MUTANT of EndRefused: the error path keeps the job's slot.              *)
KeepRefused(c) == UNCHANGED g_bg_jobs
EndRefused(c) == g_bg_jobs' = JobEnded(job[c])

(* ... or finds no thread, and the job is ended before returning 0.        *)
RunFailed(c) ==
  /\ ui = c /\ phase[c] = "begun"
  /\ phase' = [phase EXCEPT ![c] = "refused"]
  /\ EndRefused(c)
  /\ job' = [job EXCEPT ![c] = 0]
  /\ ui' = 0
  /\ UNCHANGED <<g_bg_next_id, keep, alive, asked, told>>

(* background: queued or refused, with no job to its name.                 *)
Background(c) ==
  /\ UiFree /\ NextCall(c) /\ c \in Plain
  /\ \E result \in {"queued", "refused"} : phase' = [phase EXCEPT ![c] = result]
  /\ UNCHANGED <<g_bg_jobs, g_bg_next_id, job, ui, keep, alive, asked, told>>

(* background_cancel with what any earlier background_for returned: the    *)
(* id of a job finished or not, or the 0 of a refusal.                     *)
CancelJob(c) ==
  /\ UiFree
  /\ phase[c] # "new" /\ c \notin Plain
  /\ g_bg_jobs' = IF Found(job[c])
                  THEN [g_bg_jobs EXCEPT ![Find(job[c])].cancelled = TRUE]
                  ELSE g_bg_jobs
  /\ asked' = IF c \in InFlight THEN asked \cup {c} ELSE asked
  /\ UNCHANGED <<g_bg_next_id, phase, job, ui, keep, alive, told>>

Destroy(w) ==
  /\ UiFree
  /\ w \in alive
  /\ alive' = alive \ {w}
  /\ UNCHANGED <<g_bg_jobs, g_bg_next_id, phase, job, ui, keep, asked, told>>

CancelFlag(j) == Found(j) /\ g_bg_jobs[Find(j)].cancelled
OwnerAlive(c) == Owner[c] = NoOwner \/ Owner[c] \in alive

(* MUTANT of Wanted: only the owner is looked at.                          *)
OwnerOnly(c) == OwnerAlive(c)
Wanted(c) == ~ CancelFlag(job[c]) /\ OwnerAlive(c)

(* The completion that background_for wraps around done and dropped: it    *)
(* decides, then ends the job, then calls one of the two.                  *)
CompletionChecks(c) ==
  /\ UiFree /\ phase[c] = "posted" /\ c \notin Plain
  /\ keep' = Wanted(c)
  /\ phase' = [phase EXCEPT ![c] = "checked"]
  /\ ui' = c
  /\ UNCHANGED <<g_bg_jobs, g_bg_next_id, job, alive, asked, told>>

CompletionEnds(c) ==
  /\ ui = c /\ phase[c] = "checked"
  /\ g_bg_jobs' = JobEnded(job[c])
  /\ phase' = [phase EXCEPT ![c] = "ended"]
  /\ UNCHANGED <<g_bg_next_id, job, ui, keep, alive, asked, told>>

CompletionCalls(c) ==
  /\ ui = c /\ phase[c] = "ended"
  /\ phase' = [phase EXCEPT ![c] = IF keep THEN "done" ELSE "dropped"]
  /\ ui' = 0
  /\ UNCHANGED <<g_bg_jobs, g_bg_next_id, job, keep, alive, asked, told>>

(* background's completion is done itself.                                 *)
PlainDone(c) ==
  /\ UiFree /\ phase[c] = "posted" /\ c \in Plain
  /\ phase' = [phase EXCEPT ![c] = "done"]
  /\ UNCHANGED <<g_bg_jobs, g_bg_next_id, job, ui, keep, alive, asked, told>>

(* --- the pool threads (std.worker, external) --------------------------- *)

WorkStarts(c) ==
  /\ phase[c] = "queued"
  /\ Cardinality({d \in Calls : phase[d] = "working"}) < Threads
  /\ phase' = [phase EXCEPT ![c] = "working"]
  /\ UNCHANGED <<g_bg_jobs, g_bg_next_id, job, ui, keep, alive, asked, told>>

(* background_cancelled, polled by the work of background_for.             *)
WorkPolls(c) ==
  /\ phase[c] = "working" /\ c \notin Plain
  /\ CancelFlag(job[c])
  /\ told' = told \cup {c}
  /\ UNCHANGED <<g_bg_jobs, g_bg_next_id, phase, job, ui, keep, alive, asked>>

(* The work returns, early or not, and its completion is posted.           *)
WorkReturns(c) ==
  /\ phase[c] = "working"
  /\ phase' = [phase EXCEPT ![c] = "posted"]
  /\ UNCHANGED <<g_bg_jobs, g_bg_next_id, job, ui, keep, alive, asked, told>>

UiStep(c) ==
  \/ RunAccepted(c) \/ RunFailed(c)
  \/ CompletionChecks(c) \/ CompletionEnds(c) \/ CompletionCalls(c)
  \/ PlainDone(c)
PoolStep(c) == WorkStarts(c) \/ WorkReturns(c)

JobsNext ==
  \/ \E c \in Calls : \/ JobBegin(c) \/ Background(c) \/ CancelJob(c)
                      \/ UiStep(c) \/ PoolStep(c) \/ WorkPolls(c)
  \/ \E w \in Widgets : Destroy(w)

JobsSafeSpec == JobsInit /\ [][JobsNext]_jobVars

(* The event loop runs what is posted to it, the pool runs what is queued, *)
(* and the work of the application returns.                                *)
JobsSpec ==
  JobsSafeSpec /\ \A c \in Calls : WF_jobVars(UiStep(c)) /\ WF_jobVars(PoolStep(c))

-----------------------------------------------------------------------------
(* A free slot carries no cancel flag for the next job to find.            *)
TypeOK ==
  /\ g_bg_jobs \in [Slots -> Slot]
  /\ \A s \in Slots : g_bg_jobs[s].id = 0 => g_bg_jobs[s] = FreeSlot
  /\ g_bg_next_id \in 0 .. IdMax
  /\ phase \in [Calls -> Phases]
  /\ job \in [Calls -> 0 .. IdMax]
  /\ ui \in {0} \cup Calls
  /\ keep \in BOOLEAN
  /\ alive \subseteq Widgets
  /\ asked \subseteq Calls
  /\ told \subseteq Calls

(* The table holds exactly the jobs in flight, each in one slot: no        *)
(* refusal, failure or completion leaks a slot or frees another job's.     *)
TableHoldsInFlight ==
  /\ \A c \in InFlight : job[c] > 0 /\ Cardinality(Used(job[c])) = 1
  /\ \A s \in Slots : g_bg_jobs[s].id > 0 =>
       Cardinality({c \in InFlight : job[c] = g_bg_jobs[s].id}) = 1

(* The comment on the table: ids are never reused, so a stale id cannot    *)
(* read (or set) a later job's flag.  The work of a call is told that it   *)
(* is cancelled only if the application cancelled that very call.          *)
ToldOnlyIfAsked == told \subseteq asked

(* The contract of background work, every detail of the table hidden.      *)
Outcome(c) ==
  CASE phase[c] \in {"new", "begun"} -> "new"
    [] phase[c] \in {"queued", "working", "posted", "checked", "ended"} -> "accepted"
    [] OTHER -> phase[c]

Contract == INSTANCE JobContract WITH
  outcome <- [c \in Calls |-> Outcome(c)],
  cancelled <- asked

ContractSafe == Contract!SafeSpec
ContractLive == Contract!Spec
=============================================================================
