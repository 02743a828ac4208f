---------------------------- MODULE CronService -----------------------------
(***************************************************************************)
(* The scheduler of agent turns (src/PhyAgentOS/cron/service.py) inside    *)
(* the gateway process, with the cron tool that edits its jobs and a second *)
(* process (the CLI agent) that edits the same jobs.json.                  *)
(*                                                                         *)
(* _timer_task is one asyncio task that first sleeps and then runs the due *)
(* jobs, one after another, each for as long as an agent turn takes.       *)
(* Re-arming the timer cancels that task, in whichever phase it is.        *)
(*                                                                         *)
(* Time is abstract: a next run is "later" until Elapse makes it "due".    *)
(***************************************************************************)
EXTENDS Naturals, FiniteSets

CONSTANTS
  Job,       \* job ids (uuid4), each added at most once
  Kind,      \* Kind[j]: "every" (or cron), "once" (at, deleted after its run)
             \* or "at" (kept, disabled after its run)
  MaxCalls   \* bound: calls of the API, edits by the other process, crashes

ASSUME CronAssumption ==
  /\ Kind \in [Job -> {"every", "once", "at"}]
  /\ MaxCalls \in Nat

VARIABLES
  mem,       \* the jobs in CronService._store
  disk,      \* the jobs in jobs.json
  known,     \* the file's mtime is the one of our last save
  running,   \* CronService._running
  tick,      \* _timer_task: none, asleep, or running the due jobs
  manual,    \* a run_job that awaits its job
  past,      \* "at" jobs whose moment has come
  calls,     \* calls, edits and crashes so far
  begun,     \* history: jobs the timer has started
  finished,  \* history: jobs whose turn, started by the timer, has ended
  shared     \* history: another process has edited the file

vars == <<mem, disk, known, running, tick, manual, past, calls, begun, finished, shared>>

NoTick == [pc |-> "none"]
Asleep == [pc |-> "asleep"]

(* own: the job object at hand is still the one in the store; a reload from *)
(* disk makes new objects and leaves the old one detached.                 *)
Busy(j, todo) == [pc |-> "busy", job |-> j, todo |-> todo, own |-> TRUE]

(* st is "gone" once removed, so that no id is used twice. *)
Row == [st: {"new", "live", "gone"}, on: BOOLEAN, next: {"none", "later", "due"}]

NewRow == [st |-> "new", on |-> FALSE, next |-> "none"]
GoneRow == [st |-> "gone", on |-> FALSE, next |-> "none"]

Enabled(rows, j) == rows[j].st = "live" /\ rows[j].on

Due(rows) == {j \in Job : Enabled(rows, j) /\ rows[j].next = "due"}

(* _compute_next_run: an "at" moment in the past has no next run. *)
NextRun(j) == IF Kind[j] = "every" \/ j \notin past THEN "later" ELSE "none"

-----------------------------------------------------------------------------
(* The store and the timer *)

(* _load_store: the memory copy, unless the file has changed under it. *)
Loaded == IF known THEN mem ELSE disk

Detach(run) == IF run.pc = "busy" THEN [run EXCEPT !.own = @ /\ known] ELSE run

(* Mutant: a job that is already due is not waited for. *)
ArmedLater(rows) ==
  IF running /\ \E j \in Job : Enabled(rows, j) /\ rows[j].next = "later" THEN Asleep ELSE NoTick

(* _arm_timer: the old task is cancelled, asleep or busy. *)
Armed(rows) ==
  IF running /\ \E j \in Job : Enabled(rows, j) /\ rows[j].next # "none" THEN Asleep ELSE NoTick

Save(rows) == mem' = rows /\ disk' = rows /\ known' = TRUE

SaveAndArm(rows) == Save(rows) /\ tick' = Armed(rows)

Call == calls < MaxCalls /\ calls' = calls + 1

(* Mutant: an "at" job that is kept stays enabled. *)
AdvanceAgain(rows, j, own) ==
  IF Kind[j] = "once" THEN [rows EXCEPT ![j] = GoneRow] ELSE rows

(* What _execute_job writes when on_job has returned or raised: a one-shot  *)
(* job is deleted by id or disabled, another gets its next run; only the    *)
(* deletion reaches the store when the job object is detached.              *)
Advance(rows, j, own) ==
  CASE rows[j].st # "live" -> rows
    [] rows[j].st = "live" /\ Kind[j] = "once" -> [rows EXCEPT ![j] = GoneRow]
    [] rows[j].st = "live" /\ Kind[j] = "at" /\ own ->
         [rows EXCEPT ![j].on = FALSE, ![j].next = "none"]
    [] rows[j].st = "live" /\ Kind[j] = "every" /\ own -> [rows EXCEPT ![j].next = NextRun(j)]
    [] OTHER -> rows

-----------------------------------------------------------------------------
(* Life of the service *)

(* start: every next run is computed anew, so a one-shot job whose moment   *)
(* passed while nobody ran will not run any more.                           *)
Start ==
  /\ ~running /\ running' = TRUE
  /\ LET rows == [j \in Job |-> IF Enabled(Loaded, j) THEN [Loaded[j] EXCEPT !.next = NextRun(j)]
                                                      ELSE Loaded[j]]
     IN /\ Save(rows)
        /\ tick' = IF \E j \in Job : Enabled(rows, j) /\ rows[j].next # "none" THEN Asleep ELSE NoTick
  /\ manual' = Detach(manual)
  /\ UNCHANGED <<past, calls, begun, finished, shared>>

(* stop: the timer is cancelled; nothing is saved. *)
Stop ==
  /\ running /\ running' = FALSE
  /\ tick' = NoTick
  /\ Call
  /\ UNCHANGED <<mem, disk, known, manual, past, begun, finished, shared>>

Crash ==
  /\ running \/ manual # NoTick
  /\ running' = FALSE
  /\ tick' = NoTick /\ manual' = NoTick
  /\ known' = FALSE
  /\ Call
  /\ UNCHANGED <<mem, disk, past, begun, finished, shared>>

(* Time reaches the next run of j in every copy that still waits for it. *)
Elapse(j) ==
  /\ \/ mem[j].next = "later" \/ disk[j].next = "later"
     \/ Kind[j] # "every" /\ j \notin past
  /\ past' = IF Kind[j] = "every" THEN past ELSE past \cup {j}
  /\ mem' = IF mem[j].next = "later" THEN [mem EXCEPT ![j].next = "due"] ELSE mem
  /\ disk' = IF disk[j].next = "later" THEN [disk EXCEPT ![j].next = "due"] ELSE disk
  /\ UNCHANGED <<known, running, tick, manual, calls, begun, finished, shared>>

-----------------------------------------------------------------------------
(* The timer *)

(* The sleep ends, perhaps early: reload, collect the due jobs, run the first. *)
Wake ==
  /\ tick = Asleep
  /\ LET rows == Loaded
     IN \/ /\ Due(rows) = {}
           /\ SaveAndArm(rows)
           /\ UNCHANGED begun
        \/ /\ \E j \in Due(rows) :
                tick' = Busy(j, Due(rows) \ {j}) /\ begun' = begun \cup {j}
           /\ mem' = rows
           /\ UNCHANGED <<disk, known>>
  /\ manual' = Detach(manual)
  /\ UNCHANGED <<running, past, calls, finished, shared>>

(* The job's turn ends; the next due job starts without another look at it, *)
(* or the tick saves and re-arms.                                           *)
JobDone ==
  /\ tick.pc = "busy"
  /\ finished' = finished \cup {tick.job}
  /\ LET rows == Advance(mem, tick.job, tick.own)
     IN \/ /\ tick.todo = {}
           /\ SaveAndArm(rows)
           /\ UNCHANGED begun
        \/ /\ \E j \in tick.todo :
                /\ tick' = [tick EXCEPT !.job = j, !.todo = @ \ {j}]
                /\ begun' = begun \cup {j}
           /\ mem' = rows
           /\ UNCHANGED <<disk, known>>
  /\ UNCHANGED <<running, manual, past, calls, shared>>

-----------------------------------------------------------------------------
(* The API, called by other turns, or by a turn the timer itself runs *)

(* Mutant: the timer is not re-armed. *)
AddJobQuiet(j) ==
  /\ Loaded[j].st = "new" /\ disk[j].st = "new"
  /\ Call
  /\ Save([Loaded EXCEPT ![j] = [st |-> "live", on |-> TRUE, next |-> NextRun(j)]])
  /\ UNCHANGED tick
  /\ manual' = Detach(manual)
  /\ UNCHANGED <<running, past, begun, finished, shared>>

AddJob(j) ==
  /\ Loaded[j].st = "new" /\ disk[j].st = "new"
  /\ Call
  /\ SaveAndArm([Loaded EXCEPT ![j] = [st |-> "live", on |-> TRUE, next |-> NextRun(j)]])
  /\ manual' = Detach(manual)
  /\ UNCHANGED <<running, past, begun, finished, shared>>

(* Mutant: the running tick is left alone. *)
RemoveJobQuiet(j) ==
  /\ Loaded[j].st = "live"
  /\ Call
  /\ Save([Loaded EXCEPT ![j] = GoneRow])
  /\ UNCHANGED tick
  /\ manual' = Detach(manual)
  /\ UNCHANGED <<running, past, begun, finished, shared>>

RemoveJob(j) ==
  /\ Loaded[j].st = "live"
  /\ Call
  /\ SaveAndArm([Loaded EXCEPT ![j] = GoneRow])
  /\ manual' = Detach(manual)
  /\ UNCHANGED <<running, past, begun, finished, shared>>

(* Mutant: a disabled job keeps its next run. *)
EnableJobKeep(j, on) ==
  /\ Loaded[j].st = "live"
  /\ Call
  /\ SaveAndArm([Loaded EXCEPT ![j].on = on, ![j].next = IF on THEN NextRun(j) ELSE @])
  /\ manual' = Detach(manual)
  /\ UNCHANGED <<running, past, begun, finished, shared>>

EnableJob(j, on) ==
  /\ Loaded[j].st = "live"
  /\ Call
  /\ SaveAndArm([Loaded EXCEPT ![j].on = on, ![j].next = IF on THEN NextRun(j) ELSE "none"])
  /\ manual' = Detach(manual)
  /\ UNCHANGED <<running, past, begun, finished, shared>>

(* list_jobs, status, and calls that find nothing to do: they only load. *)
Look ==
  /\ ~known /\ mem # disk
  /\ mem' = disk
  /\ tick' = Detach(tick) /\ manual' = Detach(manual)
  /\ UNCHANGED <<disk, known, running, past, calls, begun, finished, shared>>

(* run_job, forced or not, beside whatever the timer does. *)
RunJob(j) ==
  /\ manual = NoTick
  /\ Loaded[j].st = "live"
  /\ Call
  /\ mem' = Loaded
  /\ manual' = Busy(j, {})
  /\ tick' = Detach(tick)
  /\ UNCHANGED <<disk, known, running, past, begun, finished, shared>>

RunJobDone ==
  /\ manual.pc = "busy"
  /\ manual' = NoTick
  /\ SaveAndArm(Advance(mem, manual.job, manual.own))
  /\ UNCHANGED <<running, past, calls, begun, finished, shared>>

(* /stop cancels the turn that called run_job. *)
RunJobCancelled ==
  /\ manual.pc = "busy"
  /\ manual' = NoTick
  /\ UNCHANGED <<mem, disk, known, running, tick, past, calls, begun, finished, shared>>

(* The other process loads, edits and saves in one synchronous call. *)
OtherProcess(j) ==
  /\ \/ disk[j].st = "new" /\ mem[j].st = "new"
          /\ disk' = [disk EXCEPT ![j] = [st |-> "live", on |-> TRUE, next |-> NextRun(j)]]
     \/ disk[j].st = "live" /\ disk' = [disk EXCEPT ![j] = GoneRow]
  /\ known' = FALSE /\ shared' = TRUE
  /\ Call
  /\ UNCHANGED <<mem, running, tick, manual, past, begun, finished>>

-----------------------------------------------------------------------------
Init ==
  /\ mem = [j \in Job |-> NewRow] /\ disk = [j \in Job |-> NewRow]
  /\ known = FALSE /\ running = FALSE /\ shared = FALSE
  /\ tick = NoTick /\ manual = NoTick
  /\ past = {} /\ begun = {} /\ finished = {}
  /\ calls = 0

Next ==
  \/ Start \/ Stop \/ Crash \/ Wake \/ JobDone \/ Look \/ RunJobDone \/ RunJobCancelled
  \/ \E j \in Job : \/ Elapse(j) \/ AddJob(j) \/ RemoveJob(j) \/ RunJob(j) \/ OtherProcess(j)
                    \/ \E on \in BOOLEAN : EnableJob(j, on)

Spec == Init /\ [][Next]_vars

(* A sleep ends, and the agent turn of a job ends. *)
FairSpec == Spec /\ WF_vars(Wake) /\ WF_vars(JobDone)

-----------------------------------------------------------------------------
(* Every variable keeps its shape, and a one-shot job that is not enabled   *)
(* has no next run, in memory as on disk (a recurring job may have one: a  *)
(* run_job that was under way when it was disabled computes it).           *)
TypeOK ==
  /\ mem \in [Job -> Row] /\ disk \in [Job -> Row]
  /\ \A j \in Job : \A rows \in {mem, disk} :
       Kind[j] # "every" /\ ~rows[j].on => rows[j].next = "none"
  /\ known \in BOOLEAN /\ running \in BOOLEAN /\ shared \in BOOLEAN
  /\ \A run \in {tick, manual} :
       run \in {NoTick, Asleep} \cup [pc: {"busy"}, job: Job, todo: SUBSET Job, own: BOOLEAN]
  /\ manual # Asleep
  /\ past \subseteq Job /\ begun \subseteq Job /\ finished \subseteq begun
  /\ calls \in 0..MaxCalls

(* While the service runs and nobody else edits the file, a job that has a  *)
(* next run has a timer task, whatever was cancelled on the way.            *)
TimerCovers ==
  running /\ ~shared =>
    ((\E j \in Job : Enabled(mem, j) /\ mem[j].next # "none") => tick # NoTick)

Starts(j) == tick'.pc = "busy" /\ tick'.job = j /\ tick' # tick
               /\ (tick.pc = "busy" => tick.job # j)

(* The due jobs are collected once and run over minutes; still the timer    *)
(* starts no job that was removed or disabled meanwhile, and no one-shot    *)
(* job whose turn it has seen end, even after a crash before the save.      *)
StartsOnlyWhenDue ==
  [][\A j \in Job : Starts(j) /\ ~shared =>
       Enabled(mem', j) /\ (Kind[j] = "every" \/ j \notin finished)]_vars

(* A due job gets its turn, also when ticks are cancelled under it.         *)
DueRuns ==
  \A j \in Job :
    (running /\ ~shared /\ j \in Due(mem))
      ~> (j \notin Due(mem) \/ ~running \/ shared \/ (tick.pc = "busy" /\ tick.job = j))

(* "One-time - runs once at a specific time, then auto-deletes"             *)
(* (PhyAgentOS/skills/cron/SKILL.md).                                       *)
OneTimeRunsOnce ==
  [][\A j \in Job : Starts(j) => Kind[j] # "once" \/ j \notin begun]_vars
=============================================================================
