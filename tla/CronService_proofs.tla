------------------------- MODULE CronService_proofs --------------------------
(***************************************************************************)
(* Theorems about CronService for every set of jobs and every number of    *)
(* calls, edits and crashes.                                               *)
(***************************************************************************)
EXTENDS CronService, TLAPS

-----------------------------------------------------------------------------
(* The inductive invariant.  A row that is not live, or a one-shot row     *)
(* that is disabled, has no next run; a one-shot row is due only when its  *)
(* moment has come.                                                        *)
Runs == [pc: {"busy"}, job: Job, todo: SUBSET Job, own: BOOLEAN]
OneShot(j) == Kind[j] # "every"

Sane(rows) ==
  /\ rows \in [Job -> Row]
  /\ \A j \in Job : rows[j].st # "live" => rows[j].next = "none"
  /\ \A j \in Job : OneShot(j) /\ ~rows[j].on => rows[j].next = "none"
  /\ \A j \in Job : OneShot(j) /\ rows[j].next = "due" => j \in past

Rows == Sane(mem) /\ Sane(disk)

Shapes ==
  /\ known \in BOOLEAN /\ running \in BOOLEAN /\ shared \in BOOLEAN
  /\ tick \in {NoTick, Asleep} \cup Runs
  /\ manual \in {NoTick} \cup Runs
  /\ past \subseteq Job /\ begun \subseteq Job /\ finished \subseteq begun
  /\ calls \in 0..MaxCalls

(* A one-shot job that runs, is to run, or has run, had its moment. *)
Moments ==
  /\ tick.pc = "busy" => /\ tick.job \in begun
                         /\ \A j \in tick.todo \cup {tick.job} : OneShot(j) => j \in past
  /\ \A j \in finished : OneShot(j) => j \in past

(* Without another process the service knows its file while it runs, and   *)
(* the job object at hand is the one in the store.                         *)
Owned ==
  /\ tick # NoTick => running
  /\ running /\ ~shared => known
  /\ tick.pc = "busy" /\ ~shared => tick.own

(* What the due list promises, and what a finished one-shot leaves behind. *)
Pending ==
  /\ tick.pc = "busy" /\ ~shared =>
       \A j \in tick.todo : /\ j # tick.job /\ Enabled(mem, j)
                            /\ OneShot(j) => j \notin finished
  /\ running /\ ~shared => \A j \in finished : OneShot(j) => mem[j].next = "none"

Inv == Rows /\ Shapes /\ Moments /\ Owned /\ Pending /\ TimerCovers

-----------------------------------------------------------------------------
(* The helpers *)

LEMMA LoadedSane == ASSUME Rows PROVE Sane(Loaded)
BY DEF Rows, Loaded

LEMMA BusyTick ==
  ASSUME Inv, tick.pc = "busy"
  PROVE  tick \in Runs /\ tick # NoTick /\ running
<1>1. NoTick.pc # "busy" /\ Asleep.pc # "busy"
  BY DEF NoTick, Asleep
<1>2. tick \in {NoTick, Asleep} \cup Runs
  BY DEF Inv, Shapes
<1>3. tick # NoTick => running
  BY DEF Inv, Owned
<1> QED BY <1>1, <1>2, <1>3

LEMMA DetachTyped ==
  ASSUME Shapes, NEW run \in {NoTick, Asleep} \cup Runs
  PROVE  /\ Detach(run) \in {NoTick, Asleep} \cup Runs
         /\ run \in {NoTick} \cup Runs => Detach(run) \in {NoTick} \cup Runs
         /\ Detach(run).pc = run.pc
         /\ run.pc = "busy" => Detach(run).job = run.job /\ Detach(run).todo = run.todo
         /\ known => Detach(run) = run
         /\ run = NoTick <=> Detach(run) = NoTick
<1>1. CASE run \in {NoTick, Asleep}
  BY <1>1 DEF Detach, NoTick, Asleep
<1>2. CASE run \in Runs
  BY <1>2 DEF Shapes, Detach, Runs, NoTick
<1> QED BY <1>1, <1>2

(* A row may be replaced by one that keeps the rules. *)
LEMMA SaneRow ==
  ASSUME NEW rows, Sane(rows), NEW j \in Job, NEW r \in Row,
         r.st # "live" => r.next = "none",
         OneShot(j) /\ ~r.on => r.next = "none",
         OneShot(j) /\ r.next = "due" => j \in past
  PROVE  Sane([rows EXCEPT ![j] = r])
BY DEF Sane

LEMMA NextRunTyped ==
  ASSUME NEW j \in Job
  PROVE  /\ NextRun(j) \in {"later", "none"}
         /\ OneShot(j) /\ j \in past => NextRun(j) = "none"
BY DEF NextRun, OneShot

LEMMA GoneTyped == GoneRow \in Row /\ GoneRow.st = "gone" /\ GoneRow.next = "none"
BY DEF GoneRow, Row

(* After its turn a job's row is sane, the others are as they were, and a  *)
(* one-shot job whose object was in the store has no next run.             *)
LEMMA Advanced ==
  ASSUME NEW rows, Sane(rows), NEW j \in Job, NEW own \in BOOLEAN
  PROVE  /\ Sane(Advance(rows, j, own))
         /\ \A k \in Job : k # j => Advance(rows, j, own)[k] = rows[k]
         /\ OneShot(j) /\ own => Advance(rows, j, own)[j].next = "none"
         /\ OneShot(j) /\ rows[j].next = "none" => Advance(rows, j, own)[j].next = "none"
<1>0. rows \in [Job -> Row] /\ rows[j] \in Row
  BY DEF Sane
<1>1. CASE rows[j].st # "live"
  BY <1>1 DEF Advance, Sane
<1>2. CASE rows[j].st = "live" /\ Kind[j] = "once"
  <2>1. Advance(rows, j, own) = [rows EXCEPT ![j] = GoneRow]
    BY <1>2 DEF Advance
  <2>2. Sane([rows EXCEPT ![j] = GoneRow])
    BY GoneTyped, SaneRow
  <2> QED BY <1>0, <2>1, <2>2, GoneTyped
<1>3. CASE rows[j].st = "live" /\ Kind[j] = "at" /\ own
  <2> DEFINE r == [rows[j] EXCEPT !.on = FALSE, !.next = "none"]
  <2>1. r \in Row /\ r.next = "none"
    BY <1>0 DEF Row
  <2>2. Advance(rows, j, own) = [rows EXCEPT ![j] = r]
    BY <1>3, <1>0 DEF Advance
  <2>3. Sane([rows EXCEPT ![j] = r])
    BY <2>1, SaneRow
  <2> QED BY <1>0, <2>1, <2>2, <2>3
<1>4. CASE rows[j].st = "live" /\ Kind[j] = "every" /\ own
  <2> DEFINE r == [rows[j] EXCEPT !.next = NextRun(j)]
  <2>1. r \in Row /\ r.st = "live"
    BY <1>0, <1>4, NextRunTyped DEF Row
  <2>2. Advance(rows, j, own) = [rows EXCEPT ![j] = r]
    BY <1>4, <1>0 DEF Advance
  <2>3. ~OneShot(j)
    BY <1>4 DEF OneShot
  <2>4. Sane([rows EXCEPT ![j] = r])
    BY <2>1, <2>3, SaneRow
  <2> QED BY <1>0, <2>2, <2>3, <2>4
<1>5. CASE rows[j].st = "live" /\ Kind[j] # "once" /\ ~own
  <2>1. Advance(rows, j, own) = rows
    BY <1>5 DEF Advance
  <2> QED BY <1>5, <2>1
<1> QED BY <1>1, <1>2, <1>3, <1>4, <1>5, CronAssumption

-----------------------------------------------------------------------------
(* Whoever saves sane rows and arms the timer for them keeps the invariant,*)
(* if no finished one-shot job has a next run there.                       *)
LEMMA Saved ==
  ASSUME Inv, NEW rows, Sane(rows),
         mem' = rows, disk' = rows, known' = TRUE, running' \in BOOLEAN,
         UNCHANGED <<past, begun, shared>>,
         tick' = IF running' /\ \E j \in Job : Enabled(rows, j) /\ rows[j].next # "none"
                 THEN Asleep ELSE NoTick,
         manual' \in {NoTick} \cup Runs, calls' \in 0..MaxCalls, finished' \subseteq begun,
         \A j \in finished' : OneShot(j) => j \in past,
         running' /\ ~shared => \A j \in finished' : OneShot(j) => rows[j].next = "none"
  PROVE  Inv'
<1>1. Rows'
  BY DEF Rows, Sane
<1>2. tick' \in {NoTick, Asleep} /\ tick'.pc # "busy" /\ (tick' # NoTick => running')
  BY DEF NoTick, Asleep
<1>3. Shapes'
  BY <1>2 DEF Inv, Shapes
<1>4. Moments' /\ Owned' /\ Pending'
  BY <1>2 DEF Moments, Owned, Pending
<1>5. TimerCovers'
  BY DEF TimerCovers, Enabled, NoTick, Asleep
<1> QED BY <1>1, <1>3, <1>4, <1>5 DEF Inv

LEMMA Initially == Init => Inv
<1> SUFFICES ASSUME Init PROVE Inv
  OBVIOUS
<1>1. Rows
  BY DEF Init, Rows, Sane, NewRow, Row
<1>2. Shapes
  <2>1. 0 \in 0..MaxCalls
    BY CronAssumption
  <2> QED BY <2>1 DEF Init, Shapes
<1>3. Moments /\ Owned /\ Pending /\ TimerCovers
  BY DEF Init, Moments, Owned, Pending, TimerCovers, NoTick
<1> QED BY <1>1, <1>2, <1>3 DEF Inv

LEMMA Calls == ASSUME Inv, Call PROVE calls' \in 0..MaxCalls
BY CronAssumption DEF Inv, Shapes, Call

(* While the service runs alone, what it would load is what it has. *)
LEMMA LoadsOwn == ASSUME Inv, running, ~shared PROVE Loaded = mem
BY DEF Inv, Owned, Loaded

LEMMA StartKeeps == ASSUME Inv, Start PROVE Inv'
<1> DEFINE rows == [j \in Job |-> IF Enabled(Loaded, j) THEN [Loaded[j] EXCEPT !.next = NextRun(j)]
                                                        ELSE Loaded[j]]
<1>1. Sane(Loaded)
  BY LoadedSane DEF Inv
<1>2. \A j \in Job : rows[j] \in Row /\ rows[j].st = Loaded[j].st /\ rows[j].on = Loaded[j].on
  BY <1>1, NextRunTyped DEF Sane, Row
<1>3. \A j \in Job : rows[j].next = IF Enabled(Loaded, j) THEN NextRun(j) ELSE Loaded[j].next
  BY <1>1 DEF Sane, Row
<1>4. Sane(rows)
  <2>1. rows \in [Job -> Row]
    BY <1>2
  <2>2. \A j \in Job : rows[j].st # "live" => rows[j].next = "none"
    BY <1>1, <1>2, <1>3 DEF Sane, Enabled
  <2>3. \A j \in Job : OneShot(j) /\ ~rows[j].on => rows[j].next = "none"
    BY <1>1, <1>2, <1>3 DEF Sane, Enabled
  <2>4. \A j \in Job : OneShot(j) /\ rows[j].next = "due" => j \in past
    BY <1>1, <1>3, NextRunTyped DEF Sane
  <2> HIDE DEF rows
  <2> QED BY <2>1, <2>2, <2>3, <2>4 DEF Sane
<1>5. \A j \in finished : OneShot(j) => rows[j].next = "none"
  <2> SUFFICES ASSUME NEW j \in finished, OneShot(j) PROVE rows[j].next = "none"
    OBVIOUS
  <2>1. j \in Job /\ j \in past
    BY DEF Inv, Moments, Shapes
  <2>2. CASE Enabled(Loaded, j)
    BY <2>1, <2>2, <1>3, NextRunTyped
  <2>3. CASE ~Enabled(Loaded, j)
    BY <2>1, <2>3, <1>1, <1>3 DEF Sane, Enabled
  <2> QED BY <2>2, <2>3
<1>6. manual' \in {NoTick} \cup Runs
  BY DetachTyped DEF Start, Inv, Shapes
<1>7. /\ mem' = rows /\ disk' = rows /\ known' = TRUE /\ running' = TRUE
      /\ tick' = IF \E j \in Job : Enabled(rows, j) /\ rows[j].next # "none" THEN Asleep ELSE NoTick
      /\ UNCHANGED <<past, calls, begun, finished, shared>>
  BY DEF Start, Save
<1> HIDE DEF rows
<1>8. finished \subseteq begun /\ calls \in 0..MaxCalls /\ \A j \in finished : OneShot(j) => j \in past
  BY DEF Inv, Shapes, Moments
<1> QED BY <1>4, <1>5, <1>6, <1>7, <1>8, Saved

(* An API call, or a run_job that ends, that saves rows and re-arms. *)
LEMMA Rearmed ==
  ASSUME Inv, NEW rows, Sane(rows), SaveAndArm(rows),
         UNCHANGED <<running, past, begun, finished, shared>>,
         manual' \in {NoTick} \cup Runs, calls' \in 0..MaxCalls,
         running /\ ~shared => \A j \in finished : OneShot(j) => rows[j].next = "none"
  PROVE  Inv'
<1>1. /\ mem' = rows /\ disk' = rows /\ known' = TRUE /\ running' \in BOOLEAN
      /\ tick' = IF running' /\ \E j \in Job : Enabled(rows, j) /\ rows[j].next # "none"
                 THEN Asleep ELSE NoTick
  BY DEF SaveAndArm, Save, Armed, Inv, Shapes
<1>2. finished' \subseteq begun /\ \A j \in finished' : OneShot(j) => j \in past
  BY DEF Inv, Shapes, Moments
<1> QED BY <1>1, <1>2, Saved

(* The row an API call writes for one job: any that keeps the rules and    *)
(* gives a one-shot job whose moment has passed no next run.               *)
LEMMA ApiKeeps ==
  ASSUME Inv, NEW j \in Job, NEW r \in Row,
         r.st # "live" => r.next = "none",
         OneShot(j) /\ ~r.on => r.next = "none",
         r.next # "due",
         OneShot(j) /\ j \in past => r.next = "none",
         SaveAndArm([Loaded EXCEPT ![j] = r]), Call, manual' = Detach(manual),
         UNCHANGED <<running, past, begun, finished, shared>>
  PROVE  Inv'
<1> DEFINE rows == [Loaded EXCEPT ![j] = r]
<1>1. Sane(Loaded)
  BY LoadedSane DEF Inv
<1>2. Sane(rows)
  BY <1>1, SaneRow
<1>3. manual' \in {NoTick} \cup Runs
  BY DetachTyped DEF Inv, Shapes
<1>4. ASSUME running, ~shared, NEW k \in finished, OneShot(k) PROVE rows[k].next = "none"
  <2>1. k \in Job /\ k \in past /\ mem[k].next = "none"
    BY <1>4 DEF Inv, Pending, Moments, Shapes
  <2>2. Loaded = mem
    BY <1>4, LoadsOwn
  <2>3. Loaded \in [Job -> Row]
    BY <1>1 DEF Sane
  <2> QED BY <1>4, <2>1, <2>2, <2>3
<1> HIDE DEF rows
<1> QED BY <1>2, <1>3, <1>4, Calls, Rearmed DEF rows

LEMMA AddJobKeeps == ASSUME Inv, NEW j \in Job, AddJob(j) PROVE Inv'
<1> DEFINE r == [st |-> "live", on |-> TRUE, next |-> NextRun(j)]
<1>1. r \in Row
  BY NextRunTyped DEF Row
<1> QED BY <1>1, NextRunTyped, ApiKeeps DEF AddJob

LEMMA RemoveJobKeeps == ASSUME Inv, NEW j \in Job, RemoveJob(j) PROVE Inv'
BY GoneTyped, ApiKeeps DEF RemoveJob

LEMMA EnableJobKeeps == ASSUME Inv, NEW j \in Job, NEW on \in BOOLEAN, EnableJob(j, on) PROVE Inv'
<1>1. Loaded \in [Job -> Row] /\ Loaded[j].st = "live"
  BY LoadedSane DEF Inv, Sane, EnableJob
<1> DEFINE r == [Loaded[j] EXCEPT !.on = on, !.next = IF on THEN NextRun(j) ELSE "none"]
<1>2. r \in Row /\ r.st = "live" /\ r.on = on /\ r.next = IF on THEN NextRun(j) ELSE "none"
  BY <1>1, NextRunTyped DEF Row
<1>3. [Loaded EXCEPT ![j].on = on, ![j].next = IF on THEN NextRun(j) ELSE "none"]
        = [Loaded EXCEPT ![j] = r]
  BY <1>1
<1> HIDE DEF r
<1> QED BY <1>2, <1>3, NextRunTyped, ApiKeeps DEF EnableJob

LEMMA RunJobDoneKeeps == ASSUME Inv, RunJobDone PROVE Inv'
<1>1. manual \in Runs
  BY DEF RunJobDone, Inv, Shapes, NoTick
<1>2. manual.job \in Job /\ manual.own \in BOOLEAN
  BY <1>1 DEF Runs
<1> DEFINE rows == Advance(mem, manual.job, manual.own)
<1>3. Sane(mem)
  BY DEF Inv, Rows
<1>4. /\ Sane(rows)
      /\ \A k \in Job : k # manual.job => rows[k] = mem[k]
      /\ OneShot(manual.job) /\ mem[manual.job].next = "none" => rows[manual.job].next = "none"
  BY <1>2, <1>3, Advanced
<1>5. running /\ ~shared => \A j \in finished : OneShot(j) => rows[j].next = "none"
  BY <1>4 DEF Inv, Pending, Shapes
<1> HIDE DEF rows
<1>6. /\ SaveAndArm(rows) /\ manual' = NoTick
      /\ UNCHANGED <<running, past, calls, begun, finished, shared>>
  BY DEF RunJobDone, rows
<1>7. calls' \in 0..MaxCalls
  BY <1>6 DEF Inv, Shapes
<1> QED BY <1>4, <1>5, <1>6, <1>7, Rearmed

-----------------------------------------------------------------------------
(* The timer.  A wake collects the due jobs of the rows it has just loaded.*)
LEMMA WakeKeeps == ASSUME Inv, Wake PROVE Inv'
<1>1. Sane(Loaded)
  BY LoadedSane DEF Inv
<1>2. manual' \in {NoTick} \cup Runs /\ running /\ tick = Asleep
  BY DetachTyped DEF Wake, Inv, Shapes, Owned, NoTick, Asleep
<1>3. UNCHANGED <<running, past, calls, finished, shared>>
  BY DEF Wake
<1>4. ~shared => Loaded = mem /\ known
  BY <1>2, LoadsOwn DEF Inv, Owned
<1>5. ~shared => \A j \in finished : OneShot(j) => Loaded[j].next = "none"
  BY <1>2, <1>4 DEF Inv, Pending
<1>6. CASE SaveAndArm(Loaded) /\ UNCHANGED begun
  <2>1. calls' \in 0..MaxCalls
    BY <1>3 DEF Inv, Shapes
  <2> QED BY <1>1, <1>2, <1>3, <1>5, <1>6, <2>1, Rearmed
<1>7. CASE /\ \E j \in Due(Loaded) :
                tick' = Busy(j, Due(Loaded) \ {j}) /\ begun' = begun \cup {j}
           /\ mem' = Loaded /\ UNCHANGED <<disk, known>>
  <2>1. PICK j \in Due(Loaded) :
          tick' = Busy(j, Due(Loaded) \ {j}) /\ begun' = begun \cup {j}
    BY <1>7
  <2>2. /\ tick'.pc = "busy" /\ tick'.job = j /\ tick'.todo = Due(Loaded) \ {j} /\ tick'.own = TRUE
        /\ tick' \in Runs /\ tick' # NoTick
    BY <2>1 DEF Busy, Runs, Due, NoTick
  <2>3. \A k \in Due(Loaded) : k \in Job /\ Enabled(Loaded, k) /\ (OneShot(k) => k \in past)
    BY <1>1 DEF Due, Sane
  <2>4. ~shared => \A k \in Due(Loaded) : OneShot(k) => k \notin finished
    BY <1>5 DEF Due
  <2>5. Rows'
    BY <1>1, <1>3, <1>7 DEF Inv, Rows, Sane
  <2>6. Shapes'
    BY <1>2, <1>3, <1>7, <2>1, <2>2, <2>3 DEF Inv, Shapes
  <2>7. Moments'
    BY <1>3, <2>1, <2>2, <2>3 DEF Inv, Moments
  <2>8. Owned'
    BY <1>2, <1>3, <1>4, <1>7, <2>2 DEF Owned
  <2>9. Pending'
    <3>1. \A k \in tick'.todo : k # tick'.job /\ Enabled(mem', k) /\ (~shared /\ OneShot(k) => k \notin finished)
      BY <2>2, <2>3, <2>4, <1>7
    <3>2. ~shared => \A k \in finished : OneShot(k) => mem'[k].next = "none"
      BY <1>5, <1>7
    <3> QED BY <1>3, <3>1, <3>2 DEF Pending, Enabled
  <2>10. TimerCovers'
    BY <2>2 DEF TimerCovers
  <2> QED BY <2>5, <2>6, <2>7, <2>8, <2>9, <2>10 DEF Inv
<1> QED BY <1>6, <1>7 DEF Wake

LEMMA JobDoneKeeps == ASSUME Inv, JobDone PROVE Inv'
<1>1. tick \in Runs /\ tick.pc = "busy" /\ running /\ tick # NoTick
  BY BusyTick DEF JobDone
<1>2. tick.job \in Job /\ tick.own \in BOOLEAN /\ tick.todo \subseteq Job
  BY <1>1 DEF Runs
<1> DEFINE rows == Advance(mem, tick.job, tick.own)
<1>3. /\ Sane(rows)
      /\ \A k \in Job : k # tick.job => rows[k] = mem[k]
      /\ OneShot(tick.job) /\ tick.own => rows[tick.job].next = "none"
  BY <1>2, Advanced DEF Inv, Rows
<1>4. /\ finished' = finished \cup {tick.job}
      /\ UNCHANGED <<running, manual, past, calls, shared>>
  BY DEF JobDone
<1>5. /\ tick.job \in begun /\ finished' \subseteq begun
      /\ \A j \in finished' : OneShot(j) => j \in past
      /\ \A j \in tick.todo : OneShot(j) => j \in past
  BY <1>1, <1>4 DEF Inv, Moments, Shapes
<1>6. ~shared => \A j \in finished' : OneShot(j) => rows[j].next = "none"
  BY <1>1, <1>2, <1>3, <1>4, <1>5 DEF Inv, Pending, Owned, Shapes
<1>7. manual' \in {NoTick} \cup Runs /\ calls' \in 0..MaxCalls
  BY <1>4 DEF Inv, Shapes
<1>8. \/ tick.todo = {} /\ SaveAndArm(rows) /\ UNCHANGED begun
      \/ /\ \E j \in tick.todo : /\ tick' = [tick EXCEPT !.job = j, !.todo = @ \ {j}]
                                 /\ begun' = begun \cup {j}
         /\ mem' = rows /\ UNCHANGED <<disk, known>>
  BY DEF JobDone
<1> HIDE DEF rows
<1>9. CASE SaveAndArm(rows) /\ UNCHANGED begun
  <2>1. /\ mem' = rows /\ disk' = rows /\ known' = TRUE /\ running' \in BOOLEAN
        /\ tick' = IF running' /\ \E j \in Job : Enabled(rows, j) /\ rows[j].next # "none"
                   THEN Asleep ELSE NoTick
    BY <1>4, <1>9 DEF SaveAndArm, Save, Armed, Inv, Shapes
  <2> QED BY <1>3, <1>4, <1>5, <1>6, <1>7, <1>9, <2>1, Saved
<1>10. CASE /\ \E j \in tick.todo : /\ tick' = [tick EXCEPT !.job = j, !.todo = @ \ {j}]
                                    /\ begun' = begun \cup {j}
            /\ mem' = rows /\ UNCHANGED <<disk, known>>
  <2>1. PICK j \in tick.todo : /\ tick' = [tick EXCEPT !.job = j, !.todo = @ \ {j}]
                               /\ begun' = begun \cup {j}
    BY <1>10
  <2>2. /\ tick' \in Runs /\ tick'.pc = "busy" /\ tick'.job = j /\ tick'.todo = tick.todo \ {j}
        /\ tick'.own = tick.own /\ tick' # NoTick
    BY <1>1, <1>2, <2>1 DEF Runs, NoTick
  <2>3. Rows'
    BY <1>3, <1>4, <1>10 DEF Inv, Rows, Sane
  <2>4. Shapes'
    BY <1>2, <1>4, <1>5, <1>7, <1>10, <2>1, <2>2 DEF Inv, Shapes
  <2>5. Moments'
    BY <1>4, <1>5, <2>1, <2>2 DEF Moments
  <2>6. Owned'
    BY <1>1, <1>4, <1>10, <2>2 DEF Inv, Owned
  <2>7. Pending'
    <3>1. ASSUME ~shared, NEW k \in tick.todo \ {j}
          PROVE  /\ k # j /\ Enabled(mem', k)
                 /\ OneShot(k) => k \notin finished'
      <4>1. k \in Job /\ k # tick.job /\ Enabled(mem, k) /\ (OneShot(k) => k \notin finished)
        BY <1>1, <1>2, <3>1 DEF Inv, Pending
      <4>2. mem'[k] = mem[k]
        BY <1>3, <1>10, <4>1
      <4> QED BY <1>4, <4>1, <4>2 DEF Enabled
    <3>2. ~shared => \A k \in finished' : OneShot(k) => mem'[k].next = "none"
      BY <1>6, <1>10
    <3> QED BY <1>4, <2>2, <3>1, <3>2 DEF Pending, Enabled
  <2>8. TimerCovers'
    BY <2>2 DEF TimerCovers
  <2> QED BY <2>3, <2>4, <2>5, <2>6, <2>7, <2>8 DEF Inv
<1> QED BY <1>8, <1>9, <1>10


-----------------------------------------------------------------------------
(* The steps that save nothing *)

LEMMA StopKeeps == ASSUME Inv, Stop PROVE Inv'
<1>1. /\ running' = FALSE /\ tick' = NoTick
      /\ UNCHANGED <<mem, disk, known, manual, past, begun, finished, shared>>
  BY DEF Stop
<1>2. calls' \in 0..MaxCalls
  BY Calls DEF Stop
<1>3. Rows'
  BY <1>1 DEF Inv, Rows, Sane
<1>4. Shapes'
  BY <1>1, <1>2 DEF Inv, Shapes
<1>5. Moments' /\ Owned' /\ Pending' /\ TimerCovers'
  BY <1>1 DEF Inv, Moments, Owned, Pending, TimerCovers, NoTick
<1> QED BY <1>3, <1>4, <1>5 DEF Inv

LEMMA CrashKeeps == ASSUME Inv, Crash PROVE Inv'
<1>1. /\ running' = FALSE /\ tick' = NoTick /\ manual' = NoTick /\ known' = FALSE
      /\ UNCHANGED <<mem, disk, past, begun, finished, shared>>
  BY DEF Crash
<1>2. calls' \in 0..MaxCalls
  BY Calls DEF Crash
<1>3. Rows'
  BY <1>1 DEF Inv, Rows, Sane
<1>4. Shapes'
  BY <1>1, <1>2 DEF Inv, Shapes
<1>5. Moments' /\ Owned' /\ Pending' /\ TimerCovers'
  BY <1>1 DEF Inv, Moments, Owned, Pending, TimerCovers, NoTick
<1> QED BY <1>3, <1>4, <1>5 DEF Inv

(* A row whose moment comes is due, and the moment is remembered. *)
Late(rows, j) == IF rows[j].next = "later" THEN [rows EXCEPT ![j].next = "due"] ELSE rows

LEMMA Lateness ==
  ASSUME NEW rows, Sane(rows), NEW j \in Job
  PROVE  /\ Late(rows, j) \in [Job -> Row]
         /\ \A k \in Job : /\ Late(rows, j)[k].st = rows[k].st /\ Late(rows, j)[k].on = rows[k].on
                           /\ Late(rows, j)[k].next = "none" <=> rows[k].next = "none"
                           /\ Late(rows, j)[k].next = "due" => k = j \/ rows[k].next = "due"
<1>1. rows \in [Job -> Row] /\ rows[j] \in Row
  BY DEF Sane
<1>2. CASE rows[j].next = "later"
  <2> DEFINE r == [rows[j] EXCEPT !.next = "due"]
  <2>1. Late(rows, j) = [rows EXCEPT ![j] = r]
    BY <1>1, <1>2 DEF Late
  <2>2. r \in Row /\ r.st = rows[j].st /\ r.on = rows[j].on /\ r.next = "due"
    BY <1>1 DEF Row
  <2> HIDE DEF r
  <2> QED BY <1>1, <1>2, <2>1, <2>2
<1>3. CASE rows[j].next # "later"
  BY <1>1, <1>3 DEF Late
<1> QED BY <1>2, <1>3

(* The rows stay sane once the moment is remembered. *)
LEMMA LateSane ==
  ASSUME NEW rows, Sane(rows), NEW j \in Job, NEW moments,
         past \subseteq moments, OneShot(j) => j \in moments
  PROVE  \A k \in Job : OneShot(k) /\ Late(rows, j)[k].next = "due" => k \in moments
BY Lateness DEF Sane

LEMMA ElapseKeeps == ASSUME Inv, NEW j \in Job, Elapse(j) PROVE Inv'
<1>1. /\ past' = IF Kind[j] = "every" THEN past ELSE past \cup {j}
      /\ mem' = Late(mem, j) /\ disk' = Late(disk, j)
      /\ UNCHANGED <<known, running, tick, manual, calls, begun, finished, shared>>
  BY DEF Elapse, Late
<1>2. past \subseteq past' /\ past' \subseteq Job /\ (OneShot(j) => j \in past')
  BY <1>1 DEF Inv, Shapes, OneShot
<1>3. Sane(mem) /\ Sane(disk)
  BY DEF Inv, Rows
<1>4. /\ mem' \in [Job -> Row]
      /\ \A k \in Job : /\ mem'[k].st = mem[k].st /\ mem'[k].on = mem[k].on
                        /\ mem'[k].next = "none" <=> mem[k].next = "none"
      /\ \A k \in Job : OneShot(k) /\ mem'[k].next = "due" => k \in past'
  <2> DEFINE rows == Late(mem, j)
  <2>1. rows \in [Job -> Row]
    BY <1>3, Lateness
  <2>2. \A k \in Job : /\ rows[k].st = mem[k].st /\ rows[k].on = mem[k].on
                       /\ rows[k].next = "none" <=> mem[k].next = "none"
    BY <1>3, Lateness
  <2>3. \A m : past \subseteq m /\ (OneShot(j) => j \in m) =>
          \A k \in Job : OneShot(k) /\ rows[k].next = "due" => k \in m
    BY <1>3, LateSane
  <2>4. \A k \in Job : OneShot(k) /\ rows[k].next = "due" => k \in past'
    BY <1>2, <2>3
  <2>5. mem' = rows
    BY <1>1
  <2> HIDE DEF rows
  <2> QED BY <2>1, <2>2, <2>4, <2>5
<1>5. /\ disk' \in [Job -> Row]
      /\ \A k \in Job : /\ disk'[k].st = disk[k].st /\ disk'[k].on = disk[k].on
                        /\ disk'[k].next = "none" <=> disk[k].next = "none"
      /\ \A k \in Job : OneShot(k) /\ disk'[k].next = "due" => k \in past'
  <2> DEFINE rows == Late(disk, j)
  <2>1. rows \in [Job -> Row]
    BY <1>3, Lateness
  <2>2. \A k \in Job : /\ rows[k].st = disk[k].st /\ rows[k].on = disk[k].on
                       /\ rows[k].next = "none" <=> disk[k].next = "none"
    BY <1>3, Lateness
  <2>3. \A m : past \subseteq m /\ (OneShot(j) => j \in m) =>
          \A k \in Job : OneShot(k) /\ rows[k].next = "due" => k \in m
    BY <1>3, LateSane
  <2>4. \A k \in Job : OneShot(k) /\ rows[k].next = "due" => k \in past'
    BY <1>2, <2>3
  <2>5. disk' = rows
    BY <1>1
  <2> HIDE DEF rows
  <2> QED BY <2>1, <2>2, <2>4, <2>5
<1>6. Rows'
  BY <1>3, <1>4, <1>5 DEF Rows, Sane
<1>7. Shapes'
  BY <1>1, <1>2 DEF Inv, Shapes
<1>8. Moments'
  BY <1>1, <1>2 DEF Inv, Moments
<1>9. Owned'
  BY <1>1 DEF Inv, Owned
<1>10. \A k \in Job : Enabled(mem, k)' <=> Enabled(mem, k)
  BY <1>4 DEF Enabled
<1>11. Pending'
  <2>1. tick.pc = "busy" => tick.todo \subseteq Job
    BY DEF Inv, Shapes, Runs, NoTick, Asleep
  <2>2. finished \subseteq Job
    BY DEF Inv, Shapes
  <2> QED BY <1>1, <1>4, <1>10, <2>1, <2>2 DEF Inv, Pending
<1>12. TimerCovers'
  BY <1>1, <1>4, <1>10 DEF Inv, TimerCovers
<1> QED BY <1>6, <1>7, <1>8, <1>9, <1>11, <1>12 DEF Inv

(* Loading rows, or a job object that becomes detached, while the timer's  *)
(* task stays where it is.                                                 *)
LEMMA LoadKeeps ==
  ASSUME Inv, mem' = Loaded, tick' = Detach(tick), manual' \in {NoTick} \cup Runs,
         calls' \in 0..MaxCalls, UNCHANGED <<disk, known, running, past, begun, finished, shared>>
  PROVE  Inv'
<1>1. /\ tick' \in {NoTick, Asleep} \cup Runs /\ tick'.pc = tick.pc
      /\ tick.pc = "busy" => tick'.job = tick.job /\ tick'.todo = tick.todo
      /\ known => tick' = tick
      /\ tick = NoTick <=> tick' = NoTick
  BY DetachTyped DEF Inv, Shapes
<1>2. running /\ ~shared => mem' = mem /\ tick' = tick
  BY <1>1, LoadsOwn DEF Inv, Owned
<1>3. tick.pc = "busy" => running
  BY DEF Inv, Owned, NoTick
<1>4. Rows'
  BY DEF Inv, Rows, Sane, Loaded
<1>5. Shapes'
  BY <1>1 DEF Inv, Shapes
<1>6. Moments'
  BY <1>1 DEF Inv, Moments
<1>7. Owned'
  BY <1>1, <1>2, <1>3 DEF Inv, Owned
<1>8. Pending'
  BY <1>1, <1>2, <1>3 DEF Inv, Pending, Enabled
<1>9. TimerCovers'
  BY <1>1, <1>2 DEF Inv, TimerCovers, Enabled
<1> QED BY <1>4, <1>5, <1>6, <1>7, <1>8, <1>9 DEF Inv

LEMMA LookKeeps == ASSUME Inv, Look PROVE Inv'
<1>1. manual' \in {NoTick} \cup Runs
  BY DetachTyped DEF Look, Inv, Shapes
<1>2. mem' = Loaded /\ calls' \in 0..MaxCalls
  BY DEF Look, Loaded, Inv, Shapes
<1> QED BY <1>1, <1>2, LoadKeeps DEF Look

LEMMA RunJobKeeps == ASSUME Inv, NEW j \in Job, RunJob(j) PROVE Inv'
<1>1. manual' \in {NoTick} \cup Runs
  BY DEF RunJob, Busy, Runs
<1> QED BY <1>1, Calls, LoadKeeps DEF RunJob

LEMMA RunJobCancelledKeeps == ASSUME Inv, RunJobCancelled PROVE Inv'
<1>1. /\ manual' = NoTick
      /\ UNCHANGED <<mem, disk, known, running, tick, past, calls, begun, finished, shared>>
  BY DEF RunJobCancelled
<1>2. Rows' /\ Shapes'
  BY <1>1 DEF Inv, Rows, Sane, Shapes
<1> QED BY <1>1, <1>2 DEF Inv, Moments, Owned, Pending, TimerCovers, Enabled

LEMMA OtherProcessKeeps == ASSUME Inv, NEW j \in Job, OtherProcess(j) PROVE Inv'
<1>1. /\ known' = FALSE /\ shared' = TRUE
      /\ UNCHANGED <<mem, running, tick, manual, past, begun, finished>>
  BY DEF OtherProcess
<1>2. calls' \in 0..MaxCalls
  BY Calls DEF OtherProcess
<1>3. Sane(disk) /\ Sane(mem)
  BY DEF Inv, Rows
<1>4. CASE disk' = [disk EXCEPT ![j] = [st |-> "live", on |-> TRUE, next |-> NextRun(j)]]
  <2> DEFINE r == [st |-> "live", on |-> TRUE, next |-> NextRun(j)]
  <2>1. r \in Row /\ r.st = "live" /\ r.on /\ r.next # "due"
    BY NextRunTyped DEF Row
  <2> HIDE DEF r
  <2>2. Sane([disk EXCEPT ![j] = r])
    BY <1>3, <2>1, SaneRow
  <2>3. Rows'
    BY <1>1, <1>3, <1>4, <2>2 DEF Rows, Sane, r
  <2> QED BY <1>1, <1>2, <2>3 DEF Inv, Shapes, Moments, Owned, Pending, TimerCovers
<1>5. CASE disk' = [disk EXCEPT ![j] = GoneRow]
  <2>1. Sane([disk EXCEPT ![j] = GoneRow])
    BY <1>3, GoneTyped, SaneRow
  <2>2. Rows'
    BY <1>1, <1>3, <1>5, <2>1 DEF Rows, Sane
  <2> QED BY <1>1, <1>2, <2>2 DEF Inv, Shapes, Moments, Owned, Pending, TimerCovers
<1> QED BY <1>4, <1>5 DEF OtherProcess

LEMMA Inductive == ASSUME Inv, [Next]_vars PROVE Inv'
<1>1. CASE Next
  BY <1>1, StartKeeps, StopKeeps, CrashKeeps, WakeKeeps, JobDoneKeeps, LookKeeps,
     RunJobDoneKeeps, RunJobCancelledKeeps, ElapseKeeps, AddJobKeeps, RemoveJobKeeps,
     RunJobKeeps, OtherProcessKeeps, EnableJobKeeps DEF Next
<1>2. CASE UNCHANGED vars
  <2>1. Rows' /\ Shapes'
    BY <1>2 DEF vars, Inv, Rows, Sane, Shapes
  <2> QED BY <1>2, <2>1 DEF vars, Inv, Moments, Owned, Pending, TimerCovers, Enabled
<1> QED BY <1>1, <1>2

LEMMA Invariant == Spec => []Inv
BY Initially, Inductive, PTL DEF Spec

-----------------------------------------------------------------------------
(* Every variable keeps its shape, and a one-shot job that is disabled has *)
(* no next run (cron/service.py:232, :303).                                *)
THEOREM CronTyped == Spec => []TypeOK
<1>1. Inv => TypeOK
  BY DEF Inv, Rows, Sane, Shapes, Runs, TypeOK, OneShot, NoTick, Asleep
<1> QED BY <1>1, Invariant, PTL

(* While the service runs and nobody else edits the file, a job with a     *)
(* next run has a timer task, whatever was added, removed, enabled, run,   *)
(* stopped or lost in a crash before (cron/service.py:200).                *)
THEOREM NothingUntimed == Spec => []TimerCovers
<1>1. Inv => TimerCovers
  BY DEF Inv
<1> QED BY <1>1, Invariant, PTL

(* The due jobs are collected once and run over minutes; still the timer   *)
(* starts no job that was removed or disabled meanwhile, and no one-shot   *)
(* job whose turn has ended (cron/service.py:224).                         *)
THEOREM NoStaleStart == Spec => StartsOnlyWhenDue
<1>1. Inv /\ Inv' /\ [Next]_vars =>
        [\A j \in Job : Starts(j) /\ ~shared =>
           Enabled(mem', j) /\ (Kind[j] = "every" \/ j \notin finished)]_vars
  <2> SUFFICES ASSUME Inv, Next, NEW j \in Job, Starts(j), ~shared
               PROVE  Enabled(mem', j) /\ (OneShot(j) => j \notin finished)
    BY DEF OneShot
  <2>1. CASE Wake
    <3>1. j \in Due(Loaded) /\ mem' = Loaded
      BY <2>1 DEF Wake, Starts, SaveAndArm, Armed, NoTick, Asleep, Busy
    <3>2. running /\ Loaded = mem
      BY <2>1, LoadsOwn DEF Wake, Inv, Owned, NoTick, Asleep
    <3> QED BY <3>1, <3>2 DEF Due, Inv, Pending
  <2>2. CASE JobDone
    <3>1. tick.pc = "busy" /\ tick \in Runs
      BY <2>2, BusyTick DEF JobDone
    <3>2. j \in tick.todo /\ mem' = Advance(mem, tick.job, tick.own)
      <4>1. tick'.pc = "busy" /\ tick'.job = j
        BY DEF Starts
      <4>2. \A rows : ~SaveAndArm(rows)
        BY <4>1 DEF SaveAndArm, Armed, NoTick, Asleep
      <4>3. PICK k \in tick.todo : tick' = [tick EXCEPT !.job = k, !.todo = @ \ {k}]
        BY <2>2, <4>2 DEF JobDone
      <4>4. k = j
        BY <3>1, <4>1, <4>3 DEF Runs
      <4> QED BY <2>2, <4>2, <4>4 DEF JobDone
    <3>3. j # tick.job /\ Enabled(mem, j) /\ (OneShot(j) => j \notin finished)
      BY <3>1, <3>2 DEF Inv, Pending
    <3>4. mem'[j] = mem[j]
      BY <3>1, <3>2, <3>3, Advanced DEF Inv, Rows, Runs
    <3> QED BY <3>3, <3>4 DEF Enabled
  <2>3. CASE ~Wake /\ ~JobDone
    <3>1. tick'.pc = "busy" => tick.pc = "busy" /\ tick'.job = tick.job
      <4>1. \A run \in {NoTick, Asleep} : run.pc # "busy"
        BY DEF NoTick, Asleep
      <4>2. Detach(tick).pc = tick.pc /\ (tick.pc = "busy" => Detach(tick).job = tick.job)
        BY DetachTyped DEF Inv, Shapes
      <4>3. tick' \in {NoTick, Asleep} \/ tick' = tick \/ tick' = Detach(tick)
        BY <2>3 DEF Next, Start, Stop, Crash, Look, RunJobDone, RunJobCancelled, Elapse, AddJob,
                    RemoveJob, RunJob, OtherProcess, EnableJob, SaveAndArm, Armed
      <4> QED BY <4>1, <4>2, <4>3
    <3> QED BY <3>1 DEF Starts
  <2> QED BY <2>1, <2>2, <2>3
<1> QED BY <1>1, Invariant, PTL DEF Spec, StartsOnlyWhenDue

=============================================================================
