----------------------------- MODULE Experience -----------------------------
(***************************************************************************)
(* Experience and Skill evolution (src/PhyAgentOS/agent/experience): the   *)
(* episode of a finished task, the job that reflects on it, the clusters   *)
(* of failures and their Lessons, the Skill candidate of one workflow.     *)
(*                                                                         *)
(* A coroutine runs alone between two awaits, but each of its writes is a  *)
(* transaction of its own and the process may die between two of them: a   *)
(* step is one transaction, and Busy keeps the other coroutines out.       *)
(* What the reflection model answers is any value its contract admits.     *)
(***************************************************************************)
EXTENDS Naturals, FiniteSets

CONSTANTS
  Root,        \* tasks (root_task_id)
  Cluster,     \* failure patterns of one Skill and workflow
  MinSuccess,  \* min_successful_episodes
  MinLesson,   \* min_lesson_episodes
  MaxEvoCalls, \* max_calls of one run; 0: no limit
  MaxEvoTries, \* attempts of a job before it fails
  MaxRevision, \* bound: candidates of the workflow
  MaxFaults    \* bound: answers and writes that fail, process ends

ASSUME ExperienceAssumption ==
  /\ MinSuccess \in Nat \ {0} /\ MinLesson \in Nat \ {0}
  /\ MaxEvoCalls \in Nat /\ MaxEvoTries \in Nat \ {0}
  /\ MaxRevision \in Nat /\ MaxFaults \in Nat
  /\ IsFiniteSet(Root)

VARIABLES
  episode,   \* episodes: how the task of a root ended
  job,       \* evolution_jobs
  work,      \* the coroutine of a job, with the assessment it applies
  cluster,   \* lesson_clusters: the records
  support,   \* lesson_cluster_support: (cluster, root) pairs
  cjob,      \* lesson_cluster_jobs
  cwork,     \* the coroutine of a cluster job, with the record it has read
  lesson,    \* scoped_lessons: one per cluster
  candidate, \* skill_candidates by target_revision
  skillFile, \* revision in the managed block of SKILL.md
  evoCalls,  \* ExperienceCoordinator.calls
  expFaults

expVars == <<episode, job, work, cluster, support, cjob, cwork, lesson, candidate,
             skillFile, evoCalls, expFaults>>

Revision == 1..MaxRevision
Rows == {"none", "pending", "running", "completed", "failed"}
JobRow == [status: Rows, tries: 0..MaxEvoTries]
NoJob == [status |-> "none", tries |-> 0]

(* experience_assessment_v1: the patterns it observed, the Lessons it     *)
(* contradicts, whether it proposes a candidate and reports conflicts.    *)
Assessment == [seen: SUBSET Cluster, against: SUBSET Cluster, reusable: BOOLEAN,
               conflict: BOOLEAN]
Nothing == [seen |-> {}, against |-> {}, reusable |-> FALSE, conflict |-> FALSE]

(* at: the cluster the coroutine writes about next, if any. *)
Applying == {"observe", "follow", "counter", "reopen", "promote", "record", "finish"}
NoWork == [pc |-> "none", a |-> Nothing, at |-> {}, due |-> {}]
WorkRec == [pc: {"none", "ready", "assess", "sleep"} \cup Applying, a: Assessment,
            at: SUBSET Cluster, due: SUBSET Cluster]

NoCluster == [status |-> "none", count |-> 0, draft |-> FALSE]
ClusterRec == [status: {"none", "collecting", "blocked", "activated"},
               count: 0..Cardinality(Root), draft: BOOLEAN]
NoCWork == [pc |-> "none", held |-> NoCluster, old |-> {}]
CWorkRec == [pc: {"none", "ready", "synthesize", "validate", "settle", "sleep"},
             held: ClusterRec, old: SUBSET Cluster]
NoLesson == [status |-> "none", from |-> {}, against |-> {}]
LessonRec == [status: {"none", "active", "superseded", "retired"},
              from: SUBSET Root, against: SUBSET Root]
NoCandidate == [status |-> "none", by |-> {}, errors |-> FALSE]
CandidateRec == [status: {"none", "collecting", "blocked", "promoted"}, by: SUBSET Root,
                 errors: BOOLEAN]

ExpTypeOK ==
  /\ episode \in [Root -> {"none", "success", "mixed", "failure", "barren"}]
  /\ job \in [Root -> JobRow]
  /\ work \in [Root -> WorkRec]
  /\ cluster \in [Cluster -> ClusterRec]
  /\ support \in [Cluster -> SUBSET Root]
  /\ cjob \in [Cluster -> JobRow]
  /\ cwork \in [Cluster -> CWorkRec]
  /\ lesson \in [Cluster -> LessonRec]
  /\ candidate \in [Revision -> CandidateRec]
  /\ skillFile \in 0..MaxRevision
  /\ evoCalls \in 0..MaxEvoCalls
  /\ expFaults \in 0..MaxFaults

ExpInit ==
  /\ episode = [r \in Root |-> "none"]
  /\ job = [r \in Root |-> NoJob]
  /\ work = [r \in Root |-> NoWork]
  /\ cluster = [c \in Cluster |-> NoCluster]
  /\ support = [c \in Cluster |-> {}]
  /\ cjob = [c \in Cluster |-> NoJob]
  /\ cwork = [c \in Cluster |-> NoCWork]
  /\ lesson = [c \in Cluster |-> NoLesson]
  /\ candidate = [k \in Revision |-> NoCandidate]
  /\ skillFile = 0
  /\ evoCalls = 0
  /\ expFaults = 0

-----------------------------------------------------------------------------
(* AgentTaskOutcomeSource and TaskOutcomeEnvelope: what a finished task    *)
(* says.  "off": no verification, a verdict is inferred from the status.   *)
(* failedAttempt: a revision with a record has the verdict failure or      *)
(* replan_required; a verdict of a revision without records is not seen.   *)
FinishedTask ==
  [off: BOOLEAN, succeeded: BOOLEAN, verdict: {"none", "success", "failure", "inconclusive"},
   satisfied: BOOLEAN, failedAttempt: BOOLEAN]

Consistent(t) == t.off => t.verdict = "none" /\ ~t.failedAttempt
FinalVerdict(t) ==
  IF t.verdict = "none" /\ t.off THEN (IF t.succeeded THEN "success" ELSE "failure")
  ELSE t.verdict
Successful(t) == FinalVerdict(t) = "success" /\ (t.off \/ t.satisfied)
Learnable(t) == Successful(t) \/ FinalVerdict(t) = "failure"
Kind(t) ==
  CASE Successful(t) /\ ~t.failedAttempt  -> "success"
    [] Successful(t) /\ t.failedAttempt   -> "mixed"
    [] ~Successful(t) /\ t.failedAttempt  -> "failure"
    [] OTHER                              -> "barren"

IsSuccess(r) == episode[r] \in {"success", "mixed"}
IsFailure(r) == episode[r] \in {"failure", "mixed"}

Busy ==
  \/ \E r \in Root : work[r].pc \in Applying
  \/ \E c \in Cluster : cwork[c].pc = "settle"

Fault == expFaults < MaxFaults /\ expFaults' = expFaults + 1
Ready == [NoWork EXCEPT !.pc = "ready"]
CReady == [NoCWork EXCEPT !.pc = "ready"]

(* schedule_forge_completion: one episode and one job per root, however    *)
(* often the completion of the task is reported.                          *)
CompleteTask(r, t) ==
  /\ ~Busy
  /\ Consistent(t) /\ Learnable(t)
  /\ episode[r] = "none"
  /\ episode' = [episode EXCEPT ![r] = Kind(t)]
  /\ job' = [job EXCEPT ![r] = [status |-> "pending", tries |-> 0]]
  /\ work' = [work EXCEPT ![r] = Ready]
  /\ UNCHANGED <<cluster, support, cjob, cwork, lesson, candidate, skillFile, evoCalls, expFaults>>

-----------------------------------------------------------------------------
(* _process_job *)

Claimable == MaxEvoCalls = 0 \/ evoCalls < MaxEvoCalls
Claim == evoCalls' = IF MaxEvoCalls = 0 THEN evoCalls ELSE evoCalls + 1

Begun(row) == [status |-> "running",
               tries |-> IF row.tries < MaxEvoTries THEN row.tries + 1 ELSE MaxEvoTries]

RunJob(r) ==
  /\ ~Busy
  /\ work[r].pc = "ready"
  /\ \/ /\ ~Claimable
        /\ job' = [job EXCEPT ![r].status = "pending"]
        /\ work' = [work EXCEPT ![r] = NoWork]
        /\ UNCHANGED evoCalls
     \/ /\ Claimable /\ Claim
        /\ job[r].status = "pending"
        /\ job' = [job EXCEPT ![r] = Begun(@)]
        /\ work' = [work EXCEPT ![r].pc = "assess"]
  /\ UNCHANGED <<episode, cluster, support, cjob, cwork, lesson, candidate, skillFile, expFaults>>

Failed(row) == [row EXCEPT !.status = IF row.tries < MaxEvoTries THEN "pending" ELSE "failed"]
Slept(row) == IF row.tries < MaxEvoTries THEN "sleep" ELSE "none"

(* The model fails or times out, or a write raises: retry after a second,  *)
(* at most three times.                                                   *)
JobRaises(r) ==
  /\ Fault
  /\ work[r].pc \in Applying \/ (work[r].pc = "assess" /\ ~Busy)
  /\ job' = [job EXCEPT ![r] = Failed(@)]
  /\ work' = [work EXCEPT ![r] = [NoWork EXCEPT !.pc = Slept(job[r])]]
  /\ UNCHANGED <<episode, cluster, support, cjob, cwork, lesson, candidate, skillFile,
                 evoCalls>>

RetryJob(r) ==
  /\ ~Busy
  /\ work[r].pc = "sleep"
  /\ work' = [work EXCEPT ![r] = Ready]
  /\ UNCHANGED <<episode, job, cluster, support, cjob, cwork, lesson, candidate, skillFile,
                 evoCalls, expFaults>>

ActiveLessons == {c \in Cluster : lesson[c].status = "active"}

(* Mutant: a task that did not succeed may support a candidate. *)
AssessedAnyway(r, a) ==
  /\ ~Busy
  /\ work[r].pc = "assess"
  /\ a.against \subseteq ActiveLessons
  /\ a.conflict => a.reusable
  /\ LET used == [seen |-> IF IsFailure(r) THEN a.seen ELSE {},
                  against |-> IF IsSuccess(r) THEN a.against ELSE {},
                  reusable |-> a.reusable,
                  conflict |-> a.conflict /\ IsSuccess(r)]
     IN  work' = [work EXCEPT ![r] = [NoWork EXCEPT !.pc = "observe", !.a = used]]
  /\ UNCHANGED <<episode, job, cluster, support, cjob, cwork, lesson, candidate, skillFile,
                 evoCalls, expFaults>>

(* The model has answered.  Observations are of use only when an attempt   *)
(* has failed, counterexamples and a candidate only of a success; a Lesson *)
(* that is not active by now cannot be contradicted.                       *)
Assessed(r, a) ==
  /\ ~Busy
  /\ work[r].pc = "assess"
  /\ a.against \subseteq ActiveLessons
  /\ a.conflict => a.reusable
  /\ LET used == [seen |-> IF IsFailure(r) THEN a.seen ELSE {},
                  against |-> IF IsSuccess(r) THEN a.against ELSE {},
                  reusable |-> a.reusable /\ IsSuccess(r),
                  conflict |-> a.conflict /\ IsSuccess(r)]
     IN  work' = [work EXCEPT ![r] = [NoWork EXCEPT !.pc = "observe", !.a = used]]
  /\ UNCHANGED <<episode, job, cluster, support, cjob, cwork, lesson, candidate, skillFile,
                 evoCalls, expFaults>>

-----------------------------------------------------------------------------
(* SkillEvolutionManager.apply, one transaction at a time *)

(* add_observation: a root counts once; new support reopens a blocked cluster. *)
Observed(c, r) ==
  LET new == r \notin support[c]
      was == IF cluster[c].status = "none" THEN [NoCluster EXCEPT !.status = "collecting"]
             ELSE cluster[c]
      now == [was EXCEPT !.count = Cardinality(support[c] \cup {r})]
  IN  IF new /\ was.status = "blocked"
        THEN [now EXCEPT !.status = "collecting", !.draft = FALSE]
        ELSE now

\* For the mutant of Observe: a job that is processed again counts again.
ObserveAgain(r, c) ==
  /\ work[r].pc = "observe" /\ c \in work[r].a.seen
  /\ LET count == IF cluster[c].count < MinLesson THEN cluster[c].count + 1 ELSE MinLesson
         now == [Observed(c, r) EXCEPT !.count = count]
     IN  /\ cluster' = [cluster EXCEPT ![c] = now]
         /\ work' = [work EXCEPT ![r].a.seen = @ \ {c},
                                 ![r].pc = IF count >= MinLesson THEN "follow" ELSE @,
                                 ![r].at = IF count >= MinLesson THEN {c} ELSE {}]
  /\ support' = [support EXCEPT ![c] = @ \cup {r}]
  /\ UNCHANGED <<episode, job, cjob, cwork, lesson, candidate, skillFile, evoCalls, expFaults>>

Observe(r, c) ==
  /\ work[r].pc = "observe" /\ c \in work[r].a.seen
  /\ LET now == Observed(c, r)
         follow == now.status = "activated" \/ (r \notin support[c] /\ now.count >= MinLesson)
     IN  /\ cluster' = [cluster EXCEPT ![c] = now]
         /\ work' = [work EXCEPT ![r].a.seen = @ \ {c},
                                 ![r].pc = IF follow THEN "follow" ELSE @,
                                 ![r].at = IF follow THEN {c} ELSE {}]
  /\ support' = [support EXCEPT ![c] = @ \cup {r}]
  /\ UNCHANGED <<episode, job, cjob, cwork, lesson, candidate, skillFile, evoCalls, expFaults>>

(* The Lesson of an activated cluster gains the episode ... *)
Attach(r, c) ==
  /\ work[r].pc = "follow" /\ work[r].at = {c} /\ cluster[c].status = "activated"
  /\ lesson' = [lesson EXCEPT ![c].from = @ \cup {r}]
  /\ work' = [work EXCEPT ![r].pc = "observe", ![r].at = {}]
  /\ UNCHANGED <<episode, job, cluster, support, cjob, cwork, candidate, skillFile,
                 evoCalls, expFaults>>

(* ... and new support that is enough queues the cluster job, unless it runs. *)
EnqueueCluster(r, c) ==
  /\ work[r].pc = "follow" /\ work[r].at = {c} /\ cluster[c].status # "activated"
  /\ cjob' = IF cjob[c].status = "running" THEN cjob
             ELSE [cjob EXCEPT ![c].status = "pending"]
  /\ work' = [work EXCEPT ![r].pc = "observe", ![r].at = {}, ![r].due = @ \cup {c}]
  /\ UNCHANGED <<episode, job, cluster, support, cwork, lesson, candidate, skillFile,
                 evoCalls, expFaults>>

(* _add_counterexample: enough of them retire the Lesson ... *)
Counter(r, c) ==
  /\ work[r].pc \in {"observe", "counter"} /\ work[r].a.seen = {} /\ c \in work[r].a.against
  /\ LET against == lesson[c].against \cup {r}
         retired == Cardinality(against) >= MinSuccess
     IN  /\ lesson' = [lesson EXCEPT ![c].against = against,
                                     ![c].status = IF retired THEN "retired" ELSE @]
         /\ work' = [work EXCEPT ![r].a.against = @ \ {c}, ![r].at = IF retired THEN {c} ELSE {},
                                 ![r].pc = IF retired THEN "reopen" ELSE "counter"]
  /\ UNCHANGED <<episode, job, cluster, support, cjob, cwork, candidate, skillFile,
                 evoCalls, expFaults>>

(* ... and reopen its cluster. *)
Reopen(r, c) ==
  /\ work[r].pc = "reopen" /\ work[r].at = {c}
  /\ cluster' = [cluster EXCEPT ![c].status = "collecting", ![c].draft = FALSE]
  /\ work' = [work EXCEPT ![r].pc = "counter", ![r].at = {}]
  /\ UNCHANGED <<episode, job, support, cjob, cwork, lesson, candidate, skillFile,
                 evoCalls, expFaults>>

Applied(r) == work[r].pc \in {"observe", "counter"} /\ work[r].a.seen = {} /\ work[r].a.against = {}

(* _support_candidate: the open candidate of the workflow, or the next     *)
(* revision; active Lessons of the workflow and conflicts block it.        *)
OpenRevisions == {k \in Revision : candidate[k].status \in {"collecting", "blocked"}}
NextRevision == 1 + Cardinality({k \in Revision : candidate[k].status # "none"})
Target == IF OpenRevisions # {} THEN CHOOSE k \in OpenRevisions : TRUE ELSE NextRevision

Propose(r) ==
  /\ Applied(r) /\ work[r].a.reusable
  /\ Target \in Revision
  /\ LET c == candidate[Target]
         blocked == ActiveLessons # {} \/ work[r].a.conflict
         by == c.by \cup {r}
     IN  /\ candidate' = [candidate EXCEPT ![Target] =
                            [status |-> IF blocked THEN "blocked" ELSE "collecting",
                             by |-> by, errors |-> work[r].a.conflict]]
         /\ work' = [work EXCEPT ![r].pc = IF Cardinality(by) >= MinSuccess
                                             THEN "promote" ELSE "finish"]
  /\ UNCHANGED <<episode, job, cluster, support, cjob, cwork, lesson, skillFile,
                 evoCalls, expFaults>>

(* _promote_if_ready: blocked, refused by the policy on content, or written. *)
Promote(r) ==
  /\ work[r].pc = "promote"
  /\ \/ /\ ActiveLessons # {} \/ candidate[Target].errors
        /\ candidate' = [candidate EXCEPT ![Target].status = "blocked"]
        /\ UNCHANGED skillFile
        /\ work' = [work EXCEPT ![r].pc = "finish"]
     \/ /\ ActiveLessons = {} /\ ~candidate[Target].errors
        /\ candidate' = [candidate EXCEPT ![Target].status = "blocked", ![Target].errors = TRUE]
        /\ UNCHANGED skillFile
        /\ work' = [work EXCEPT ![r].pc = "finish"]
     \/ /\ ActiveLessons = {} /\ ~candidate[Target].errors
        /\ skillFile' = Target
        /\ UNCHANGED candidate
        /\ work' = [work EXCEPT ![r].pc = "record"]
  /\ UNCHANGED <<episode, job, cluster, support, cjob, cwork, lesson, evoCalls, expFaults>>

RecordPromotion(r) ==
  /\ work[r].pc = "record"
  /\ candidate' = [candidate EXCEPT ![Target].status = "promoted"]
  /\ work' = [work EXCEPT ![r].pc = "finish"]
  /\ UNCHANGED <<episode, job, cluster, support, cjob, cwork, lesson, skillFile,
                 evoCalls, expFaults>>

(* The episode is processed, the job completed, the due clusters scheduled. *)
FinishJob(r) ==
  /\ work[r].pc = "finish" \/ (Applied(r) /\ ~work[r].a.reusable)
  /\ job' = [job EXCEPT ![r].status = "completed"]
  /\ work' = [work EXCEPT ![r] = NoWork]
  /\ cwork' = [c \in Cluster |-> IF c \in work[r].due /\ cwork[c].pc = "none"
                                   THEN CReady ELSE cwork[c]]
  /\ UNCHANGED <<episode, cluster, support, cjob, lesson, candidate, skillFile,
                 evoCalls, expFaults>>

-----------------------------------------------------------------------------
(* _process_cluster_job *)

CDone(c) ==
  /\ cjob' = [cjob EXCEPT ![c].status = "completed"]
  /\ cwork' = [cwork EXCEPT ![c] = NoCWork]

Deferred(c) ==
  /\ cjob' = [cjob EXCEPT ![c].status = "pending"]
  /\ cwork' = [cwork EXCEPT ![c] = NoCWork]
  /\ UNCHANGED evoCalls

Ask(c, pc, held) ==
  /\ Claimable /\ Claim
  /\ cwork' = [cwork EXCEPT ![c] = [NoCWork EXCEPT !.pc = pc, !.held = held]]

Block(c, held) ==
  /\ cluster' = [cluster EXCEPT ![c] = [held EXCEPT !.status = "blocked"]]
  /\ CDone(c)
  /\ UNCHANGED evoCalls

RunClusterJob(c) ==
  /\ ~Busy
  /\ cwork[c].pc = "ready"
  /\ cjob[c].status = "pending"
  /\ LET row == Begun(cjob[c])
         held == cluster[c]
     IN  \/ /\ held.status \in {"none", "activated"} \/ held.count < MinLesson
            /\ cjob' = [cjob EXCEPT ![c] = [row EXCEPT !.status = "completed"]]
            /\ cwork' = [cwork EXCEPT ![c] = NoCWork]
            /\ UNCHANGED evoCalls
         \/ /\ held.status \notin {"none", "activated"} /\ held.count >= MinLesson
            /\ \/ /\ Ask(c, IF held.draft THEN "validate" ELSE "synthesize", held)
                  /\ cjob' = [cjob EXCEPT ![c] = row]
               \/ /\ ~Claimable
                  /\ cjob' = [cjob EXCEPT ![c] = [row EXCEPT !.status = "pending"]]
                  /\ cwork' = [cwork EXCEPT ![c] = NoCWork]
                  /\ UNCHANGED evoCalls
  /\ UNCHANGED <<episode, job, work, cluster, support, lesson, candidate, skillFile, expFaults>>

(* A draft has come: it is stored with the record read before the call,   *)
(* then the static policy, then the budget.                               *)
Synthesized(c) ==
  /\ ~Busy
  /\ cwork[c].pc = "synthesize"
  /\ LET held == [cwork[c].held EXCEPT !.draft = TRUE]
     IN  \/ Block(c, held)
         \/ /\ cluster' = [cluster EXCEPT ![c] = held]
            /\ \/ Ask(c, "validate", held) /\ UNCHANGED cjob
               \/ ~Claimable /\ Deferred(c)
  /\ UNCHANGED <<episode, job, work, support, lesson, candidate, skillFile, expFaults>>

(* The abstraction is rejected: the cluster is blocked. *)
Rejected(c) ==
  /\ ~Busy
  /\ cwork[c].pc = "validate"
  /\ Block(c, cwork[c].held)
  /\ UNCHANGED <<episode, job, work, support, lesson, candidate, skillFile, expFaults>>

(* It is accepted: the Lesson becomes active, from every observation in the *)
(* table by now; the active Lessons it replaces are superseded, then the    *)
(* cluster is activated.                                                   *)
Accepted(c, old) ==
  /\ ~Busy
  /\ cwork[c].pc = "validate"
  /\ old \subseteq ActiveLessons \ {c}
  /\ lesson' = [lesson EXCEPT ![c].status = "active", ![c].from = @ \cup support[c]]
  /\ cwork' = [cwork EXCEPT ![c].pc = "settle", ![c].old = old]
  /\ UNCHANGED <<episode, job, work, cluster, support, cjob, candidate, skillFile,
                 evoCalls, expFaults>>

Supersede(c, d) ==
  /\ cwork[c].pc = "settle" /\ d \in cwork[c].old
  /\ lesson' = [lesson EXCEPT ![d].status = "superseded"]
  /\ cwork' = [cwork EXCEPT ![c].old = @ \ {d}]
  /\ UNCHANGED <<episode, job, work, cluster, support, cjob, candidate, skillFile,
                 evoCalls, expFaults>>

Settle(c) ==
  /\ cwork[c].pc = "settle" /\ cwork[c].old = {}
  /\ cluster' = [cluster EXCEPT ![c] = [cwork[c].held EXCEPT !.status = "activated"]]
  /\ CDone(c)
  /\ UNCHANGED <<episode, job, work, support, lesson, candidate, skillFile, evoCalls, expFaults>>

ClusterJobRaises(c) ==
  /\ Fault
  /\ cwork[c].pc = "settle" \/ (cwork[c].pc \in {"synthesize", "validate"} /\ ~Busy)
  /\ cjob' = [cjob EXCEPT ![c] = Failed(@)]
  /\ cwork' = [cwork EXCEPT ![c] = [NoCWork EXCEPT !.pc = Slept(cjob[c])]]
  /\ UNCHANGED <<episode, job, work, cluster, support, lesson, candidate, skillFile,
                 evoCalls>>

RetryClusterJob(c) ==
  /\ ~Busy
  /\ cwork[c].pc = "sleep"
  /\ cwork' = [cwork EXCEPT ![c].pc = "ready"]
  /\ UNCHANGED <<episode, job, work, cluster, support, cjob, lesson, candidate, skillFile,
                 evoCalls, expFaults>>

-----------------------------------------------------------------------------
(* The process dies; the next one returns running jobs to pending and       *)
(* schedules all that are.                                                  *)
Reset(row) == IF row.status = "running" THEN [row EXCEPT !.status = "pending"] ELSE row

RestartExperience ==
  /\ Fault
  /\ job' = [r \in Root |-> Reset(job[r])]
  /\ cjob' = [c \in Cluster |-> Reset(cjob[c])]
  /\ work' = [r \in Root |-> IF Reset(job[r]).status = "pending"
                               THEN Ready ELSE NoWork]
  /\ cwork' = [c \in Cluster |-> IF Reset(cjob[c]).status = "pending"
                                   THEN CReady ELSE NoCWork]
  /\ evoCalls' = 0
  /\ UNCHANGED <<episode, cluster, support, lesson, candidate, skillFile>>

ExpNext ==
  \/ \E r \in Root :
       \/ \E t \in FinishedTask : CompleteTask(r, t)
       \/ RunJob(r) \/ JobRaises(r) \/ RetryJob(r)
       \/ \E a \in Assessment : Assessed(r, a)
       \/ \E c \in Cluster :
            \/ Observe(r, c) \/ Attach(r, c) \/ EnqueueCluster(r, c)
            \/ Counter(r, c) \/ Reopen(r, c)
       \/ Propose(r) \/ Promote(r) \/ RecordPromotion(r) \/ FinishJob(r)
  \/ \E c \in Cluster :
       \/ RunClusterJob(c) \/ Synthesized(c) \/ Rejected(c) \/ Settle(c)
       \/ \E old \in SUBSET Cluster : Accepted(c, old)
       \/ \E d \in Cluster : Supersede(c, d)
       \/ ClusterJobRaises(c) \/ RetryClusterJob(c)
  \/ RestartExperience

ExpSpec == ExpInit /\ [][ExpNext]_expVars

-----------------------------------------------------------------------------
(* An active Lesson rests on the failures of enough distinct tasks, each   *)
(* counted once, whatever was retried, interrupted or processed again.     *)
LessonEarned ==
  \A c \in ActiveLessons :
    /\ Cardinality(lesson[c].from) >= MinLesson
    /\ \A r \in lesson[c].from : IsFailure(r)

(* SKILL.md changes only for enough distinct successful tasks and while no *)
(* active Lesson speaks against the workflow.                              *)
PromotionEarned ==
  [][skillFile' # skillFile =>
       /\ Cardinality(candidate[skillFile'].by) >= MinSuccess
       /\ \A r \in candidate[skillFile'].by : IsSuccess(r)
       /\ ActiveLessons = {}]_expVars
=============================================================================
