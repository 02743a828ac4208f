----------------------------- MODULE AgentTask ------------------------------
(***************************************************************************)
(* The AgentTask coordinator (src/PhyAgentOS/forge/task.py) with the Tool  *)
(* wrappers that call it, the store it writes, the Runtime guards it       *)
(* keeps, the Gateway it talks to, and the turns that run it.              *)
(*                                                                         *)
(* An actor is one coroutine that calls the coordinator: a chat turn, a    *)
(* cron or heartbeat turn (process_direct takes no lock), or /stop.  A     *)
(* step is what runs between two awaits; act[a] holds what the coroutine   *)
(* has read and will still use when the await returns.  Every store update *)
(* is one SQLite transaction; a crash may also fall between two writes of  *)
(* one synchronous block ("torn").                                         *)
(*                                                                         *)
(* Data is abstract.  A Tool with its arguments is a Request; the record,  *)
(* its caller and its invocation are one identity in Rec.                  *)
(***************************************************************************)
EXTENDS Naturals, FiniteSets

CONSTANTS
  Actor,       \* coroutines that may be inside the coordinator at once
  TaskId,      \* task ids (uuid4): each is used for at most one task
  Request,     \* a Tool id together with its arguments
  Sem,         \* Sem[q]: semantics of the Tool, "query", "action" or "session"
  Own,         \* Own[q]: ownership asked for at start, "task" or "shared"
  Copies,      \* bound: records one task may hold of one Request
  MaxRecords,  \* bound: Tool execution records in the store
  MaxCrashes,  \* bound: process crashes or /restart in one behaviour
  Modes,       \* verification modes a task may be created with
  MaxReplans,  \* AgentTaskCoordinator.max_replans
  Faults       \* what the environment may do: "torn", "tracker", "interrupt", "amnesia"

ASSUME BoundsAssumption ==
  /\ Copies \in Nat \ {0}
  /\ MaxRecords \in Nat
  /\ MaxCrashes \in Nat
  /\ MaxReplans \in Nat

ASSUME RequestAssumption ==
  /\ Sem \in [Request -> {"query", "action", "session"}]
  /\ Own \in [Request -> {"task", "shared"}]
  /\ Modes \subseteq {"off", "audit", "enforce", "recovery"}

VARIABLES
  task,        \* task[t]: the stored AgentTaskRecord
  rec,         \* rec[r]: the stored ToolExecutionRecord
  remote,      \* remote[r]: what the Gateway has done with the POST of r
  tracked,     \* invocations held in the Runtime state (persistent)
  bound,       \* tasks whose binding is held in the Runtime state (persistent)
  act,         \* act[a]: where coroutine a awaits, and what it carries
  reconciled,  \* AgentLoop._forge_reconciled of the running process
  crashes      \* crashes so far

store == <<task, rec>>
guards == <<tracked, bound>>
proc == <<act, reconciled, crashes>>
vars == <<task, rec, remote, tracked, bound, act, reconciled, crashes>>

-----------------------------------------------------------------------------
(* Statuses *)

TerminalTask == {"succeeded", "failed", "cancelled"}
ActiveTask   == {"executing", "cancelling", "awaiting_replan"}
TaskStatus   == TerminalTask \cup ActiveTask \cup {"absent"}

TerminalTool == {"succeeded", "failed", "cancelled", "stopped", "unknown"}
ToolStatus   == TerminalTool \cup {"absent", "pending", "accepted", "running"}

(* "sent": the POST has left and the Gateway has not seen it, perhaps never. *)
Settled      == {"succeeded", "failed", "cancelled", "stopped"}
RemoteStatus == Settled \cup {"none", "sent", "running"}

Rec == [task: TaskId, req: Request, n: 1..Copies]

TaskRow == [status: TaskStatus, mode: {"off", "audit", "enforce", "recovery"},
            revs: Nat, cancelReq: BOOLEAN, before: {"none", "clean", "late"}]
RecRow  == [status: ToolStatus, inv: BOOLEAN, warned: BOOLEAN]

NoTask == [status |-> "absent", mode |-> "off", revs |-> 0, cancelReq |-> FALSE,
           before |-> "none"]
NoRec  == [status |-> "absent", inv |-> FALSE, warned |-> FALSE]
Idle   == [pc |-> "idle"]

-----------------------------------------------------------------------------
(* Reading a task *)

RecordsOf(t) == {r \in Rec : r.task = t /\ rec[r].status # "absent"}

(* Actions, and Sessions the task itself must stop. *)
Owned(r) == \/ Sem[r.req] = "action"
            \/ Sem[r.req] = "session" /\ Own[r.req] = "task"

Pending(t) == {r \in RecordsOf(t) : Owned(r) /\ rec[r].status \notin TerminalTool}

(* Mutant: an unknown outcome counts as stopped. *)
CancelStatusUnknown(t) ==
  IF \A r \in RecordsOf(t) : Owned(r) => rec[r].status \in {"cancelled", "stopped", "unknown"}
    THEN "cancelled" ELSE "failed"

CancelStatus(t) ==
  IF \A r \in RecordsOf(t) : Owned(r) => rec[r].status \in {"cancelled", "stopped"}
    THEN "cancelled" ELSE "failed"

FactsSucceeded(t) ==
  \A r \in RecordsOf(t) :
    \/ rec[r].status = "succeeded"
    \/ Sem[r.req] = "session" /\ Own[r.req] = "task" /\ rec[r].status = "stopped"
    \/ Sem[r.req] = "session" /\ Own[r.req] = "shared"
         /\ rec[r].status \in {"accepted", "running", "stopped"}

FactsStatus(t) == IF FactsSucceeded(t) THEN "succeeded" ELSE "failed"

HasUnknown(t) ==
  \E r \in RecordsOf(t) : Sem[r.req] # "query" /\ rec[r].status = "unknown"

(* An action of t has already been sent towards the robot. *)
ActionSent(t) == \E r \in RecordsOf(t) : Sem[r.req] = "action"

-----------------------------------------------------------------------------
(* Control: a coroutine returns, awaits again, or the process dies. *)

Ready(a) == act[a] = Idle /\ reconciled

Await(a, where) ==
  act' = [act EXCEPT ![a] = where] /\ UNCHANGED <<reconciled, crashes>>

Return(a) == Await(a, Idle)

Die ==
  /\ crashes < MaxCrashes
  /\ crashes' = crashes + 1
  /\ act' = [a \in Actor |-> Idle]
  /\ reconciled' = FALSE

Torn == "torn" \in Faults /\ Die

(* Mutants: the release forgets unknown outcomes, or forgets the status. *)
ReleasedUnknown(t, s) == IF s \in TerminalTask THEN bound \ {t} ELSE bound
ReleasedAlways(t, s) == IF ~HasUnknown(t) THEN bound \ {t} ELSE bound

(* _schedule_experience: a terminal task gives its binding back, unless an *)
(* Action or Session of it has an unknown outcome.                         *)
Released(t, s) ==
  IF s \in TerminalTask /\ ~HasUnknown(t) THEN bound \ {t} ELSE bound

(* Write a status, then let go of the binding. *)
Commit(a, t, row) ==
  /\ task' = [task EXCEPT ![t] = row]
  /\ \/ bound' = Released(t, row.status) /\ Return(a)
     \/ row.status \in TerminalTask /\ UNCHANGED bound /\ Torn
  /\ UNCHANGED <<rec, remote, tracked>>

-----------------------------------------------------------------------------
(* Task tools *)

(* The binding is held before the task exists; an occupied slot undoes it. *)
CreateTask(a, t, m) ==
  /\ Ready(a)
  /\ task[t].status = "absent" /\ t \notin bound
  /\ bound' = bound \cup {t}
  /\ UNCHANGED <<rec, remote, tracked>>
  /\ \/ /\ \A u \in TaskId : task[u].status \notin ActiveTask
        /\ task' = [task EXCEPT ![t] = [NoTask EXCEPT !.status = "executing",
                                                      !.mode = m, !.revs = 1]]
        /\ Return(a)
     \/ UNCHANGED task /\ Torn

(* begin_revision either finds replan_deadline passed and fails the task, or *)
(* opens the next revision while the budget lasts.  The clock is free.       *)
BeginRevision(a, t) ==
  /\ Ready(a)
  /\ task[t].status = "awaiting_replan"
  /\ \/ Commit(a, t, [task[t] EXCEPT !.status = "failed"])
     \/ /\ task[t].revs - 1 < MaxReplans
        /\ Commit(a, t, [task[t] EXCEPT !.status = "executing", !.revs = @ + 1])

(* cancel_task: read, ask the Gateway for every pending invocation, write. *)
ApplyCancel(a, t, asked) ==
  Commit(a, t, [task[t] EXCEPT
    !.cancelReq = TRUE,
    !.status = IF asked \/ \E r \in RecordsOf(t) : Owned(r)
                 THEN "cancelling" ELSE CancelStatus(t)])

(* Mutant: a terminal task can be cancelled. *)
RequestCancelLate(a, t) ==
  /\ Ready(a)
  /\ task[t].status # "absent"
  /\ ApplyCancel(a, t, TRUE)

RequestCancel(a, t) ==
  /\ Ready(a)
  /\ task[t].status \in ActiveTask
  /\ IF \E r \in Pending(t) : rec[r].inv
       THEN Await(a, [pc |-> "cancel", task |-> t])
              /\ UNCHANGED <<store, remote, guards>>
       ELSE ApplyCancel(a, t, FALSE)

FinishCancel(a) ==
  \E t \in TaskId :
    /\ act[a] = [pc |-> "cancel", task |-> t]
    /\ ApplyCancel(a, t, TRUE)

-----------------------------------------------------------------------------
(* Finalization: check, capture after-evidence, verify, write. *)

RequestFinalize(a, t) ==
  /\ Ready(a)
  /\ task[t].status \in ActiveTask
  /\ Pending(t) = {}
  /\ RecordsOf(t) # {}
  /\ Await(a, [pc |-> "capture", task |-> t])
  /\ UNCHANGED <<store, remote, guards>>

(* After the capture the task is read again: a cancellation or mode "off"   *)
(* decides at once.                                                        *)
FinishFromFacts(a) ==
  \E t \in TaskId :
    /\ act[a] = [pc |-> "capture", task |-> t]
    /\ task[t].cancelReq \/ task[t].mode = "off"
    /\ Commit(a, t, [task[t] EXCEPT
         !.status = IF task[t].cancelReq THEN CancelStatus(t) ELSE FactsStatus(t)])

(* Mutant: a cancellation requested meanwhile is not looked at. *)
NeedsVerdictAnyway(t) == task[t].mode # "off"

NeedsVerdict(t) == ~task[t].cancelReq /\ task[t].mode # "off"

StartVerification(a) ==
  \E t \in TaskId :
    /\ act[a] = [pc |-> "capture", task |-> t]
    /\ NeedsVerdict(t)
    /\ Await(a, [pc |-> "verify", task |-> t])
    /\ UNCHANGED <<store, remote, guards>>

(* Mutant: the verdict itself is stored. *)
VerdictStatusRaw(t, verdict) == IF verdict = "success" THEN "succeeded" ELSE verdict

VerdictStatus(t, verdict) ==
  CASE task[t].mode = "audit" -> FactsStatus(t)
    [] task[t].mode = "recovery" /\ verdict = "replan_required" ->
         IF task[t].revs - 1 >= MaxReplans THEN "failed" ELSE "awaiting_replan"
    [] OTHER -> IF verdict = "success" THEN "succeeded" ELSE "failed"

ApplyVerdict(a, verdict) ==
  \E t \in TaskId :
    /\ act[a] = [pc |-> "verify", task |-> t]
    /\ Commit(a, t, [task[t] EXCEPT !.status = VerdictStatus(t, verdict)])

(* No verifier, or it raised: audit keeps the facts, the others fail closed. *)
VerificationError(a) ==
  \E t \in TaskId :
    /\ \/ act[a] = [pc |-> "verify", task |-> t]
       \/ act[a] = [pc |-> "capture", task |-> t] /\ NeedsVerdict(t)
    /\ Commit(a, t, [task[t] EXCEPT
         !.status = IF task[t].mode = "audit" THEN FactsStatus(t) ELSE "failed"])

-----------------------------------------------------------------------------
(* Tool calls *)

(* A record id nobody has used; ids of one Request are handed out in order. *)
NewRecord(r) ==
  /\ rec[r].status = "absent"
  /\ \A k \in 1..Copies : k < r.n => rec[[r EXCEPT !.n = k]].status # "absent"
  /\ Cardinality({x \in Rec : rec[x].status # "absent"}) < MaxRecords

(* _append_execution reads the status again, then stores the intent. *)
Append(r) ==
  /\ task[r.task].status = "executing"
  /\ NewRecord(r)
  /\ rec' = [rec EXCEPT ![r] = [status |-> "pending", inv |-> FALSE, warned |-> FALSE]]

StartQuery(a, r) ==
  /\ Ready(a) /\ Sem[r.req] = "query"
  /\ Append(r)
  /\ Await(a, [pc |-> "query", rec |-> r])
  /\ UNCHANGED <<task, remote, guards>>

FinishQuery(a) ==
  \E r \in Rec :
    /\ act[a] = [pc |-> "query", rec |-> r]
    /\ \E s \in {"succeeded", "unknown"} : rec' = [rec EXCEPT ![r].status = s]
    /\ Return(a)
    /\ UNCHANGED <<task, remote, guards>>

(* Mutant: an identical Action of unknown outcome is no obstacle. *)
CheckActionBlind(a, t, q) ==
  /\ Ready(a) /\ Sem[q] = "action"
  /\ task[t].status = "executing"
  /\ Await(a, [pc |-> "admit", task |-> t, req |-> q, snap |-> "held"])
  /\ UNCHANGED <<store, remote, guards>>

(* start_action refuses an identical Action of unknown outcome, then awaits *)
(* the ToolSpec; the snapshot decision is taken from this first read.       *)
CheckAction(a, t, q) ==
  /\ Ready(a) /\ Sem[q] = "action"
  /\ task[t].status = "executing"
  /\ ~ \E r \in RecordsOf(t) : r.req = q /\ rec[r].status = "unknown"
  /\ Await(a, [pc |-> "admit", task |-> t, req |-> q,
               snap |-> IF task[t].before = "none" THEN "wanted" ELSE "held"])
  /\ UNCHANGED <<store, remote, guards>>

(* _capture_before looks at the scene, or fails to. *)
TakeSnapshot(a) ==
  \E t \in TaskId, q \in Request :
    /\ act[a] = [pc |-> "admit", task |-> t, req |-> q, snap |-> "wanted"]
    /\ \E s \in {"none", IF ActionSent(t) THEN "late" ELSE "clean"} :
         Await(a, [pc |-> "admit", task |-> t, req |-> q, snap |-> s])
    /\ UNCHANGED <<store, remote, guards>>

(* The snapshot reference is stored, then the intent, then the POST leaves; *)
(* a task that stopped executing meanwhile refuses the intent.              *)
DispatchAction(a) ==
  \E r \in Rec, s \in {"held", "none", "clean", "late"} :
    /\ act[a] = [pc |-> "admit", task |-> r.task, req |-> r.req, snap |-> s]
    /\ task' = IF s = "held" THEN task ELSE [task EXCEPT ![r.task].before = s]
    /\ \/ /\ Append(r)
          /\ remote' = [remote EXCEPT ![r] = "sent"]
          /\ Await(a, [pc |-> "post", rec |-> r])
       \/ /\ task[r.task].status # "executing"
          /\ Return(a) /\ UNCHANGED <<rec, remote>>
    /\ UNCHANGED guards

StartSession(a, r) ==
  /\ Ready(a) /\ Sem[r.req] = "session"
  /\ Append(r)
  /\ remote' = [remote EXCEPT ![r] = "sent"]
  /\ Await(a, [pc |-> "post", rec |-> r])
  /\ UNCHANGED <<task, guards>>

(* Mutant: a failed tracking leaves no trace. *)
IdentifySilent(a, r, s) ==
  /\ remote[r] \notin {"none", "sent"}
  /\ rec' = [rec EXCEPT ![r] = [status |-> s, inv |-> TRUE, warned |-> FALSE]]
  /\ (tracked' = tracked \cup {r} \/ UNCHANGED tracked)
  /\ Return(a)
  /\ UNCHANGED <<task, remote, bound>>

(* Store the outcome of a POST with its invocation id, then track the id in *)
(* the Runtime; a tracking failure is written back into the record.         *)
Identify(a, r, s) ==
  /\ remote[r] \notin {"none", "sent"}
  /\ UNCHANGED <<task, remote, bound>>
  /\ \/ /\ rec' = [rec EXCEPT ![r] = [status |-> s, inv |-> TRUE, warned |-> FALSE]]
        /\ \/ tracked' = tracked \cup {r} /\ Return(a)
           \/ UNCHANGED tracked /\ Torn
     \/ /\ "tracker" \in Faults
        /\ rec' = [rec EXCEPT ![r] = [status |-> s, inv |-> TRUE, warned |-> TRUE]]
        /\ UNCHANGED tracked /\ Return(a)

(* Mutant: admission is taken for success. *)
AdmittedIsDone(a) ==
  \E r \in Rec :
    act[a] = [pc |-> "post", rec |-> r] /\ Identify(a, r, "succeeded")

Admitted(a) ==
  \E r \in Rec :
    act[a] = [pc |-> "post", rec |-> r] /\ Identify(a, r, "accepted")

(* Timeout, transport or contract error: with or without an identity. *)
PostFails(a) ==
  \E r \in Rec :
    /\ act[a] = [pc |-> "post", rec |-> r]
    /\ \/ Identify(a, r, "unknown")
       \/ /\ rec' = [rec EXCEPT ![r].status = "unknown"]
          /\ Return(a)
          /\ UNCHANGED <<task, remote, guards>>

-----------------------------------------------------------------------------
(* Reading an invocation back *)

(* The status that the phase of a GET's answer stands for.  A live          *)
(* invocation that the Gateway is still dispatching reads "pending"; one in *)
(* any later phase ("accepted", "running", "stopping" are one here)         *)
(* "running"; "amnesia" makes the Gateway forget r.                         *)
Reported(r) ==
  (IF remote[r] = "running" THEN {"pending", "running"} ELSE {remote[r]})
    \cup (IF "amnesia" \in Faults THEN {"unknown"} ELSE {})

(* What an observation may carry. *)
Phase == Settled \cup {"pending", "running", "unknown"}

(* observe_action and observe_session; only the former looks at the task. *)
Observe(r, phase) ==
  IF Sem[r.req] = "action" /\ task[r.task].status \in TerminalTask
    THEN UNCHANGED <<rec, tracked>>
    ELSE /\ rec' = [rec EXCEPT ![r].status = phase]
         /\ tracked' = IF phase \in Settled THEN tracked \ {r} ELSE tracked

ReadInvocation(a, r) ==
  /\ Ready(a)
  /\ rec[r].inv
  /\ \E phase \in Reported(r) :
       Await(a, [pc |-> "observe", rec |-> r, phase |-> phase])
  /\ UNCHANGED <<store, remote, guards>>

ApplyObservation(a) ==
  \E r \in Rec, phase \in Phase :
    /\ act[a] = [pc |-> "observe", rec |-> r, phase |-> phase]
    /\ Observe(r, phase)
    /\ Return(a)
    /\ UNCHANGED <<task, remote, bound>>

-----------------------------------------------------------------------------
(* reconcile_nonterminal: once per process, before its first turn. *)

(* Mutant: an intent without an identity is skipped. *)
StartReconcileKnown(a) ==
  /\ act[a] = Idle /\ ~reconciled
  /\ \E t \in TaskId :
       /\ task[t].status \in ActiveTask
       /\ bound' = bound \cup {t}
       /\ Await(a, [pc |-> "reconcile", todo |-> {r \in Pending(t) : rec[r].inv}])
  /\ UNCHANGED <<store, remote, tracked>>

StartReconcile(a) ==
  /\ act[a] = Idle /\ ~reconciled
  /\ \E t \in TaskId :
       /\ task[t].status \in ActiveTask
       /\ bound' = bound \cup {t}
       /\ Await(a, [pc |-> "reconcile", todo |->
            {r \in RecordsOf(t) : Sem[r.req] # "query" /\ rec[r].status \notin TerminalTool}])
  /\ UNCHANGED <<store, remote, tracked>>

NothingToReconcile(a) ==
  /\ act[a] = Idle /\ ~reconciled
  /\ \A t \in TaskId : task[t].status \notin ActiveTask
  /\ reconciled' = TRUE
  /\ UNCHANGED <<store, remote, guards, act, crashes>>

(* Mutant: an intent without an identity is sent again. *)
ReconcileResend(a) ==
  /\ act[a].pc = "reconcile"
  /\ \E r \in act[a].todo :
       /\ ~rec[r].inv
       /\ remote' = [remote EXCEPT ![r] = "sent"]
       /\ Await(a, [pc |-> "reconcile", todo |-> act[a].todo \ {r}])
  /\ UNCHANGED <<store, guards>>

(* An intent without an identity is never sent again: it becomes unknown. *)
ReconcileIntent(a) ==
  /\ act[a].pc = "reconcile"
  /\ \E r \in act[a].todo :
       /\ ~rec[r].inv
       /\ rec' = [rec EXCEPT ![r].status = "unknown"]
       /\ Await(a, [pc |-> "reconcile", todo |-> act[a].todo \ {r}])
  /\ UNCHANGED <<task, remote, guards>>

ReconcileRead(a) ==
  /\ act[a].pc = "reconcile"
  /\ \E r \in act[a].todo :
       /\ rec[r].inv
       /\ tracked' = tracked \cup {r}
       /\ \E phase \in Reported(r) \cup {"error"} :
            Await(a, [pc |-> "reread", todo |-> act[a].todo \ {r},
                      rec |-> r, phase |-> phase])
  /\ UNCHANGED <<store, remote, bound>>

(* A GET that fails leaves the outcome unknown. *)
ReconcileApply(a) ==
  /\ act[a].pc = "reread"
  /\ IF act[a].phase = "error"
       THEN rec' = [rec EXCEPT ![act[a].rec].status = "unknown"] /\ UNCHANGED tracked
       ELSE Observe(act[a].rec, act[a].phase)
  /\ Await(a, [pc |-> "reconcile", todo |-> act[a].todo])
  /\ UNCHANGED <<task, remote, bound>>

FinishReconcile(a) ==
  /\ act[a] = [pc |-> "reconcile", todo |-> {}]
  /\ reconciled' = TRUE
  /\ act' = [act EXCEPT ![a] = Idle]
  /\ UNCHANGED <<store, remote, guards, crashes>>

-----------------------------------------------------------------------------
(* The environment *)

(* The Runtime refuses to track an invocation when none is active or its    *)
(* state cannot be saved; the reconciliation does not catch that.           *)
TrackerRaises(a) ==
  /\ "tracker" \in Faults
  /\ act[a].pc = "reconcile"
  /\ \E r \in act[a].todo : rec[r].inv

(* An Exception the coordinator lets through: an await raises, or a         *)
(* reconciliation stops half way, and the next turn begins it again.        *)
Abandon(a) ==
  /\ act[a].pc \in {"admit", "capture"} \/ TrackerRaises(a)
  /\ Return(a)
  /\ UNCHANGED <<store, remote, guards>>

(* /stop or cron cancels the asyncio task: CancelledError is no Exception,  *)
(* so no handler of the coordinator runs.                                   *)
Interrupt(a) ==
  /\ "interrupt" \in Faults
  /\ act[a] # Idle
  /\ Return(a)
  /\ UNCHANGED <<store, remote, guards>>

Crash ==
  /\ reconciled \/ \E a \in Actor : act[a] # Idle
  /\ Die
  /\ UNCHANGED <<store, remote, guards>>

GatewayAdmits(r) ==
  /\ remote[r] = "sent"
  /\ remote' = [remote EXCEPT ![r] = "running"]
  /\ UNCHANGED <<store, guards, proc>>

GatewaySettles(r) ==
  /\ remote[r] = "running"
  /\ \E s \in IF Sem[r.req] = "session" THEN {"stopped", "failed"}
                                        ELSE {"succeeded", "failed", "cancelled"} :
       remote' = [remote EXCEPT ![r] = s]
  /\ UNCHANGED <<store, guards, proc>>

-----------------------------------------------------------------------------
Init ==
  /\ task = [t \in TaskId |-> NoTask]
  /\ rec = [r \in Rec |-> NoRec]
  /\ remote = [r \in Rec |-> "none"]
  /\ tracked = {} /\ bound = {}
  /\ act = [a \in Actor |-> Idle]
  /\ reconciled = FALSE
  /\ crashes = 0

TaskCall(a) ==
  \/ \E t \in TaskId : \/ \E m \in Modes : CreateTask(a, t, m)
                       \/ BeginRevision(a, t)
                       \/ RequestCancel(a, t)
                       \/ RequestFinalize(a, t)
  \/ FinishCancel(a)
  \/ FinishFromFacts(a) \/ StartVerification(a) \/ VerificationError(a)
  \/ \E v \in {"success", "failure", "replan_required"} : ApplyVerdict(a, v)

ToolCall(a) ==
  \/ \E r \in Rec : StartQuery(a, r) \/ StartSession(a, r) \/ ReadInvocation(a, r)
  \/ \E t \in TaskId, q \in Request : CheckAction(a, t, q)
  \/ TakeSnapshot(a) \/ DispatchAction(a)
  \/ Admitted(a) \/ PostFails(a) \/ FinishQuery(a) \/ ApplyObservation(a)

Reconcile(a) ==
  \/ StartReconcile(a) \/ NothingToReconcile(a) \/ ReconcileIntent(a)
  \/ ReconcileRead(a) \/ ReconcileApply(a) \/ FinishReconcile(a)

Gateway == \E r \in Rec : GatewayAdmits(r) \/ GatewaySettles(r)

Next ==
  \/ \E a \in Actor : TaskCall(a) \/ ToolCall(a) \/ Reconcile(a)
                        \/ Abandon(a) \/ Interrupt(a)
  \/ Gateway \/ Crash

Spec == Init /\ [][Next]_vars

(* HTTP calls have timeouts, so a POST returns.  A reconciliation is not    *)
(* fair: it waits for a turn, and may fail in every one (TrackerRaises).    *)
FairSpec == Spec /\ \A a \in Actor : WF_vars(Admitted(a) \/ PostFails(a))

-----------------------------------------------------------------------------
(* Type invariant *)

ActRow ==
  [pc: {"idle"}]
    \cup [pc: {"cancel", "capture", "verify"}, task: TaskId]
    \cup [pc: {"admit"}, task: TaskId, req: Request,
          snap: {"wanted", "held", "none", "clean", "late"}]
    \cup [pc: {"query", "post"}, rec: Rec]
    \cup [pc: {"observe"}, rec: Rec, phase: Phase]
    \cup [pc: {"reconcile"}, todo: SUBSET Rec]
    \cup [pc: {"reread"}, todo: SUBSET Rec, rec: Rec, phase: Phase \cup {"error"}]

(* Every variable has the shape the store, the Runtime state and the        *)
(* coroutines give it, and a coroutine only carries an identity the Gateway *)
(* could have answered for.                                                *)
TypeOK ==
  /\ task \in [TaskId -> TaskRow]
  /\ rec \in [Rec -> RecRow]
  /\ remote \in [Rec -> RemoteStatus]
  /\ tracked \subseteq Rec /\ bound \subseteq TaskId
  /\ act \in [Actor -> ActRow]
  /\ reconciled \in BOOLEAN
  /\ crashes \in 0..MaxCrashes

-----------------------------------------------------------------------------
(* What holds whatever the interleaving, the crashes and the interrupts.    *)

(* Forge owns the execution facts: an Action or Session record that claims  *)
(* a definite outcome claims the one the Gateway reached, even when the     *)
(* answer was lost, read late, applied out of order or found by recovery.   *)
FactsAuthoritative ==
  \A r \in Rec :
    Sem[r.req] # "query" /\ rec[r].status \in Settled => remote[r] = rec[r].status

(* A task reported "cancelled" has nothing of its own left on the robot.    *)
CancelledIsStopped ==
  [][\A t \in TaskId :
       task[t].status # "cancelled" /\ task'[t].status = "cancelled" =>
         \A r \in RecordsOf(t) : Owned(r) => remote[r] \in {"cancelled", "stopped"}]_vars

(* The POST of a record leaves in the step that stores its intent and never *)
(* again: neither a timeout nor a restart repeats it.                       *)
IntentBeforePost ==
  [][\A r \in Rec :
       remote[r] # "sent" /\ remote'[r] = "sent" =>
         rec[r].status = "absent" /\ rec'[r].status = "pending"]_vars

(* A task that waits for a replan can still afford one, and no task ever    *)
(* holds more plan revisions than the budget allows.                        *)
ReplanAffordable ==
  \A t \in TaskId :
    /\ task[t].revs <= MaxReplans + 1
    /\ task[t].status = "awaiting_replan" => task[t].revs <= MaxReplans

(* A live invocation whose identity PAOS has stored keeps the Runtime from  *)
(* being stopped, unless the tracking failure is on record.                 *)
RuntimeGuarded ==
  \A r \in Rec :
    rec[r].inv /\ remote[r] = "running" =>
      r \in tracked \/ rec[r].warned \/ r.task \in bound

(* At most one task is non-terminal: one turn at a time keeps this, turns    *)
(* that overlap do not.                                                     *)
OneActive ==
  \A t, u \in TaskId :
    task[t].status \in ActiveTask /\ task[u].status \in ActiveTask => t = u

(* A POST whose record has neither an outcome nor an identity to ask for.    *)
Adrift(r) == Sem[r.req] # "query" /\ rec[r].status = "pending" /\ ~rec[r].inv

(* Recovery is complete.  Whatever interrupted POSTs and crashes left behind, *)
(* and however the first turns of the new process reconcile side by side or   *)
(* fail half way: when the loop takes the store for reconciled, no record of  *)
(* the active task is adrift.  (Recovery looks at one active task: if         *)
(* overlapping turns had left two, it repairs one.)                           *)
RecoveryComplete ==
  [][~reconciled /\ reconciled' =>
       \/ \A r \in Rec : task[r.task].status \in ActiveTask => ~Adrift(r)
       \/ ~OneActive]_vars

(* Turns that overlap may reopen a task after its slot was given away, but  *)
(* no more tasks are ever non-terminal than coroutines are in the Agent.    *)
ActiveBounded ==
  Cardinality({t \in TaskId : task[t].status \in ActiveTask}) <= Cardinality(Actor)

-----------------------------------------------------------------------------
(* What holds when one turn at a time uses the coordinator.                 *)

(* Every non-terminal task holds its binding in the Runtime state.          *)
BindingHeld ==
  \A t \in TaskId : task[t].status \in ActiveTask => t \in bound

(* A requested cancellation is never answered with success or a replan.     *)
CancelHonoured ==
  \A t \in TaskId :
    task[t].cancelReq => task[t].status \in {"cancelling", "cancelled", "failed"}

(* A terminal task with an Action of unknown outcome keeps its binding, so  *)
(* the Runtime under that Action is not stopped silently.                   *)
UnknownKeepsBinding ==
  \A t \in TaskId :
    /\ task[t].status \in TerminalTask
    /\ \E r \in RecordsOf(t) : Sem[r.req] = "action" /\ rec[r].status = "unknown"
    => t \in bound

(* An Action is not sent again while an identical one is unknown.           *)
NoBlindResend ==
  [][\A r \in Rec :
       Sem[r.req] = "action" /\ remote[r] = "none" /\ remote'[r] = "sent" =>
         ~ \E x \in RecordsOf(r.task) : x.req = r.req /\ rec[x].status = "unknown"]_vars

(* With nobody awaiting, every open Action or Session of the active task    *)
(* can be read back from the Gateway: no intent blocks finalization for     *)
(* ever.  (An interrupted POST breaks this until the next restart.)         *)
NoWedge ==
  reconciled /\ (\A a \in Actor : act[a] = Idle) =>
    \A t \in TaskId : task[t].status \in ActiveTask =>
      \A r \in Pending(t) : rec[r].inv

(* No intent towards the robot stays adrift: its POST answers, or the process *)
(* dies and recovery gives the record an outcome, as long as some turn gets   *)
(* through the recovery again and again.  (An intent is stored once, so none  *)
(* is adrift again and again only if each one is resolved.)                   *)
IntentResolved == []<>reconciled => []<>(\A r \in Rec : ~Adrift(r))

Slot == INSTANCE TaskSlot WITH
  status <- [t \in TaskId |-> task[t].status],
  replans <- [t \in TaskId |-> IF task[t].revs = 0 THEN 0 ELSE task[t].revs - 1]

(* The coordinator implements the one-slot lifecycle of TaskSlot: one task  *)
(* in the slot, budgeted replans of it, no success out of "cancelling", and *)
(* no way out of a terminal status.                                         *)
ImplementsSlot == Slot!Spec

Ledger == INSTANCE ToolLedger WITH
  Record <- Rec,
  Posted <- {r \in Rec : Sem[r.req] # "query"},
  claim <- [r \in Rec |-> rec[r].status],
  named <- [r \in Rec |-> rec[r].inv],
  fact <- remote

(* However turns overlap and whoever dies or is interrupted, the records are *)
(* the ledger of ToolLedger: one POST for an intent, its answer stored on an *)
(* intent that still waits for it, and claims that follow the Gateway's facts. *)
ImplementsLedger == Ledger!Spec

-----------------------------------------------------------------------------
(* What the documentation promises and the code does not keep.              *)

(* "Once a Tool record is terminal, later observations do not rewrite its   *)
(* execution fact" (docs/forge/README.md).                                  *)
TerminalRecordsStable ==
  [][\A r \in Rec : rec[r].status \in Settled => rec'[r].status = rec[r].status]_vars

(* "Before-capture runs once before the first bound physical execution"     *)
(* (docs/en/01-framework-introduction.md).                                  *)
BeforeIsBefore == \A t \in TaskId : task[t].before # "late"
=============================================================================
